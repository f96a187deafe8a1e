--------------------------- MODULE AcTokensProofs ---------------------------
(* Proof that a decoder finds the coefficient orders that the split threads *)
(* of coeff_orders_kernel make, and that they are the host's, for every     *)
(* statistic of every frame and every number of split threads and lanes.    *)
(*                                                                          *)
(*   - the natural order lists every position of a transform once           *)
(*     (NaturalOrder);                                                      *)
(*   - the splits count each key that comes before a position once, so that *)
(*     the place they give it is its rank in the order of the keys, ties by *)
(*     index (CountedForIs), and places and positions correspond one to one *)
(*     (AtIs); the host's ranking gives the same (DeviceSorts,              *)
(*     ReferenceSorts);                                                     *)
(*   - the Lehmer code of a place is the number of unused positions below   *)
(*     its own (TakenIs), and so by induction over the places what a        *)
(*     decoder has left is what is not in the places before (UnusedIs).     *)
EXTENDS AcTokens, FiniteSetTheorems, FunctionTheorems, WellFoundedInduction, TLAPS

---------------------------------------------------------------------------
(* The least-number principle.  Induction on a number n is the application *)
(* of this lemma to the set of the counterexamples.                        *)
LEMMA LeastNumber ==
  ASSUME NEW S, S \subseteq Nat, S # {}
  PROVE  \E m \in S : \A n \in S : m <= n
<1>1. PICK m \in S : \A n \in S : ~ (<<n, m>> \in OpToRel(<, Nat))
  BY NatLessThanWellFounded, WFMin
<1>2. \A n \in S : ~ (n < m)
  BY <1>1 DEF OpToRel
<1> QED BY <1>2

(* A table of a function is the function. *)
LEMMA TabulatedIs == \A f : Tabulated(f) = f
BY DEF Tabulated

(* Sets whose elements correspond one to one are of one size. *)
LEMMA SameSize ==
  ASSUME NEW S, NEW T, IsFiniteSet(S), NEW f \in [S -> T],
         \A x \in S : \A y \in S : f[x] = f[y] => x = y,
         \A t \in T : \E x \in S : f[x] = t
  PROVE  IsFiniteSet(T) /\ Cardinality(T) = Cardinality(S)
<1>1. f \in Bijection(S, T)
  BY Fun_IsBij
<1>2. ExistsBijection(S, T)
  BY <1>1, Fun_ExistsBij
<1> QED BY <1>2, FS_Bijection

---------------------------------------------------------------------------
(* Ranks: how many elements of S have a smaller value.                     *)
Lower(S, v, x) == {y \in S : v[y] < v[x]}
Rank(S, v, x)  == Cardinality(Lower(S, v, x))

(* The ranks of elements with different values number them from 0 on, in   *)
(* the order of the values.                                                *)
LEMMA RanksNumber ==
  ASSUME NEW S, IsFiniteSet(S), NEW v \in [S -> Int],
         \A x \in S : \A y \in S : v[x] = v[y] => x = y
  PROVE  /\ \A x \in S : Rank(S, v, x) \in 0 .. Cardinality(S) - 1
         /\ \A x \in S : \A y \in S : Rank(S, v, x) < Rank(S, v, y) <=> v[x] < v[y]
         /\ \A x \in S : \A y \in S : Rank(S, v, x) = Rank(S, v, y) => x = y
         /\ \A k \in 0 .. Cardinality(S) - 1 : \E x \in S : Rank(S, v, x) = k
<1> DEFINE n == Cardinality(S)
           R(x) == Rank(S, v, x)
<1>1. n \in Nat
  BY FS_CardinalityType
<1>2. ASSUME NEW x \in S
      PROVE  IsFiniteSet(Lower(S, v, x)) /\ R(x) \in Nat /\ R(x) < n
  <2>1. Lower(S, v, x) \in SUBSET S /\ x \notin Lower(S, v, x)
    BY DEF Lower
  <2>2. IsFiniteSet(Lower(S, v, x)) /\ R(x) <= n /\ (n = R(x) => S = Lower(S, v, x))
    BY <2>1, FS_Subset DEF Rank
  <2>3. R(x) \in Nat
    BY <2>2, FS_CardinalityType DEF Rank
  <2> QED BY <1>1, <2>1, <2>2, <2>3
<1>3. ASSUME NEW x \in S, NEW y \in S, v[x] < v[y] PROVE R(x) < R(y)
  <2>1. Lower(S, v, x) \in SUBSET Lower(S, v, y) /\ x \in Lower(S, v, y) /\ x \notin Lower(S, v, x)
    BY <1>3 DEF Lower
  <2>2. R(x) <= R(y) /\ (R(y) = R(x) => Lower(S, v, y) = Lower(S, v, x))
    BY <1>2, <2>1, FS_Subset DEF Rank
  <2> QED BY <1>2, <2>1, <2>2
<1>4. ASSUME NEW x \in S, NEW y \in S PROVE R(x) < R(y) <=> v[x] < v[y]
  <2>1. v[x] \in Int /\ v[y] \in Int /\ R(x) \in Nat /\ R(y) \in Nat
    BY <1>2
  <2>2. CASE v[x] < v[y]
    BY <1>3, <2>2
  <2>3. CASE v[y] < v[x]
    <3>1. R(y) < R(x)
      BY <1>3, <2>3
    <3> HIDE DEF R
    <3> QED BY <2>1, <2>3, <3>1
  <2>4. CASE v[x] = v[y]
    <3>1. x = y
      BY <2>4
    <3> QED BY <2>1, <2>4, <3>1
  <2> HIDE DEF R
  <2> QED BY <2>1, <2>2, <2>3, <2>4
<1>5. ASSUME NEW x \in S, NEW y \in S, R(x) = R(y) PROVE x = y
  <2>1. v[x] \in Int /\ v[y] \in Int /\ R(x) \in Nat /\ R(y) \in Nat
    BY <1>2
  <2>2. ~ (v[x] < v[y]) /\ ~ (v[y] < v[x])
    <3>1. (R(x) < R(y) <=> v[x] < v[y]) /\ (R(y) < R(x) <=> v[y] < v[x])
      BY <1>4
    <3> HIDE DEF R
    <3> QED BY <1>5, <2>1, <3>1
  <2>3. v[x] = v[y]
    BY <2>1, <2>2
  <2> QED BY <2>3
<1> DEFINE f == [x \in S |-> R(x)]
<1>6. f \in Injection(S, 0 .. n - 1)
  <2>1. f \in [S -> 0 .. n - 1]
    <3>1. \A x \in S : R(x) \in 0 .. n - 1
      BY <1>1, <1>2
    <3> HIDE DEF R, n
    <3> QED BY <3>1
  <2>2. \A x, y \in S : f[x] = f[y] => x = y
    BY <1>5
  <2> HIDE DEF f, n
  <2> QED BY <2>1, <2>2, Fun_IsInj
<1>7. f \in Surjection(S, 0 .. n - 1)
  <2>1. IsFiniteSet(0 .. n - 1) /\ Cardinality(0 .. n - 1) = n
    <3> HIDE DEF n
    <3> QED BY <1>1, FS_Interval
  <2> HIDE DEF f
  <2> QED BY <1>6, <2>1, FS_Injection
<1>8. \A k \in 0 .. n - 1 : \E x \in S : f[x] = k
  <2> DEFINE T == 0 .. n - 1
  <2>1. f \in Surjection(S, T)
    BY <1>7
  <2> HIDE DEF f, T
  <2>2. \A k \in T : \E x \in S : f[x] = k
    BY <2>1, Fun_SurjectionProperties
  <2> QED BY <2>2 DEF T
<1>9. ASSUME NEW x \in S PROVE R(x) \in 0 .. n - 1
  <2>1. R(x) \in Nat /\ R(x) < n
    BY <1>2
  <2> HIDE DEF R, n
  <2> QED BY <1>1, <2>1
<1>10. \A k \in 0 .. n - 1 : \E x \in S : R(x) = k
  BY <1>8
<1> QED BY <1>4, <1>5, <1>9, <1>10

---------------------------------------------------------------------------
(* The natural order.                                                      *)

(* A quotient and its remainder. *)
LEMMA Quotient ==
  ASSUME NEW a \in Nat, NEW b \in Nat, b > 0
  PROVE  /\ a \div b \in Nat /\ a % b \in Nat /\ a % b < b
         /\ a = b * (a \div b) + (a % b)
OBVIOUS

(* A number is below a product when its quotient is below the factor. *)
LEMMA QuotientBelow ==
  ASSUME NEW a \in Nat, NEW b \in Nat, b > 0, NEW c \in Nat, a < b * c
  PROVE  a \div b < c
<1> DEFINE q == a \div b
           r == a % b
<1>1. q \in Nat /\ r \in Nat /\ a = b * q + r
  BY Quotient
<1>2. SUFFICES ASSUME q >= c PROVE FALSE
  <2> HIDE DEF q, r
  <2>1. ~ (q >= c) => q < c
    BY <1>1
  <2> QED BY <1>2, <2>1 DEF q
<1>3. b * q >= b * c
  <2> HIDE DEF q, r
  <2> QED BY <1>1, <1>2
<1> HIDE DEF q, r
<1> QED BY <1>1, <1>3

(* The next multiple of b is not before that of a larger factor. *)
LEMMA NextMultiple ==
  ASSUME NEW b \in Nat, NEW x \in Nat, NEW y \in Nat, x < y
  PROVE  b * x \in Nat /\ b * y \in Nat /\ b * x + b <= b * y
<1>1. x + 1 <= y
  OBVIOUS
<1>2. b * (x + 1) <= b * y
  BY <1>1
<1>3. b * (x + 1) = b * x + b
  OBVIOUS
<1> QED BY <1>2, <1>3

(* Two numbers of the form b * q + r, r < b, are equal in both parts. *)
LEMMA Digits ==
  ASSUME NEW b \in Nat, b > 0, NEW q \in Nat, NEW r \in Nat, r < b,
         NEW p \in Nat, NEW t \in Nat, t < b, b * q + r = b * p + t
  PROVE  q = p /\ r = t
<1>1. ASSUME NEW x \in Nat, NEW y \in Nat, x < y PROVE b * x + b <= b * y
  BY <1>1, NextMultiple
<1>2. ~ (q < p)
  BY <1>1
<1>3. ~ (p < q)
  BY <1>1
<1> QED BY <1>2, <1>3

(* The sides and the sizes of transforms. *)
LEMMA SideIs ==
  ASSUME NEW side \in Sides
  PROVE  /\ side \in Nat /\ side > 0 /\ side * side \in Nat
         /\ CoveredSide(side) \in Nat /\ CoveredSide(side) > 0 /\ CoveredSide(side) <= side
         /\ Covered(side) \in Nat /\ Covered(side) > 0 /\ Covered(side) <= side * side
<1>1. PICK m \in {1, 2, 4} : side = m * BlockDim
  BY LayoutAssumption
<1>2. BlockDim \in Nat /\ BlockDim > 0
  BY LayoutAssumption
<1>3. side \in Nat /\ side > 0 /\ m <= side
  BY <1>1, <1>2
<1>4. CoveredSide(side) = m
  <2>1. BlockDim * m + 0 = BlockDim * (side \div BlockDim) + (side % BlockDim)
    BY <1>1, <1>2, <1>3, Quotient
  <2>2. side \div BlockDim \in Nat /\ side % BlockDim \in Nat /\ side % BlockDim < BlockDim
    BY <1>2, <1>3, Quotient
  <2>3. m = side \div BlockDim
    BY <1>2, <2>1, <2>2, Digits
  <2> QED BY <2>3 DEF CoveredSide
<1>5. m * m <= side * side /\ side * side \in Nat
  <2>1. m * m <= m * side /\ m * side <= side * side
    BY <1>1, <1>3
  <2> QED BY <1>3, <2>1
<1> QED BY <1>3, <1>4, <1>5 DEF Covered

(* Row q and column r of a rectangle with b columns and c rows are numbered *)
(* below b * c.                                                            *)
LEMMA DigitsBelow ==
  ASSUME NEW b \in Nat, NEW c \in Nat, NEW q \in Nat, q < c, NEW r \in Nat, r < b
  PROVE  b * q + r \in Nat /\ b * q + r < b * c
<1>1. b * (q + 1) <= b * c
  <2>1. q + 1 <= c
    OBVIOUS
  <2> QED BY <2>1
<1>2. b * (q + 1) = b * q + b
  OBVIOUS
<1>3. b * q \in Nat /\ b * c \in Nat
  OBVIOUS
<1> QED BY <1>1, <1>2, <1>3

Row(side, r) == r \div side
Col(side, r) == r % side

(* The positions of a transform are its rows and columns. *)
LEMMA PositionIs ==
  ASSUME NEW side \in Sides
  PROVE  /\ \A r \in Positions(side) :
              /\ Row(side, r) \in Nat /\ Row(side, r) < side
              /\ Col(side, r) \in Nat /\ Col(side, r) < side
              /\ r = side * Row(side, r) + Col(side, r)
         /\ \A y \in 0 .. side - 1, x \in 0 .. side - 1 :
              /\ side * y + x \in Positions(side)
              /\ Row(side, side * y + x) = y /\ Col(side, side * y + x) = x
<1>1. side \in Nat /\ side > 0 /\ side * side \in Nat
  BY SideIs
<1>2. ASSUME NEW r \in Positions(side)
      PROVE  /\ Row(side, r) \in Nat /\ Row(side, r) < side
             /\ Col(side, r) \in Nat /\ Col(side, r) < side
             /\ r = side * Row(side, r) + Col(side, r)
  <2>1. r \in Nat /\ r < side * side
    BY <1>1 DEF Positions
  <2> QED BY <1>1, <2>1, Quotient, QuotientBelow DEF Row, Col
<1>3. ASSUME NEW y \in 0 .. side - 1, NEW x \in 0 .. side - 1
      PROVE  /\ side * y + x \in Positions(side)
             /\ Row(side, side * y + x) = y /\ Col(side, side * y + x) = x
  <2> DEFINE r == side * y + x
  <2>1. y \in Nat /\ y < side /\ x \in Nat /\ x < side
    BY <1>1
  <2>2. r \in Nat /\ r < side * side
    BY <1>1, <2>1, DigitsBelow
  <2>3. r \in Positions(side)
    <3> HIDE DEF r
    <3> QED BY <1>1, <2>2 DEF Positions
  <2>4. /\ Row(side, r) \in Nat /\ Col(side, r) \in Nat /\ Col(side, r) < side
        /\ r = side * Row(side, r) + Col(side, r)
    <3> HIDE DEF r
    <3> QED BY <1>2, <2>3
  <2>5. Row(side, r) = y /\ Col(side, r) = x
    <3> DEFINE p == Row(side, r)
               t == Col(side, r)
    <3>1. p \in Nat /\ t \in Nat /\ t < side /\ side * y + x = side * p + t
      BY <2>4
    <3> HIDE DEF r, p, t
    <3>2. y = p /\ x = t
      BY <1>1, <2>1, <3>1, Digits
    <3> QED BY <3>2 DEF p, t
  <2> QED BY <2>3, <2>5
<1> QED BY <1>2, <1>3

Corner(side) == {r \in Positions(side) : IsCorner(side, r)}
CornerIndex(side, r) == Row(side, r) * CoveredSide(side) + Col(side, r)

(* The corner in raster order. *)
LEMMA CornersNumber ==
  ASSUME NEW side \in Sides
  PROVE  /\ \A r \in Corner(side) : CornerIndex(side, r) \in 0 .. Covered(side) - 1
         /\ \A r \in Corner(side) : \A s \in Corner(side) :
              CornerIndex(side, r) = CornerIndex(side, s) => r = s
         /\ \A k \in 0 .. Covered(side) - 1 : \E r \in Corner(side) : CornerIndex(side, r) = k
         /\ IsFiniteSet(Corner(side)) /\ Cardinality(Corner(side)) = Covered(side)
<1> DEFINE m == CoveredSide(side)
<1>1. side \in Nat /\ side > 0 /\ m \in Nat /\ m > 0 /\ m <= side /\ Covered(side) = m * m
  BY SideIs DEF Covered
<1>2. ASSUME NEW r \in Corner(side)
      PROVE  /\ r \in Positions(side)
             /\ Row(side, r) \in Nat /\ Row(side, r) < m
             /\ Col(side, r) \in Nat /\ Col(side, r) < m
             /\ r = side * Row(side, r) + Col(side, r)
             /\ CornerIndex(side, r) = m * Row(side, r) + Col(side, r)
  <2>1. r \in Positions(side) /\ Row(side, r) < m /\ Col(side, r) < m
    BY DEF Corner, IsCorner, Row, Col
  <2>2. /\ Row(side, r) \in Nat /\ Col(side, r) \in Nat
        /\ r = side * Row(side, r) + Col(side, r)
    BY <2>1, PositionIs
  <2>3. CornerIndex(side, r) = m * Row(side, r) + Col(side, r)
    <3>1. CornerIndex(side, r) = Row(side, r) * m + Col(side, r)
      BY DEF CornerIndex
    <3> HIDE DEF m
    <3> QED BY <1>1, <2>2, <3>1
  <2> QED BY <2>1, <2>2, <2>3
<1>3. ASSUME NEW r \in Corner(side) PROVE CornerIndex(side, r) \in 0 .. Covered(side) - 1
  <2> HIDE DEF m
  <2>1. CornerIndex(side, r) \in Nat /\ CornerIndex(side, r) < m * m
    BY <1>1, <1>2, DigitsBelow
  <2>2. m * m \in Nat
    BY <1>1
  <2> QED BY <1>1, <2>1, <2>2
<1>4. ASSUME NEW r \in Corner(side), NEW s \in Corner(side), CornerIndex(side, r) = CornerIndex(side, s)
      PROVE  r = s
  <2> HIDE DEF m
  <2>1. Row(side, r) = Row(side, s) /\ Col(side, r) = Col(side, s)
    <3> DEFINE q == Row(side, r)
               t == Col(side, r)
               p == Row(side, s)
               u == Col(side, s)
    <3>1. q \in Nat /\ t \in Nat /\ t < m /\ p \in Nat /\ u \in Nat /\ u < m
          /\ m * q + t = m * p + u
      BY <1>2, <1>4
    <3> HIDE DEF q, t, p, u
    <3>2. q = p /\ t = u
      BY <1>1, <3>1, Digits
    <3> QED BY <3>2 DEF q, t, p, u
  <2>2. r = side * Row(side, r) + Col(side, r) /\ s = side * Row(side, s) + Col(side, s)
    BY <1>2
  <2> QED BY <2>1, <2>2
<1>5. ASSUME NEW k \in 0 .. Covered(side) - 1
      PROVE  \E r \in Corner(side) : CornerIndex(side, r) = k
  <2> DEFINE y == k \div m
             x == k % m
  <2> HIDE DEF m
  <2>1. k \in Nat /\ k < m * m
    <3>1. m * m \in Nat
      BY <1>1
    <3> QED BY <1>1, <3>1
  <2>2. y \in Nat /\ x \in Nat /\ x < m /\ y < m /\ k = m * y + x
    BY <1>1, <2>1, Quotient, QuotientBelow
  <2> HIDE DEF y, x
  <2>3. y \in 0 .. side - 1 /\ x \in 0 .. side - 1
    BY <1>1, <2>2
  <2> DEFINE r == side * y + x
  <2>4. r \in Positions(side) /\ Row(side, r) = y /\ Col(side, r) = x
    BY <2>3, PositionIs
  <2> HIDE DEF r
  <2>5. r \in Corner(side)
    BY <2>2, <2>4 DEF Corner, IsCorner, Row, Col, m
  <2>6. CornerIndex(side, r) = k
    BY <1>2, <2>2, <2>4, <2>5
  <2> QED BY <2>5, <2>6
<1>6. IsFiniteSet(Corner(side)) /\ Cardinality(Corner(side)) = Covered(side)
  <2> DEFINE f == [r \in Corner(side) |-> CornerIndex(side, r)]
  <2>1. IsFiniteSet(Corner(side))
    <3>1. IsFiniteSet(Positions(side))
      BY SideIs, FS_Interval DEF Positions
    <3> QED BY <3>1, FS_Subset DEF Corner
  <2>2. f \in [Corner(side) -> 0 .. Covered(side) - 1]
    BY <1>3
  <2>3. Cardinality(0 .. Covered(side) - 1) = Cardinality(Corner(side))
    <3>1. \A r \in Corner(side) : \A s \in Corner(side) : f[r] = f[s] => r = s
      BY <1>4
    <3>2. \A k \in 0 .. Covered(side) - 1 : \E r \in Corner(side) : f[r] = k
      BY <1>5
    <3> HIDE DEF f
    <3> QED BY <2>1, <2>2, <3>1, <3>2, SameSize
  <2>4. Cardinality(0 .. Covered(side) - 1) = Covered(side)
    BY SideIs, FS_Interval
  <2> QED BY <2>1, <2>3, <2>4
<1> QED BY <1>3, <1>4, <1>5, <1>6

Zigzag(side, r) ==
  (Col(side, r) + Row(side, r)) * side
    + IF (Col(side, r) + Row(side, r)) % 2 = 0 THEN Col(side, r) ELSE Row(side, r)
Diagonals(side) == Positions(side) \ Corner(side)

(* The diagonals meet no position twice. *)
LEMMA ZigzagInjective ==
  ASSUME NEW side \in Sides
  PROVE  /\ \A r \in Positions(side) : Zigzag(side, r) \in Int
         /\ \A r \in Positions(side) : \A s \in Positions(side) :
              Zigzag(side, r) = Zigzag(side, s) => r = s
<1>1. side \in Nat /\ side > 0
  BY SideIs
<1> DEFINE d(r) == Col(side, r) + Row(side, r)
           e(r) == IF d(r) % 2 = 0 THEN Col(side, r) ELSE Row(side, r)
<1>2. ASSUME NEW r \in Positions(side)
      PROVE  /\ d(r) \in Nat /\ e(r) \in Nat /\ e(r) < side
             /\ Zigzag(side, r) = side * d(r) + e(r)
             /\ Zigzag(side, r) \in Int
  <2>1. /\ Row(side, r) \in Nat /\ Row(side, r) < side
        /\ Col(side, r) \in Nat /\ Col(side, r) < side
    BY PositionIs
  <2>2. d(r) \in Nat /\ e(r) \in Nat /\ e(r) < side
    BY <2>1
  <2>3. Zigzag(side, r) = d(r) * side + e(r)
    BY DEF Zigzag
  <2> HIDE DEF d, e
  <2>4. Zigzag(side, r) = side * d(r) + e(r) /\ side * d(r) \in Nat
    BY <1>1, <2>2, <2>3
  <2> QED BY <2>2, <2>4
<1>3. ASSUME NEW r \in Positions(side), NEW s \in Positions(side), Zigzag(side, r) = Zigzag(side, s)
      PROVE  r = s
  <2>1. d(r) = d(s) /\ e(r) = e(s)
    <3> DEFINE q == d(r)
               t == e(r)
               p == d(s)
               u == e(s)
    <3>1. q \in Nat /\ t \in Nat /\ t < side /\ p \in Nat /\ u \in Nat /\ u < side
          /\ side * q + t = side * p + u
      <4> HIDE DEF d, e
      <4> QED BY <1>2, <1>3
    <3> HIDE DEF q, t, p, u
    <3>2. q = p /\ t = u
      BY <1>1, <3>1, Digits
    <3> QED BY <3>2 DEF q, t, p, u
  <2>2. /\ Row(side, r) \in Nat /\ Col(side, r) \in Nat
        /\ Row(side, s) \in Nat /\ Col(side, s) \in Nat
        /\ r = side * Row(side, r) + Col(side, r)
        /\ s = side * Row(side, s) + Col(side, s)
    BY PositionIs
  <2>3. Col(side, r) + Row(side, r) = Col(side, s) + Row(side, s)
    BY <2>1
  <2>4. Col(side, r) = Col(side, s) \/ Row(side, r) = Row(side, s)
    BY <2>1
  <2>5. Row(side, r) = Row(side, s) /\ Col(side, r) = Col(side, s)
    BY <2>2, <2>3, <2>4
  <2> QED BY <2>2, <2>5
<1> QED BY <1>2, <1>3

(* The natural order numbers the corner, and the diagonals after it. *)
LEMMA NaturalIndexIs ==
  ASSUME NEW side \in Sides
  PROVE  /\ \A r \in Corner(side) : NaturalIndex[side][r] = CornerIndex(side, r)
         /\ \A r \in Diagonals(side) :
              NaturalIndex[side][r] =
                Covered(side) + Rank(Diagonals(side), [s \in Diagonals(side) |-> Zigzag(side, s)], r)
<1>1. ASSUME NEW r \in Positions(side) PROVE NaturalIndex[side][r] = NaturalIndexOf(side, r)
  BY DEF NaturalIndex
<1>2. ASSUME NEW r \in Corner(side) PROVE NaturalIndex[side][r] = CornerIndex(side, r)
  <2>1. r \in Positions(side) /\ IsCorner(side, r)
    BY DEF Corner
  <2>2. NaturalIndexOf(side, r) = (r \div side) * CoveredSide(side) + (r % side)
    BY <2>1 DEF NaturalIndexOf
  <2> QED BY <1>1, <2>1, <2>2 DEF CornerIndex, Row, Col
<1>3. ASSUME NEW r \in Diagonals(side)
      PROVE  NaturalIndex[side][r] =
                Covered(side) + Rank(Diagonals(side), [s \in Diagonals(side) |-> Zigzag(side, s)], r)
  <2>1. r \in Positions(side) /\ ~IsCorner(side, r)
    BY DEF Diagonals, Corner
  <2> DEFINE L == {s \in Positions(side) : ~IsCorner(side, s) /\ Zigzag(side, s) < Zigzag(side, r)}
  <2>2. NaturalIndexOf(side, r) = Covered(side) + Cardinality(L)
    BY <2>1 DEF NaturalIndexOf, Zigzag, Row, Col
  <2>3. L = Lower(Diagonals(side), [s \in Diagonals(side) |-> Zigzag(side, s)], r)
    BY <2>1 DEF Lower, Diagonals, Corner
  <2> QED BY <1>1, <2>1, <2>2, <2>3 DEF Rank
<1> QED BY <1>2, <1>3

(* The natural order lists every position once. *)
LEMMA NaturalOrder ==
  ASSUME NEW side \in Sides
  PROVE  /\ \A r \in Positions(side) : NaturalIndex[side][r] \in Positions(side)
         /\ \A r \in Positions(side) : \A s \in Positions(side) :
              NaturalIndex[side][r] = NaturalIndex[side][s] => r = s
         /\ \A k \in Positions(side) :
              Natural[side][k] \in Positions(side) /\ NaturalIndex[side][Natural[side][k]] = k
<1> DEFINE D == Diagonals(side)
           v == [s \in D |-> Zigzag(side, s)]
           n == side * side
           covered == Covered(side)
           index(r) == NaturalIndex[side][r]
<1>1. n \in Nat /\ covered \in Nat /\ covered <= n /\ Positions(side) = 0 .. n - 1
  BY SideIs DEF Positions
<1>2. IsFiniteSet(D) /\ Cardinality(D) = n - covered
  <2>1. IsFiniteSet(Positions(side)) /\ Cardinality(Positions(side)) = n
    <3> HIDE DEF n
    <3> QED BY <1>1, FS_Interval
  <2>2. Positions(side) \cap Corner(side) = Corner(side)
    BY DEF Corner
  <2>3. Cardinality(Corner(side)) = covered
    BY CornersNumber
  <2>4. /\ IsFiniteSet(Positions(side) \ Corner(side))
        /\ Cardinality(Positions(side) \ Corner(side)) =
             Cardinality(Positions(side)) - Cardinality(Positions(side) \cap Corner(side))
    BY <2>1, FS_Difference
  <2> HIDE DEF n, covered
  <2> QED BY <2>1, <2>2, <2>3, <2>4 DEF Diagonals
<1>3. /\ \A r \in D : Rank(D, v, r) \in 0 .. (n - covered) - 1
      /\ \A r \in D : \A s \in D : Rank(D, v, r) = Rank(D, v, s) => r = s
      /\ \A k \in 0 .. (n - covered) - 1 : \E r \in D : Rank(D, v, r) = k
  <2>1. v \in [D -> Int]
    BY ZigzagInjective DEF Diagonals
  <2>2. \A r \in D : \A s \in D : v[r] = v[s] => r = s
    BY ZigzagInjective DEF Diagonals
  <2> HIDE DEF v, D
  <2> QED BY <1>2, <2>1, <2>2, RanksNumber
<1>4. /\ \A r \in Corner(side) : index(r) = CornerIndex(side, r)
      /\ \A r \in D : index(r) = covered + Rank(D, v, r)
  BY NaturalIndexIs
<1>5. Positions(side) = Corner(side) \cup D
  BY DEF Corner, Diagonals
<1> HIDE DEF D, v, n, covered, index
<1>6. /\ \A r \in Corner(side) : index(r) \in Nat /\ index(r) < covered
      /\ \A r \in D : index(r) \in Nat /\ index(r) >= covered /\ index(r) < n
  <2>1. ASSUME NEW r \in Corner(side) PROVE index(r) \in Nat /\ index(r) < covered
    BY <1>1, <1>4, CornersNumber DEF covered
  <2>2. ASSUME NEW r \in D PROVE index(r) \in Nat /\ index(r) >= covered /\ index(r) < n
    BY <1>1, <1>3, <1>4
  <2> QED BY <2>1, <2>2
<1>7. ASSUME NEW r \in Positions(side) PROVE index(r) \in Positions(side)
  BY <1>1, <1>5, <1>6
<1>8. ASSUME NEW r \in Positions(side), NEW s \in Positions(side), index(r) = index(s)
      PROVE  r = s
  <2>1. CASE r \in Corner(side) /\ s \in Corner(side)
    BY <1>4, <1>8, <2>1, CornersNumber
  <2>2. CASE r \in D /\ s \in D
    <3>1. Rank(D, v, r) = Rank(D, v, s)
      <4> DEFINE p == Rank(D, v, r)
                 q == Rank(D, v, s)
      <4>1. p \in Int /\ q \in Int /\ covered + p = covered + q
        BY <1>3, <1>4, <1>8, <2>2
      <4> HIDE DEF p, q
      <4>2. p = q
        BY <1>1, <4>1
      <4> QED BY <4>2 DEF p, q
    <3> QED BY <1>3, <2>2, <3>1
  <2>3. CASE (r \in Corner(side) /\ s \in D) \/ (r \in D /\ s \in Corner(side))
    BY <1>1, <1>6, <1>8, <2>3
  <2> QED BY <1>5, <2>1, <2>2, <2>3
<1>9. ASSUME NEW k \in Positions(side) PROVE \E r \in Positions(side) : index(r) = k
  <2>1. CASE k < covered
    <3>1. k \in 0 .. Covered(side) - 1
      BY <1>1, <2>1 DEF covered
    <3>2. PICK r \in Corner(side) : CornerIndex(side, r) = k
      BY <3>1, CornersNumber
    <3> QED BY <1>4, <1>5, <3>2
  <2>2. CASE k >= covered
    <3>1. k - covered \in 0 .. (n - covered) - 1
      BY <1>1, <2>2
    <3>2. PICK r \in D : Rank(D, v, r) = k - covered
      BY <1>3, <3>1
    <3>3. index(r) = covered + (k - covered)
      BY <1>4, <3>2
    <3> QED BY <1>1, <1>5, <3>3
  <2> QED BY <1>1, <2>1, <2>2
<1>10. ASSUME NEW k \in Positions(side)
       PROVE  Natural[side][k] \in Positions(side) /\ NaturalIndex[side][Natural[side][k]] = k
  <2>1. Natural[side][k] = CHOOSE r \in Positions(side) : NaturalIndex[side][r] = k
    BY DEF Natural
  <2>2. \E r \in Positions(side) : NaturalIndex[side][r] = k
    BY <1>9 DEF index
  <2> QED BY <2>1, <2>2
<1> QED BY <1>7, <1>8, <1>10 DEF index

---------------------------------------------------------------------------
(* The keys of the positions.                                              *)

(* A frame's statistics count its blocks. *)
LEMMA OrderStatsAre ==
  ASSUME NEW f, f.bw \in Nat, f.bh \in Nat, NEW side \in Sides, NEW c \in Channel
  PROVE  /\ OrderStats(f).blocks[side] \in Nat
         /\ \A r \in Positions(side) :
              /\ OrderStats(f).nonzeros[<<side, c>>][r] \in Nat
              /\ OrderStats(f).nonzeros[<<side, c>>][r] <= OrderStats(f).blocks[side]
<1> DEFINE B == {b \in FirstBlocks(f) : f.acs[b] = side}
           N(r) == {b \in FirstBlocks(f) : f.acs[b] = side /\ Coefficient(f, c, b, r) # 0}
<1>1. IsFiniteSet(B)
  <2>1. f.bw * f.bh - 1 \in Int
    BY SMT
  <2>2. IsFiniteSet(0 .. f.bw * f.bh - 1)
    BY <2>1, FS_Interval
  <2>3. B \in SUBSET (0 .. f.bw * f.bh - 1)
    BY DEF FirstBlocks
  <2> QED BY <2>2, <2>3, FS_Subset
<1>2. OrderStats(f).blocks[side] = Cardinality(B)
  <2>1. OrderStats(f).blocks = [s \in Sides |-> Cardinality({b \in FirstBlocks(f) : f.acs[b] = s})]
    BY TabulatedIs, Zenon DEF OrderStats
  <2> QED BY <2>1
<1>3. ASSUME NEW r \in Positions(side)
      PROVE  OrderStats(f).nonzeros[<<side, c>>][r] =
               IF IsCorner(side, r) THEN 0 ELSE Cardinality(N(r))
  <2> DEFINE Count(t, j) ==
               IF IsCorner(t[1], j) THEN 0
               ELSE Cardinality({b \in FirstBlocks(f) :
                                   f.acs[b] = t[1] /\ Coefficient(f, t[2], b, j) # 0})
             Table(t) == Tabulated([j \in Positions(t[1]) |-> Count(t, j)])
  <2>1. OrderStats(f).nonzeros = Tabulated([t \in Sides \X Channel |-> Table(t)])
    BY Zenon DEF OrderStats
  <2>2. <<side, c>> \in Sides \X Channel /\ <<side, c>>[1] = side /\ <<side, c>>[2] = c
    OBVIOUS
  <2>3. OrderStats(f).nonzeros[<<side, c>>][r] = Count(<<side, c>>, r)
    <3>1. OrderStats(f).nonzeros[<<side, c>>] = Table(<<side, c>>)
      <4> HIDE DEF Table
      <4> QED BY <2>1, <2>2, TabulatedIs
    <3>2. Table(<<side, c>>) = [j \in Positions(<<side, c>>[1]) |-> Count(<<side, c>>, j)]
      BY TabulatedIs
    <3> HIDE DEF Count, Table
    <3> QED BY <2>2, <3>1, <3>2
  <2> QED BY <2>2, <2>3
<1>4. ASSUME NEW r \in Positions(side)
      PROVE  Cardinality(N(r)) \in Nat /\ Cardinality(N(r)) <= Cardinality(B)
  <2>1. N(r) \in SUBSET B
    OBVIOUS
  <2> HIDE DEF N, B
  <2> QED BY <1>1, <2>1, FS_Subset, FS_CardinalityType
<1>5. Cardinality(B) \in Nat
  BY <1>1, FS_CardinalityType
<1> HIDE DEF N, B
<1> QED BY <1>2, <1>3, <1>4, <1>5

(* The keys are numbers, those of the corner 0. *)
LEMMA OrderKeysAre ==
  ASSUME NEW f, f.bw \in Nat, f.bh \in Nat, NEW side \in Sides, NEW c \in Channel
  PROVE  /\ OrderKeys(OrderStats(f), side, c) \in [Positions(side) -> Nat]
         /\ \A i \in Positions(side) : i < Covered(side) => OrderKeys(OrderStats(f), side, c)[i] = 0
<1> DEFINE stats == OrderStats(f)
           key(i) == OrderKey(stats.blocks[side], stats.nonzeros[<<side, c>>][Natural[side][i]], side)
<1>1. OrderKeys(stats, side, c) =
        [i \in Positions(side) |-> IF i < Covered(side) THEN 0 ELSE key(i)]
  BY TabulatedIs DEF OrderKeys
<1>2. ASSUME NEW i \in Positions(side) PROVE key(i) \in Nat
  <2> DEFINE b == stats.blocks[side]
             z == stats.nonzeros[<<side, c>>][Natural[side][i]]
  <2>1. Natural[side][i] \in Positions(side)
    BY NaturalOrder
  <2>2. b \in Nat /\ z \in Nat /\ z <= b
    BY <2>1, OrderStatsAre
  <2> HIDE DEF b, z
  <2>3. 10 * (b - z) + side \in Nat /\ 10 * side \in Nat /\ 10 * side > 0
    BY <2>2, SideIs
  <2>4. (10 * (b - z) + side) \div (10 * side) \in Nat
    BY <2>3, Quotient
  <2> QED BY <2>4 DEF OrderKey, b, z
<1> HIDE DEF stats, key
<1> QED BY <1>1, <1>2 DEF stats

---------------------------------------------------------------------------
(* The partial counts of the splits.                                       *)

Part(side)         == (side * side) \div OrderSplits
PartOf(side, s)    == s * Part(side) .. s * Part(side) + Part(side) - 1
Before(side, key, i) == {j \in Positions(side) : j < i /\ key[j] <= key[i]}
After(side, key, i)  == {j \in Positions(side) : j > i /\ key[j] < key[i]}

(* Every position is in one split. *)
LEMMA PartsCover ==
  ASSUME NEW side \in Sides
  PROVE  /\ Part(side) \in Nat
         /\ \A j \in Positions(side) :
              j \div Part(side) \in 0 .. OrderSplits - 1 /\ j \in PartOf(side, j \div Part(side))
         /\ \A s \in 0 .. OrderSplits - 1 : \A j \in PartOf(side, s) :
              j \in Positions(side) /\ j \div Part(side) = s
<1> DEFINE K == OrderSplits
           w == Part(side)
           n == side * side
<1>1. K \in Nat /\ K > 0 /\ n \in Nat /\ n > 0
  <2>1. K \in Nat /\ K > 0
    BY TokensAssumption
  <2>2. side \in Nat /\ side > 0
    BY SideIs
  <2>3. side * side > 0
    BY <2>2
  <2> QED BY <2>1, <2>2, <2>3
<1>2. w \in Nat /\ n = K * w
  <2>1. n % K = 0
    BY TokensAssumption
  <2>2. n \div K \in Nat /\ n = K * (n \div K) + (n % K)
    <3> HIDE DEF n, K
    <3> QED BY <1>1, Quotient
  <2>3. w = n \div K
    BY DEF Part
  <2> HIDE DEF n, K, w
  <2> QED BY <1>1, <2>1, <2>2, <2>3
<1>3. w > 0 /\ n = w * K
  <2> HIDE DEF n, K, w
  <2>1. w # 0
    BY <1>1, <1>2
  <2> QED BY <1>1, <1>2, <2>1
<1>4. ASSUME NEW j \in Positions(side)
      PROVE  j \div w \in 0 .. K - 1 /\ j \in PartOf(side, j \div w)
  <2>1. j \in Nat /\ j < w * K
    BY <1>1, <1>3 DEF Positions
  <2> DEFINE q == j \div w
             r == j % w
  <2>2. q \in Nat /\ q < K /\ r \in Nat /\ r < w /\ j = w * q + r
    <3> HIDE DEF n, K, w
    <3> QED BY <1>1, <1>2, <1>3, <2>1, Quotient, QuotientBelow
  <2>3. q * w = w * q
    <3> HIDE DEF w, q
    <3> QED BY <1>2, <2>2
  <2>4. PartOf(side, q) = q * w .. q * w + w - 1
    BY DEF PartOf
  <2> HIDE DEF q, w, r, K
  <2>5. q * w \in Nat
    BY <1>2, <2>2
  <2>6. j \in PartOf(side, q)
    BY <1>2, <2>1, <2>2, <2>3, <2>4, <2>5
  <2> QED BY <1>1, <2>2, <2>6 DEF q
<1>5. ASSUME NEW s \in 0 .. K - 1, NEW j \in PartOf(side, s)
      PROVE  j \in Positions(side) /\ j \div w = s
  <2>1. PartOf(side, s) = s * w .. s * w + w - 1
    BY DEF PartOf
  <2> DEFINE r == j - s * w
  <2> HIDE DEF w, K, n
  <2>2. s \in Nat /\ s < K /\ s * w \in Nat /\ w * s = s * w
    BY <1>1, <1>2
  <2>3. r \in Nat /\ r < w /\ j = w * s + r /\ j \in Nat
    BY <1>2, <2>1, <2>2
  <2>4. j < n
    <3> HIDE DEF r
    <3>1. w * s + r < w * K
      BY <1>1, <1>2, <2>2, <2>3, DigitsBelow
    <3> QED BY <1>3, <2>3, <3>1
  <2>5. j \div w = s
    <3> DEFINE q == j \div w
               t == j % w
    <3>1. q \in Nat /\ t \in Nat /\ t < w /\ j = w * q + t
      BY <1>2, <1>3, <2>3, Quotient
    <3> HIDE DEF q, t, r
    <3>2. w * s + r = w * q + t
      BY <2>3, <3>1
    <3>3. s = q
      BY <1>2, <1>3, <2>2, <2>3, <3>1, <3>2, Digits
    <3> QED BY <3>3 DEF q
  <2>6. j \in 0 .. n - 1
    BY <1>1, <2>3, <2>4
  <2> QED BY <2>5, <2>6 DEF Positions, n
<1> QED BY <1>2, <1>4, <1>5

(* Of a split's keys a thread counts those that come before its position. *)
LEMMA PartialIs ==
  ASSUME NEW side \in Sides, NEW key, NEW i \in Positions(side), NEW s \in 0 .. OrderSplits - 1
  PROVE  /\ Partial(key, side * side, i, s)["before"] = Before(side, key, i) \cap PartOf(side, s)
         /\ Partial(key, side * side, i, s)["after"] = After(side, key, i) \cap PartOf(side, s)
<1> DEFINE lo    == s * Part(side)
           hi    == lo + Part(side)
           first == i - (i % WarpSize)
           clamp(x) == IF x < lo THEN lo ELSE Least(hi, x)
           begin == clamp(first)
           end   == clamp(first + WarpSize)
<1>1. Split(side * side, i, s) = [lo |-> lo, begin |-> begin, end |-> end, hi |-> hi]
  BY DEF Split, Part
<1>2. /\ Partial(key, side * side, i, s)["before"] =
           {j \in lo .. begin - 1 : key[j] <= key[i]}
             \cup {j \in begin .. end - 1 : j < i /\ key[j] <= key[i]}
      /\ Partial(key, side * side, i, s)["after"] =
           {j \in begin .. end - 1 : j > i /\ key[j] < key[i]}
             \cup {j \in end .. hi - 1 : key[j] < key[i]}
  <2> HIDE DEF lo, hi, begin, end
  <2> QED BY <1>1 DEF Partial
<1>3. i \in Nat /\ Part(side) \in Nat /\ lo \in Nat /\ hi \in Nat /\ lo <= hi
  <2>1. i \in Nat
    BY SideIs DEF Positions
  <2>2. s \in Nat /\ Part(side) \in Nat
    BY PartsCover, TokensAssumption
  <2>3. s * Part(side) \in Nat
    BY <2>2
  <2> QED BY <2>1, <2>2, <2>3
<1>4. PartOf(side, s) = lo .. hi - 1
  <2>1. PartOf(side, s) = lo .. lo + Part(side) - 1
    BY DEF PartOf
  <2>2. lo + Part(side) - 1 = hi - 1
    <3> HIDE DEF lo
    <3> QED BY <1>3
  <2> QED BY <2>1, <2>2
<1>5. first \in Nat /\ first <= i /\ i < first + WarpSize /\ WarpSize \in Nat
  <2>1. WarpSize \in Nat /\ WarpSize > 0
    BY TokensAssumption
  <2>2. i % WarpSize \in Nat /\ i % WarpSize < WarpSize /\ i \div WarpSize \in Nat
        /\ i = WarpSize * (i \div WarpSize) + (i % WarpSize)
    BY <1>3, <2>1, Quotient
  <2>3. WarpSize * (i \div WarpSize) \in Nat
    BY <2>1, <2>2
  <2> QED BY <1>3, <2>1, <2>2, <2>3
<1> HIDE DEF lo, hi, first
<1>6. /\ begin \in Nat /\ end \in Nat /\ lo <= begin /\ begin <= end /\ end <= hi
      /\ \A j \in lo .. begin - 1 : j < i
      /\ \A j \in end .. hi - 1 : j > i
  BY <1>3, <1>5 DEF Least
<1> HIDE DEF begin, end
<1>7. ASSUME NEW j
      PROVE  /\ j \in Partial(key, side * side, i, s)["before"]
                  <=> j \in Before(side, key, i) \cap PartOf(side, s)
             /\ j \in Partial(key, side * side, i, s)["after"]
                  <=> j \in After(side, key, i) \cap PartOf(side, s)
  <2>1. j \in PartOf(side, s) => j \in Positions(side)
    BY PartsCover
  <2>2. j \in PartOf(side, s) <=> j \in lo .. begin - 1 \/ j \in begin .. end - 1 \/ j \in end .. hi - 1
    BY <1>4, <1>3, <1>6
  <2>3. /\ j \in lo .. begin - 1 => j < i /\ ~ (j > i)
        /\ j \in end .. hi - 1 => j > i /\ ~ (j < i)
    <3>1. ASSUME j \in lo .. begin - 1 PROVE j < i /\ ~ (j > i)
      <4>1. j \in Int /\ j < i
        BY <1>3, <1>6, <3>1
      <4> QED BY <1>3, <4>1
    <3>2. ASSUME j \in end .. hi - 1 PROVE j > i /\ ~ (j < i)
      <4>1. j \in Int /\ j > i
        BY <1>3, <1>6, <3>2
      <4> QED BY <1>3, <4>1
    <3> QED BY <3>1, <3>2
  <2> QED BY <1>2, <2>1, <2>2, <2>3 DEF Before, After
<1> QED BY <1>7

(* The splits together count every key that comes before, once. *)
LEMMA CountedForIs ==
  ASSUME NEW side \in Sides, NEW key, NEW i \in Positions(side)
  PROVE  /\ CountedFor(key, side * side, i, "before") = Cardinality(Before(side, key, i))
         /\ CountedFor(key, side * side, i, "after") = Cardinality(After(side, key, i))
<1>1. ASSUME NEW B \in SUBSET Positions(side), NEW what,
             \A s \in 0 .. OrderSplits - 1 :
               Partial(key, side * side, i, s)[what] = B \cap PartOf(side, s)
      PROVE  CountedFor(key, side * side, i, what) = Cardinality(B)
  <2> DEFINE U == UNION {{s} \X Partial(key, side * side, i, s)[what] : s \in 0 .. OrderSplits - 1}
             f == [j \in B |-> <<j \div Part(side), j>>]
  <2>1. ASSUME NEW u
        PROVE  u \in U <=> \E s \in 0 .. OrderSplits - 1 : \E j \in B \cap PartOf(side, s) : u = <<s, j>>
    BY <1>1
  <2>2. IsFiniteSet(B)
    <3>1. IsFiniteSet(Positions(side))
      BY SideIs, FS_Interval DEF Positions
    <3> QED BY <3>1, FS_Subset
  <2>3. f \in [B -> U]
    <3>1. ASSUME NEW j \in B PROVE <<j \div Part(side), j>> \in U
      <4>1. j \div Part(side) \in 0 .. OrderSplits - 1 /\ j \in PartOf(side, j \div Part(side))
        BY PartsCover
      <4> HIDE DEF U
      <4> QED BY <2>1, <4>1
    <3> HIDE DEF U
    <3> QED BY <3>1
  <2>4. \A x \in B : \A y \in B : f[x] = f[y] => x = y
    OBVIOUS
  <2>5. ASSUME NEW u \in U PROVE \E j \in B : f[j] = u
    <3>1. PICK s \in 0 .. OrderSplits - 1 : \E j \in B \cap PartOf(side, s) : u = <<s, j>>
      BY <2>1
    <3>2. PICK j \in B \cap PartOf(side, s) : u = <<s, j>>
      BY <3>1
    <3>3. j \div Part(side) = s
      BY PartsCover
    <3> QED BY <3>2, <3>3
  <2>6. Cardinality(U) = Cardinality(B)
    <3> HIDE DEF U, f
    <3> QED BY <2>2, <2>3, <2>4, <2>5, SameSize
  <2> QED BY <2>6 DEF CountedFor
<1>2. Before(side, key, i) \in SUBSET Positions(side) /\ After(side, key, i) \in SUBSET Positions(side)
  BY DEF Before, After
<1> QED BY <1>1, <1>2, PartialIs

---------------------------------------------------------------------------
(* The order by keys: At(side, key) is the natural index at each place of  *)
(* the stable sort.                                                        *)

Value(side, key) == [i \in Positions(side) |-> key[i] * (side * side) + i]
Place(side, key, i) == Rank(Positions(side), Value(side, key), i)
At(side, key) == [k \in Positions(side) |-> CHOOSE i \in Positions(side) : Place(side, key, i) = k]
Keys(side) == [Positions(side) -> Nat]

(* The order of the values is that of the keys, then that of the indices. *)
LEMMA ValuesOrder ==
  ASSUME NEW side \in Sides, NEW key \in Keys(side)
  PROVE  /\ Value(side, key) \in [Positions(side) -> Int]
         /\ \A i \in Positions(side) : \A j \in Positions(side) :
              /\ Value(side, key)[i] = Value(side, key)[j] => i = j
              /\ Value(side, key)[j] < Value(side, key)[i]
                   <=> (j < i /\ key[j] <= key[i]) \/ (j > i /\ key[j] < key[i])
<1> DEFINE n == side * side
           V == Value(side, key)
<1>1. n \in Nat /\ n > 0 /\ Positions(side) = 0 .. n - 1
  <2>1. side \in Nat /\ side > 0 /\ side * side \in Nat
    BY SideIs
  <2>2. side * side > 0
    BY <2>1
  <2> QED BY <2>1, <2>2 DEF Positions
<1>2. ASSUME NEW i \in Positions(side)
      PROVE  i \in Nat /\ i < n /\ key[i] \in Nat /\ V[i] = n * key[i] + i /\ V[i] \in Nat
  <2>1. V[i] = key[i] * n + i
    BY DEF Value
  <2>2. i \in Nat /\ i < n /\ key[i] \in Nat
    BY <1>1 DEF Keys
  <2> HIDE DEF n, V
  <2>3. n * key[i] = key[i] * n /\ n * key[i] \in Nat
    BY <1>1, <2>2
  <2> QED BY <2>1, <2>2, <2>3
<1>3. ASSUME NEW i \in Positions(side), NEW j \in Positions(side), key[j] < key[i]
      PROVE  V[j] < V[i]
  <2> HIDE DEF n, V
  <2> DEFINE p == n * key[j]
             q == n * key[i]
  <2>1. p \in Nat /\ q \in Nat /\ p + n <= q
    BY <1>1, <1>2, <1>3, NextMultiple
  <2>2. V[j] = p + j /\ V[i] = q + i /\ j \in Nat /\ i \in Nat /\ j < n
    BY <1>2
  <2> HIDE DEF p, q
  <2> QED BY <1>1, <2>1, <2>2
<1>4. ASSUME NEW i \in Positions(side), NEW j \in Positions(side)
      PROVE  /\ V[i] = V[j] => i = j
             /\ V[j] < V[i] <=> (j < i /\ key[j] <= key[i]) \/ (j > i /\ key[j] < key[i])
  <2> HIDE DEF n, V
  <2>1. CASE key[j] < key[i]
    <3>1. V[j] < V[i]
      BY <1>3, <2>1
    <3> QED BY <1>2, <2>1, <3>1
  <2>2. CASE key[i] < key[j]
    <3>1. V[i] < V[j]
      BY <1>3, <2>2
    <3> QED BY <1>2, <2>2, <3>1
  <2>3. CASE key[i] = key[j]
    <3>1. n * key[i] \in Nat
      BY <1>1, <1>2
    <3> QED BY <1>2, <2>3, <3>1
  <2> QED BY <1>2, <2>1, <2>2, <2>3
<1>5. V \in [Positions(side) -> Int]
  <2>1. V = [i \in Positions(side) |-> V[i]]
    BY DEF Value
  <2> HIDE DEF V, n
  <2> QED BY <1>2, <2>1
<1> QED BY <1>4, <1>5

(* The positions a position follows, by index, are before or after it. *)
LEMMA PlaceIs ==
  ASSUME NEW side \in Sides, NEW key \in Keys(side), NEW i \in Positions(side)
  PROVE  /\ IsFiniteSet(Before(side, key, i)) /\ Cardinality(Before(side, key, i)) \in Nat
         /\ Cardinality(After(side, key, i)) \in Nat
         /\ Place(side, key, i) = Cardinality(Before(side, key, i)) + Cardinality(After(side, key, i))
<1> DEFINE B == Before(side, key, i)
           A == After(side, key, i)
<1>1. B \in SUBSET Positions(side) /\ A \in SUBSET Positions(side)
  BY DEF Before, After
<1>2. IsFiniteSet(Positions(side))
  BY SideIs, FS_Interval DEF Positions
<1>3. B \cap A = {}
  <2>1. ASSUME NEW j \in Positions(side) PROVE ~ (j < i /\ j > i)
    BY SideIs DEF Positions
  <2> QED BY <2>1 DEF Before, After
<1>4. Lower(Positions(side), Value(side, key), i) = B \cup A
  BY ValuesOrder DEF Lower, Before, After
<1> HIDE DEF B, A
<1>5. IsFiniteSet(B) /\ IsFiniteSet(A) /\ Cardinality(B) \in Nat /\ Cardinality(A) \in Nat
  BY <1>1, <1>2, FS_Subset, FS_CardinalityType
<1>6. Cardinality(B \cup A) = Cardinality(B) + Cardinality(A) - Cardinality(B \cap A)
  BY <1>5, FS_Union
<1>7. Cardinality(B \cap A) = 0
  BY <1>3, FS_EmptySet
<1>8. Cardinality(B \cup A) = Cardinality(B) + Cardinality(A)
  BY <1>5, <1>6, <1>7
<1> QED BY <1>4, <1>5, <1>8 DEF Place, Rank, B, A

(* Places and positions correspond one to one. *)
LEMMA AtIs ==
  ASSUME NEW side \in Sides, NEW key \in Keys(side)
  PROVE  /\ \A k \in Positions(side) :
              At(side, key)[k] \in Positions(side) /\ Place(side, key, At(side, key)[k]) = k
         /\ \A i \in Positions(side) :
              Place(side, key, i) \in Positions(side) /\ At(side, key)[Place(side, key, i)] = i
         /\ \A i \in Positions(side) : \A j \in Positions(side) :
              Place(side, key, j) < Place(side, key, i) <=> Value(side, key)[j] < Value(side, key)[i]
<1> DEFINE n == side * side
           V == Value(side, key)
           P == Positions(side)
           place(i) == Place(side, key, i)
<1>1. IsFiniteSet(P) /\ Cardinality(P) = n /\ P = 0 .. n - 1
  <2>1. n \in Nat
    BY SideIs
  <2> HIDE DEF n
  <2>2. P = 0 .. n - 1
    BY DEF Positions, n
  <2> HIDE DEF P
  <2> QED BY <2>1, <2>2, FS_Interval
<1>2. V \in [P -> Int] /\ \A i \in P : \A j \in P : V[i] = V[j] => i = j
  BY ValuesOrder
<1>3. /\ \A i \in P : place(i) \in 0 .. Cardinality(P) - 1
      /\ \A i \in P : \A j \in P : place(i) < place(j) <=> V[i] < V[j]
      /\ \A i \in P : \A j \in P : place(i) = place(j) => i = j
      /\ \A k \in 0 .. Cardinality(P) - 1 : \E i \in P : place(i) = k
  <2> HIDE DEF P, V, n
  <2>1. \A i \in P : place(i) = Rank(P, V, i)
    BY DEF Place, P, V
  <2>2. /\ \A i \in P : Rank(P, V, i) \in 0 .. Cardinality(P) - 1
        /\ \A i \in P : \A j \in P : Rank(P, V, i) < Rank(P, V, j) <=> V[i] < V[j]
        /\ \A i \in P : \A j \in P : Rank(P, V, i) = Rank(P, V, j) => i = j
        /\ \A k \in 0 .. Cardinality(P) - 1 : \E i \in P : Rank(P, V, i) = k
    <3>1. IsFiniteSet(P)
      BY <1>1
    <3> QED BY <1>2, <3>1, RanksNumber
  <2> HIDE DEF place
  <2>3. \A i \in P : place(i) \in 0 .. Cardinality(P) - 1
    BY <2>1, <2>2, Zenon
  <2>4. ASSUME NEW i \in P, NEW j \in P
        PROVE  (place(i) < place(j) <=> V[i] < V[j]) /\ (place(i) = place(j) => i = j)
    <3>1. place(i) = Rank(P, V, i) /\ place(j) = Rank(P, V, j)
      BY <2>1
    <3>2. /\ Rank(P, V, i) < Rank(P, V, j) <=> V[i] < V[j]
          /\ Rank(P, V, i) = Rank(P, V, j) => i = j
      BY <2>2
    <3> QED BY <3>1, <3>2
  <2>5. \A k \in 0 .. Cardinality(P) - 1 : \E i \in P : place(i) = k
    BY <2>1, <2>2, Zenon
  <2> QED BY <2>3, <2>4, <2>5
<1>4. \A k \in P : At(side, key)[k] = CHOOSE i \in P : place(i) = k
  BY DEF At
<1> HIDE DEF P, V, n, place
<1>5. ASSUME NEW k \in P PROVE At(side, key)[k] \in P /\ place(At(side, key)[k]) = k
  <2>1. \E i \in P : place(i) = k
    BY <1>1, <1>3
  <2> QED BY <1>4, <2>1
<1>6. ASSUME NEW i \in P PROVE place(i) \in P /\ At(side, key)[place(i)] = i
  <2>1. place(i) \in P
    BY <1>1, <1>3
  <2>2. place(At(side, key)[place(i)]) = place(i) /\ At(side, key)[place(i)] \in P
    BY <1>5, <2>1
  <2> QED BY <1>3, <2>1, <2>2
<1> QED BY <1>3, <1>5, <1>6 DEF P, V, place

(* The sorted order and its Lehmer code. *)
Sorted(side, key) ==
  [order  |-> [k \in Positions(side) |-> Natural[side][At(side, key)[k]]],
   lehmer |-> [k \in Positions(side) |->
                 At(side, key)[k] - Cardinality(Before(side, key, At(side, key)[k]))]]

(* A position is found by its place. *)
LEMMA AtFound ==
  ASSUME NEW side \in Sides, NEW key \in Keys(side), NEW k \in Positions(side),
         NEW i \in Positions(side), Place(side, key, i) = k
  PROVE  i = At(side, key)[k]
BY AtIs

(* The split threads sort. *)
LEMMA DeviceSorts ==
  ASSUME NEW side \in Sides, NEW c, OrderKeys(order_stats, side, c) \in Keys(side)
  PROVE  CoeffOrder(side, c) = Sorted(side, OrderKeys(order_stats, side, c))
<1> DEFINE key       == OrderKeys(order_stats, side, c)
           P         == Positions(side)
           before(i) == CountedFor(key, side * side, i, "before")
           after(i)  == CountedFor(key, side * side, i, "after")
           at        == [k \in P |-> CHOOSE i \in P : before(i) + after(i) = k]
<1>1. CoeffOrder(side, c) =
        [order  |-> Tabulated([k \in P |-> Natural[side][Tabulated(at)[k]]]),
         lehmer |-> Tabulated([k \in P |-> Tabulated(at)[k] - before(Tabulated(at)[k])])]
  BY Zenon DEF CoeffOrder
<1>2. Tabulated(at) = at
  BY TabulatedIs
<1>3. \A i \in P : before(i) = Cardinality(Before(side, key, i))
                   /\ before(i) + after(i) = Place(side, key, i)
  <2> HIDE DEF key
  <2>1. ASSUME NEW i \in P
        PROVE  /\ before(i) = Cardinality(Before(side, key, i))
               /\ after(i) = Cardinality(After(side, key, i))
               /\ Place(side, key, i) = Cardinality(Before(side, key, i)) + Cardinality(After(side, key, i))
    BY CountedForIs, PlaceIs DEF key
  <2> HIDE DEF before, after, P
  <2> QED BY <2>1
<1>4. ASSUME NEW k \in P PROVE at[k] = At(side, key)[k] /\ at[k] \in P
  <2> HIDE DEF key, before, after, P
  <2>1. key \in Keys(side)
    BY DEF key
  <2>2. At(side, key)[k] \in P /\ Place(side, key, At(side, key)[k]) = k
    BY <2>1, AtIs DEF P
  <2>3. at[k] \in P /\ before(at[k]) + after(at[k]) = k
    <3>1. \E i \in P : before(i) + after(i) = k
      BY <1>3, <2>2
    <3>2. at[k] = CHOOSE i \in P : before(i) + after(i) = k
      OBVIOUS
    <3> HIDE DEF at
    <3> QED BY <3>1, <3>2
  <2> HIDE DEF at
  <2>4. Place(side, key, at[k]) = k
    BY <1>3, <2>3
  <2> QED BY <2>1, <2>3, <2>4, AtFound DEF P
<1>5. CoeffOrder(side, c) = [order  |-> [k \in P |-> Natural[side][at[k]]],
                             lehmer |-> [k \in P |-> at[k] - before(at[k])]]
  <2> HIDE DEF at, before, P
  <2> QED BY <1>1, <1>2, TabulatedIs
<1> HIDE DEF at, before, P, key
<1>6. [k \in P |-> Natural[side][at[k]]] = [k \in P |-> Natural[side][At(side, key)[k]]]
  BY <1>4
<1>7. [k \in P |-> at[k] - before(at[k])]
        = [k \in P |-> At(side, key)[k] - Cardinality(Before(side, key, At(side, key)[k]))]
  BY <1>3, <1>4
<1>8. Sorted(side, key) =
        [order  |-> [k \in P |-> Natural[side][At(side, key)[k]]],
         lehmer |-> [k \in P |-> At(side, key)[k] - Cardinality(Before(side, key, At(side, key)[k]))]]
  BY Zenon DEF Sorted, P
<1>9. CoeffOrder(side, c) = Sorted(side, key)
  BY <1>5, <1>6, <1>7, <1>8
<1> QED BY <1>9 DEF key

(* The positions before one are those at earlier places with lower indices. *)
LEMMA EarlierLower ==
  ASSUME NEW side \in Sides, NEW key \in Keys(side), NEW k \in Positions(side)
  PROVE  Cardinality({l \in 0 .. k - 1 : At(side, key)[l] < At(side, key)[k]})
           = Cardinality(Before(side, key, At(side, key)[k]))
<1> DEFINE at == At(side, key)
           P  == Positions(side)
           V  == Value(side, key)
           L  == {l \in 0 .. k - 1 : at[l] < at[k]}
           B  == Before(side, key, at[k])
           f  == [l \in L |-> at[l]]
<1>1. k \in Nat /\ \A l \in 0 .. k - 1 : l \in P
  BY SideIs DEF Positions
<1>2. /\ \A l \in P : at[l] \in P /\ Place(side, key, at[l]) = l
      /\ \A i \in P : Place(side, key, i) \in P /\ at[Place(side, key, i)] = i
      /\ \A i \in P : \A j \in P : Place(side, key, j) < Place(side, key, i) <=> V[j] < V[i]
      /\ P \in SUBSET Nat
  <2>1. P \in SUBSET Nat
    BY SideIs DEF Positions
  <2> QED BY <2>1, AtIs
<1>3. \A i \in P : \A j \in P :
        V[j] < V[i] <=> (j < i /\ key[j] <= key[i]) \/ (j > i /\ key[j] < key[i])
  BY ValuesOrder
<1>4. \A j : j \in B <=> j \in P /\ j < at[k] /\ key[j] <= key[at[k]]
  BY DEF Before
<1>5. k \in P
  OBVIOUS
<1> HIDE DEF at, P, V, B
<1>6. IsFiniteSet(L)
  <2>1. IsFiniteSet(0 .. k - 1)
    BY <1>1, FS_Interval
  <2> QED BY <2>1, FS_Subset
<1>7. ASSUME NEW l \in L PROVE at[l] \in B
  <2>1. l \in P /\ l < k /\ at[l] < at[k] /\ at[l] \in P /\ at[k] \in P
    BY <1>1, <1>2, <1>5
  <2>2. V[at[l]] < V[at[k]]
    BY <1>2, <1>5, <2>1
  <2>3. at[l] \in Nat /\ at[k] \in Nat /\ ~ (at[l] > at[k])
    <3>1. at[l] \in Nat /\ at[k] \in Nat
      BY <1>2, <2>1
    <3> QED BY <2>1, <3>1
  <2> QED BY <1>3, <1>4, <2>1, <2>2, <2>3
<1>8. ASSUME NEW l \in L, NEW m \in L, at[l] = at[m] PROVE l = m
  BY <1>1, <1>2, <1>8
<1>9. ASSUME NEW j \in B PROVE \E l \in L : at[l] = j
  <2>1. j \in P /\ at[k] \in P /\ j < at[k] /\ key[j] <= key[at[k]]
    BY <1>2, <1>4, <1>5
  <2>2. V[j] < V[at[k]]
    BY <1>3, <2>1
  <2> DEFINE l == Place(side, key, j)
  <2>3. l < k /\ at[l] = j /\ l \in Nat
    BY <1>2, <1>5, <2>1, <2>2
  <2> HIDE DEF l
  <2>4. l \in L
    BY <1>1, <2>1, <2>3
  <2> QED BY <2>3, <2>4
<1>10. Cardinality(B) = Cardinality(L)
  <2>1. f \in [L -> B]
    BY <1>7
  <2>2. \A l \in L : \A m \in L : f[l] = f[m] => l = m
    BY <1>8
  <2>3. \A j \in B : \E l \in L : f[l] = j
    BY <1>9
  <2> HIDE DEF f, L
  <2> QED BY <1>6, <2>1, <2>2, <2>3, SameSize
<1> QED BY <1>10 DEF B, at

(* The host reference sorts. *)
LEMMA ReferenceSorts ==
  ASSUME NEW stats, NEW side \in Sides, NEW c, OrderKeys(stats, side, c) \in Keys(side)
  PROVE  OrderReference(stats, side, c) = Sorted(side, OrderKeys(stats, side, c))
<1> DEFINE key     == OrderKeys(stats, side, c)
           P       == Positions(side)
           n       == side * side
           rank(i) == Cardinality({j \in P : key[j] * n + j < key[i] * n + i})
           at      == [k \in P |-> CHOOSE i \in P : rank(i) = k]
           lower(a, k) == Cardinality({l \in 0 .. k - 1 : a[l] < a[k]})
<1>1. OrderReference(stats, side, c) =
        [order  |-> Tabulated([k \in P |-> Natural[side][Tabulated(at)[k]]]),
         lehmer |-> Tabulated([k \in P |-> Tabulated(at)[k] - lower(Tabulated(at), k)])]
  BY Zenon DEF OrderReference
<1>2. ASSUME NEW i \in P PROVE rank(i) = Place(side, key, i)
  <2>1. \A j \in P : Value(side, key)[j] = key[j] * n + j
    BY DEF Value
  <2>2. {j \in P : key[j] * n + j < key[i] * n + i} = Lower(P, Value(side, key), i)
    <3> HIDE DEF n, key
    <3> QED BY <2>1 DEF Lower
  <2> QED BY <2>2 DEF Place, Rank
<1>3. at = At(side, key)
  <2> HIDE DEF key, rank, P
  <2>1. key \in Keys(side)
    BY DEF key
  <2>2. ASSUME NEW k \in P PROVE at[k] = At(side, key)[k]
    <3>1. At(side, key)[k] \in P /\ Place(side, key, At(side, key)[k]) = k
      BY <2>1, AtIs DEF P
    <3>2. at[k] \in P /\ rank(at[k]) = k
      <4>1. \E i \in P : rank(i) = k
        BY <1>2, <3>1
      <4>2. at[k] = CHOOSE i \in P : rank(i) = k
        OBVIOUS
      <4> HIDE DEF at
      <4> QED BY <4>1, <4>2
    <3> HIDE DEF at
    <3>3. Place(side, key, at[k]) = k
      BY <1>2, <3>2
    <3> QED BY <2>1, <3>2, <3>3, AtFound DEF P
  <2>3. At(side, key) = [k \in P |-> At(side, key)[k]]
    BY DEF At, P
  <2>4. at = [k \in P |-> at[k]]
    OBVIOUS
  <2> HIDE DEF at
  <2> QED BY <2>2, <2>3, <2>4
<1>4. OrderReference(stats, side, c) =
        [order  |-> [k \in P |-> Natural[side][at[k]]],
         lehmer |-> [k \in P |-> at[k] - lower(at, k)]]
  <2> HIDE DEF at, lower, P
  <2> QED BY <1>1, TabulatedIs
<1> HIDE DEF at, key, P
<1>5. ASSUME NEW k \in P PROVE lower(at, k) = Cardinality(Before(side, key, at[k]))
  <2>1. key \in Keys(side)
    BY DEF key
  <2> QED BY <1>3, <2>1, EarlierLower DEF P
<1>6. [k \in P |-> at[k] - lower(at, k)]
        = [k \in P |-> at[k] - Cardinality(Before(side, key, at[k]))]
  <2> HIDE DEF lower
  <2> QED BY <1>5
<1>7. Sorted(side, key) =
        [order  |-> [k \in P |-> Natural[side][At(side, key)[k]]],
         lehmer |-> [k \in P |-> At(side, key)[k] - Cardinality(Before(side, key, At(side, key)[k]))]]
  BY Zenon DEF Sorted, P
<1>8. OrderReference(stats, side, c) = Sorted(side, key)
  BY <1>3, <1>4, <1>6, <1>7
<1> QED BY <1>8 DEF key

---------------------------------------------------------------------------
(* The decoder.                                                            *)

(* What is not in the first k places. *)
Left(side, key) ==
  [k \in 0 .. side * side |-> Positions(side) \ {At(side, key)[l] : l \in 0 .. k - 1}]

(* What is left are the positions of the places from k on. *)
LEMMA LeftIs ==
  ASSUME NEW side \in Sides, NEW key \in Keys(side), NEW k \in 0 .. side * side
  PROVE  \A i : i \in Left(side, key)[k] <=> i \in Positions(side) /\ Place(side, key, i) >= k
<1> DEFINE P  == Positions(side)
           at == At(side, key)
<1>1. k \in Nat /\ k <= side * side /\ side * side \in Nat /\ P = 0 .. side * side - 1
  BY SideIs DEF Positions
<1>2. /\ \A l \in P : at[l] \in P /\ Place(side, key, at[l]) = l
      /\ \A i \in P : Place(side, key, i) \in P /\ at[Place(side, key, i)] = i
  BY AtIs
<1>3. Left(side, key)[k] = P \ {at[l] : l \in 0 .. k - 1}
  BY DEF Left
<1> HIDE DEF P, at
<1>4. ASSUME NEW i \in P PROVE i \in {at[l] : l \in 0 .. k - 1} <=> Place(side, key, i) < k
  <2>1. ASSUME NEW l \in 0 .. k - 1, i = at[l] PROVE Place(side, key, i) < k
    <3>1. l \in P /\ l < k
      BY <1>1
    <3> QED BY <1>2, <2>1, <3>1
  <2>2. ASSUME Place(side, key, i) < k PROVE i \in {at[l] : l \in 0 .. k - 1}
    <3>1. Place(side, key, i) \in 0 .. k - 1
      BY <1>1, <1>2, <2>2
    <3> QED BY <1>2, <3>1
  <2> QED BY <2>1, <2>2
<1>5. ASSUME NEW i \in P PROVE Place(side, key, i) \in Nat
  BY <1>1, <1>2
<1>6. ASSUME NEW i
      PROVE  i \in Left(side, key)[k] <=> i \in Positions(side) /\ Place(side, key, i) >= k
  BY <1>1, <1>3, <1>4, <1>5 DEF P
<1> QED BY <1>6

(* The next of the order has as many unused indices below it as the Lehmer *)
(* code says, and is the only one that has.                                *)
LEMMA TakenIs ==
  ASSUME NEW side \in Sides, NEW key \in Keys(side), NEW k \in Positions(side)
  PROVE  Taken(Left(side, key)[k], Sorted(side, key).lehmer[k]) = At(side, key)[k]
<1> DEFINE P == Positions(side)
           U == Left(side, key)[k]
           V == Value(side, key)
           i == At(side, key)[k]
           B == Before(side, key, i)
           under(j) == {x \in U : x < j}
<1>1. k \in 0 .. side * side /\ P \in SUBSET Nat /\ IsFiniteSet(P) /\ \A x \in P : 0 .. x \in SUBSET P
  <2>1. side * side \in Nat /\ P = 0 .. side * side - 1
    BY SideIs DEF Positions
  <2>2. IsFiniteSet(P)
    BY <2>1, FS_Interval
  <2> QED BY <2>1, <2>2
<1>2. \A x : x \in U <=> x \in P /\ Place(side, key, x) >= k
  BY <1>1, LeftIs
<1>3. /\ i \in P /\ Place(side, key, i) = k
      /\ \A x \in P : Place(side, key, x) \in P
      /\ \A x \in P : Place(side, key, x) < Place(side, key, i) <=> V[x] < V[i]
  BY AtIs
<1>4. /\ \A x \in P : V[x] < V[i] <=> (x < i /\ key[x] <= key[i]) \/ (x > i /\ key[x] < key[i])
      /\ \A x : x \in B <=> x \in P /\ x < i /\ key[x] <= key[i]
  BY <1>3, ValuesOrder DEF Before
<1>5. Sorted(side, key).lehmer[k] = i - Cardinality(B)
  BY DEF Sorted
<1> HIDE DEF P, V, B, i, U
<1>6. i \in U /\ U \in SUBSET P /\ IsFiniteSet(U)
  <2>1. i \in U
    BY <1>1, <1>2, <1>3
  <2>2. U \in SUBSET P
    BY <1>2
  <2> QED BY <1>1, <2>1, <2>2, FS_Subset
<1>7. under(i) = (0 .. i - 1) \ B /\ B \in SUBSET (0 .. i - 1)
  <2>1. ASSUME NEW x \in 0 .. i - 1 PROVE x \in P /\ (x \in U <=> x \notin B)
    <3>1. i \in Nat /\ x \in Nat /\ x < i /\ x \in P
      BY <1>1, <1>3
    <3>2. x \in U <=> Place(side, key, x) >= k
      BY <1>2, <3>1
    <3>3. Place(side, key, x) \in Nat /\ k \in Nat
      BY <1>1, <1>3, <3>1
    <3>4. x \in U <=> ~ (V[x] < V[i])
      BY <1>3, <3>1, <3>2, <3>3
    <3> QED BY <1>4, <3>1, <3>4
  <2>2. ASSUME NEW x \in P, x < i PROVE x \in 0 .. i - 1
    BY <1>1, <1>3, <2>2
  <2>3. under(i) = (0 .. i - 1) \ B
    <3>1. ASSUME NEW x PROVE x \in under(i) <=> x \in (0 .. i - 1) \ B
      <4>1. CASE x \in 0 .. i - 1
        <5>1. i \in Nat /\ x < i
          BY <1>1, <1>3, <4>1
        <5> QED BY <2>1, <4>1, <5>1
      <4>2. CASE x \notin 0 .. i - 1
        BY <1>6, <2>2, <4>2
      <4> QED BY <4>1, <4>2
    <3> HIDE DEF under
    <3> QED BY <3>1
  <2>4. B \in SUBSET (0 .. i - 1)
    BY <1>4, <2>2
  <2> QED BY <2>3, <2>4
<1>8. Cardinality(under(i)) = i - Cardinality(B)
  <2>1. i \in Nat
    BY <1>1, <1>3
  <2>2. IsFiniteSet(0 .. i - 1) /\ Cardinality(0 .. i - 1) = i
    BY <2>1, FS_Interval
  <2>3. (0 .. i - 1) \cap B = B
    BY <1>7
  <2>4. Cardinality((0 .. i - 1) \ B) = Cardinality(0 .. i - 1) - Cardinality((0 .. i - 1) \cap B)
    BY <2>2, FS_Difference
  <2> QED BY <1>7, <2>2, <2>3, <2>4
<1>9. ASSUME NEW j \in U, Cardinality(under(j)) = Cardinality(under(i)) PROVE j = i
  <2> DEFINE id == [x \in U |-> x]
  <2>1. id \in [U -> Int] /\ \A x \in U : \A y \in U : id[x] = id[y] => x = y
    BY <1>1, <1>6
  <2>2. \A x \in U : \A y \in U : Rank(U, id, x) = Rank(U, id, y) => x = y
    <3> HIDE DEF id
    <3> QED BY <1>6, <2>1, RanksNumber
  <2>3. ASSUME NEW x \in U PROVE Rank(U, id, x) = Cardinality(under(x))
    <3>1. Lower(U, id, x) = under(x)
      BY DEF Lower
    <3> QED BY <3>1 DEF Rank
  <2> HIDE DEF id, under
  <2> QED BY <1>6, <1>9, <2>2, <2>3
<1>10. Taken(U, i - Cardinality(B)) = i
  <2> DEFINE code == i - Cardinality(B)
  <2>1. Taken(U, code) = CHOOSE j \in U : Cardinality(under(j)) = code
    BY DEF Taken
  <2> HIDE DEF under, code
  <2>2. Cardinality(under(i)) = code
    BY <1>8 DEF code
  <2>3. Taken(U, code) \in U /\ Cardinality(under(Taken(U, code))) = code
    BY <1>6, <2>1, <2>2
  <2>4. Taken(U, code) = i
    BY <1>9, <2>2, <2>3
  <2> QED BY <2>4 DEF code
<1> QED BY <1>5, <1>10 DEF U, i

(* What a decoder has left before each element is what is not in the       *)
(* places before.                                                          *)
LEMMA UnusedIs ==
  ASSUME NEW side \in Sides, NEW key \in Keys(side), NEW k \in 0 .. side * side
  PROVE  Unused(side, Sorted(side, key).lehmer)[k] = Left(side, key)[k]
<1> DEFINE n == side * side
           lehmer == Sorted(side, key).lehmer
           next(u) == [j \in 0 .. n |-> IF j = 0 THEN Positions(side)
                                        ELSE u[j - 1] \ {Taken(u[j - 1], lehmer[j - 1])}]
           Equation(u) == u = next(u)
           L == Left(side, key)
           D == Unused(side, lehmer)
<1>1. D = CHOOSE u : Equation(u)
  BY Zenon DEF Unused
<1>2. n \in Nat /\ Positions(side) = 0 .. n - 1
  BY SideIs DEF Positions
<1>3. L[0] = Positions(side)
  <2>1. 0 \in 0 .. n
    BY <1>2
  <2>2. L[0] = Positions(side) \ {At(side, key)[l] : l \in 0 .. 0 - 1}
    BY <2>1 DEF Left
  <2> QED BY <2>2
<1>4. ASSUME NEW j \in 1 .. n PROVE L[j] = L[j - 1] \ {Taken(L[j - 1], lehmer[j - 1])}
  <2>1. j \in 0 .. n /\ j - 1 \in Positions(side) /\ j - 1 \in 0 .. n
    BY <1>2
  <2>2. Taken(L[j - 1], lehmer[j - 1]) = At(side, key)[j - 1]
    BY <2>1, TakenIs
  <2>3. /\ \A i : i \in L[j] <=> i \in Positions(side) /\ Place(side, key, i) >= j
        /\ \A i : i \in L[j - 1] <=> i \in Positions(side) /\ Place(side, key, i) >= j - 1
    BY <2>1, LeftIs
  <2>4. ASSUME NEW i \in Positions(side)
        PROVE  /\ Place(side, key, i) \in Nat
               /\ Place(side, key, i) = j - 1 <=> i = At(side, key)[j - 1]
    BY <1>2, <2>1, AtIs
  <2> HIDE DEF L, lehmer
  <2>5. ASSUME NEW i PROVE i \in L[j] <=> i \in L[j - 1] /\ i # At(side, key)[j - 1]
    <3>1. CASE i \in Positions(side)
      <4> DEFINE p == Place(side, key, i)
      <4>1. p \in Nat /\ (p = j - 1 <=> i = At(side, key)[j - 1])
        BY <2>4, <3>1
      <4>2. (i \in L[j] <=> p >= j) /\ (i \in L[j - 1] <=> p >= j - 1)
        BY <2>3, <3>1
      <4> HIDE DEF p
      <4> QED BY <1>2, <4>1, <4>2
    <3>2. CASE i \notin Positions(side)
      BY <2>3, <3>2
    <3> QED BY <3>1, <3>2
  <2> QED BY <2>2, <2>5
<1>5. Equation(L)
  <2>1. L = [j \in 0 .. n |-> L[j]]
    BY DEF Left
  <2>2. \A j \in 0 .. n : j # 0 => j \in 1 .. n
    BY <1>2
  <2> HIDE DEF L, lehmer, n
  <2> QED BY <1>3, <1>4, <2>1, <2>2
<1>6. Equation(D)
  <2> HIDE DEF L, D, Equation
  <2> QED BY <1>1, <1>5, Zenon
<1>7. /\ D[0] = Positions(side)
      /\ \A j \in 1 .. n : D[j] = D[j - 1] \ {Taken(D[j - 1], lehmer[j - 1])}
  <2>1. D = [j \in 0 .. n |-> IF j = 0 THEN Positions(side)
                              ELSE D[j - 1] \ {Taken(D[j - 1], lehmer[j - 1])}]
    BY <1>6
  <2>2. 0 \in 0 .. n /\ \A j \in 1 .. n : j \in 0 .. n /\ j # 0
    BY <1>2
  <2> HIDE DEF D, lehmer, n
  <2> QED BY <2>1, <2>2
<1> DEFINE Bad == {j \in Nat : j <= n /\ D[j] # L[j]}
<1>8. Bad = {}
  <2>1. SUFFICES ASSUME Bad # {} PROVE FALSE
    OBVIOUS
  <2>2. PICK j \in Bad : \A i \in Bad : j <= i
    <3> HIDE DEF D, L, n
    <3> QED BY <2>1, LeastNumber
  <2> HIDE DEF D, L, lehmer, n
  <2>3. j # 0
    BY <1>3, <1>7, <2>2
  <2>4. j \in 1 .. n /\ j - 1 \in Nat /\ j - 1 <= n /\ j - 1 \notin Bad
    BY <1>2, <2>2, <2>3
  <2>5. D[j - 1] = L[j - 1]
    BY <2>4
  <2> QED BY <1>4, <1>7, <2>2, <2>4, <2>5
<1>9. k \in Nat /\ k <= n
  <2>1. k \in 0 .. n
    OBVIOUS
  <2> HIDE DEF n
  <2> QED BY <1>2, <2>1
<1> HIDE DEF D, L, n
<1>10. D[k] = L[k]
  BY <1>8, <1>9
<1> QED BY <1>10 DEF D, L

(* The corner, whose keys are 0, stays in front. *)
LEMMA CornerStays ==
  ASSUME NEW side \in Sides, NEW key \in Keys(side),
         \A i \in Positions(side) : i < Covered(side) => key[i] = 0,
         NEW k \in 0 .. Covered(side) - 1
  PROVE  Sorted(side, key).lehmer[k] = 0
<1>1. /\ k \in Nat /\ k \in Positions(side) /\ k < Covered(side)
      /\ \A j \in 0 .. k - 1 : j \in Positions(side) /\ j < Covered(side)
      /\ \A j \in Positions(side) : j \in Nat /\ key[j] \in Nat
  BY SideIs DEF Positions, Keys
<1>2. Before(side, key, k) = 0 .. k - 1
  <2>1. ASSUME NEW j \in 0 .. k - 1 PROVE j \in Before(side, key, k)
    <3>1. j < k /\ key[j] = 0 /\ key[k] = 0
      BY <1>1
    <3> QED BY <1>1, <3>1 DEF Before
  <2>2. ASSUME NEW j \in Before(side, key, k) PROVE j \in 0 .. k - 1
    BY <1>1 DEF Before
  <2> QED BY <2>1, <2>2
<1>3. After(side, key, k) = {}
  <2>1. key[k] = 0
    BY <1>1
  <2>2. ASSUME NEW j \in Positions(side) PROVE ~ (key[j] < key[k])
    BY <1>1, <2>1
  <2> QED BY <2>2 DEF After
<1>4. Cardinality(Before(side, key, k)) = k /\ Cardinality(After(side, key, k)) = 0
  BY <1>1, <1>2, <1>3, FS_Interval, FS_EmptySet
<1>5. Place(side, key, k) = k
  BY <1>1, <1>4, PlaceIs
<1>6. At(side, key)[k] = k
  BY <1>1, <1>5, AtFound
<1>7. Sorted(side, key).lehmer[k] =
        At(side, key)[k] - Cardinality(Before(side, key, At(side, key)[k]))
  BY <1>1 DEF Sorted
<1> QED BY <1>1, <1>4, <1>6, <1>7

---------------------------------------------------------------------------
(* The orders in the state machine.                                        *)

(* The statistics are those of the frame until the orders are made. *)
OrdersInv ==
  /\ frame \in Frames
  /\ stage = "orders" => order_stats = OrderStats(frame)
  /\ OrdersDecoded

(* The orders kernel makes orders that a decoder finds.                    *)
LEMMA OrdersMade ==
  ASSUME frame \in Frames, order_stats = OrderStats(frame), NEW side \in Sides, NEW c \in Channel
  PROVE  /\ \A k \in Positions(side) :
              CoeffOrder(side, c).order[k] =
                Natural[side][Taken(Unused(side, CoeffOrder(side, c).lehmer)[k],
                                    CoeffOrder(side, c).lehmer[k])]
         /\ \A k \in 0 .. Covered(side) - 1 : CoeffOrder(side, c).lehmer[k] = 0
         /\ CoeffOrder(side, c) = OrderReference(OrderStats(frame), side, c)
<1> DEFINE key == OrderKeys(OrderStats(frame), side, c)
<1>1. frame.bw \in Nat /\ frame.bh \in Nat
  BY TokensAssumption
<1>2. key \in Keys(side) /\ \A i \in Positions(side) : i < Covered(side) => key[i] = 0
  BY <1>1, OrderKeysAre DEF Keys
<1>3. CoeffOrder(side, c) = Sorted(side, key)
  BY <1>2, DeviceSorts
<1>4. OrderReference(OrderStats(frame), side, c) = Sorted(side, key)
  BY <1>2, ReferenceSorts
<1> HIDE DEF key
<1>5. ASSUME NEW k \in Positions(side)
      PROVE  Sorted(side, key).order[k] =
               Natural[side][Taken(Unused(side, Sorted(side, key).lehmer)[k], Sorted(side, key).lehmer[k])]
  <2>1. k \in 0 .. side * side
    BY SideIs DEF Positions
  <2>2. Unused(side, Sorted(side, key).lehmer)[k] = Left(side, key)[k]
    BY <1>2, <2>1, UnusedIs
  <2>3. Taken(Left(side, key)[k], Sorted(side, key).lehmer[k]) = At(side, key)[k]
    BY <1>2, TakenIs
  <2>4. Sorted(side, key).order[k] = Natural[side][At(side, key)[k]]
    BY DEF Sorted
  <2> QED BY <2>2, <2>3, <2>4
<1>6. ASSUME NEW k \in 0 .. Covered(side) - 1 PROVE Sorted(side, key).lehmer[k] = 0
  BY <1>2, CornerStays
<1> QED BY <1>3, <1>4, <1>5, <1>6

(* A decoder finds the orders the device makes, whatever the numbers of    *)
(* splits and lanes and the statistics: they are those of the host.        *)
THEOREM DecoderFindsOrders == Spec => []OrdersDecoded
<1>1. Init => OrdersInv
  BY DEF Init, OrdersInv, OrdersDecoded
<1>2. OrdersInv /\ [Next]_vars => OrdersInv'
  <2> SUFFICES ASSUME OrdersInv, [Next]_vars PROVE OrdersInv'
    OBVIOUS
  <2>1. CASE CoeffOrders
    <3>1. frame' = frame /\ stage' = "histogram" /\ order_stats = OrderStats(frame) /\ frame \in Frames
      BY <2>1 DEF CoeffOrders, OrdersInv, quantized
    <3>2. orders' = [t \in Sides \X Channel |-> CoeffOrder(t[1], t[2])]
      BY <2>1 DEF CoeffOrders
    <3>3. ASSUME NEW t \in Sides \X Channel
          PROVE  /\ \A k \in Positions(t[1]) :
                      orders'[t].order[k] =
                        Natural[t[1]][Taken(Unused(t[1], orders'[t].lehmer)[k], orders'[t].lehmer[k])]
                 /\ \A k \in 0 .. Covered(t[1]) - 1 : orders'[t].lehmer[k] = 0
                 /\ orders'[t] = OrderReference(OrderStats(frame), t[1], t[2])
      <4>1. t[1] \in Sides /\ t[2] \in Channel /\ orders'[t] = CoeffOrder(t[1], t[2])
        BY <3>2
      <4> QED BY <3>1, <4>1, OrdersMade
    <3>4. OrdersDecoded'
      BY <3>1, <3>3, Zenon DEF OrdersDecoded
    <3> QED BY <3>1, <3>4 DEF OrdersInv
  <2>2. ASSUME frame' = frame, stage' \notin {"orders", "histogram"} PROVE OrdersInv'
    BY <2>2 DEF OrdersInv, OrdersDecoded
  <2>3. CASE Histogram
    BY <2>2, <2>3 DEF Histogram, quantized
  <2>4. CASE Layout
    BY <2>2, <2>4 DEF Layout, quantized
  <2>5. CASE ZeroRawWords
    BY <2>2, <2>5 DEF ZeroRawWords, quantized
  <2>6. ASSUME NEW q \in todo, Pack(q) PROVE OrdersInv'
    BY <2>2, <2>6 DEF Pack, quantized
  <2>7. CASE NextBatch
    BY <2>2, <2>7 DEF NextBatch, quantized
  <2>8. CASE UNCHANGED vars
    BY <2>8 DEF OrdersInv, OrdersDecoded, vars, quantized
  <2> QED BY <2>1, <2>3, <2>4, <2>5, <2>6, <2>7, <2>8 DEF Next, Terminated
<1>3. OrdersInv => OrdersDecoded
  BY DEF OrdersInv
<1> QED BY <1>1, <1>2, <1>3, PTL DEF Spec
=============================================================================
