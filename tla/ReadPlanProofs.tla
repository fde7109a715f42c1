--------------------------- MODULE ReadPlanProofs ---------------------------
(***************************************************************************)
(* Lemmas about Selections and ReadPlan for any rank, extent and number of *)
(* blocks.  First Selections: what a listing in order is, the order of     *)
(* coordinates, the boxes of blocks and where their elements are in an     *)
(* array, what the translation of a dataspace returns, and that the        *)
(* selections of one list the elements it selects.  Then ReadPlan, along   *)
(* the way of a read plan backwards: trimming, sorting and grouping, the   *)
(* runs of one hit and of a group, the plan, and the search that finds the *)
(* hits, up to the lemma that a plan reads the file in ascending order.    *)
(* In these lemmas width is the size of an element.                        *)
(***************************************************************************)
EXTENDS ReadPlan, FoldLemmas

\* Functions of one domain are equal if their values are.
LEMMA SameFunction ==
  ASSUME NEW D, NEW V, NEW f \in [D -> V], NEW g \in [D -> V], \A k \in D : f[k] = g[k]
  PROVE  f = g
<1>1. f = [k \in D |-> f[k]] /\ g = [k \in D |-> g[k]]
  OBVIOUS
<1>2. [k \in D |-> f[k]] = [k \in D |-> g[k]]
  OBVIOUS
<1> QED BY <1>1, <1>2

-----------------------------------------------------------------------------
(* Listing a finite set in a strict order *)

StrictOrder(R, S) ==
  /\ \A x \in S : <<x, x>> \notin R
  /\ \A x, y, z \in S : <<x, y>> \in R /\ <<y, z>> \in R => <<x, z>> \in R
  /\ \A x, y \in S : x = y \/ <<x, y>> \in R \/ <<y, x>> \in R

Below(R, S, x) == {y \in S : <<y, x>> \in R}

Lists(s, S, R) ==
  /\ s \in [1 .. Cardinality(S) -> S]
  /\ \A k \in 1 .. Cardinality(S) : Cardinality(Below(R, S, s[k])) = k - 1
  /\ \A k, l \in 1 .. Cardinality(S) : <<s[k], s[l]>> \in R <=> k < l
  /\ \A x \in S : \E k \in 1 .. Cardinality(S) : s[k] = x

\* The number of elements below one grows along the order.
LEMMA BelowGrows ==
  ASSUME NEW S, IsFiniteSet(S), NEW R, StrictOrder(R, S), NEW x \in S, NEW y \in S
  PROVE  /\ Cardinality(Below(R, S, x)) \in 0 .. Cardinality(S) - 1
         /\ <<x, y>> \in R => Cardinality(Below(R, S, x)) < Cardinality(Below(R, S, y))
<1>1. ASSUME NEW U \in SUBSET S, NEW V \in SUBSET U, V # U
      PROVE  Cardinality(V) < Cardinality(U) /\ Cardinality(V) \in Nat
  <2>1. IsFiniteSet(U) /\ IsFiniteSet(V)
    BY FS_Subset
  <2>2. Cardinality(V) <= Cardinality(U) /\ Cardinality(V) # Cardinality(U)
    BY <2>1, <1>1, FS_Subset
  <2>3. Cardinality(V) \in Nat /\ Cardinality(U) \in Nat
    BY <2>1, FS_CardinalityType
  <2> QED BY <2>2, <2>3
<1>2. Cardinality(Below(R, S, x)) < Cardinality(S) /\ Cardinality(Below(R, S, x)) \in Nat
  <2>1. Below(R, S, x) \in SUBSET S /\ x \notin Below(R, S, x) /\ S \in SUBSET S
    BY DEF Below, StrictOrder
  <2> QED BY <2>1, <1>1
<1>3. ASSUME <<x, y>> \in R PROVE Cardinality(Below(R, S, x)) < Cardinality(Below(R, S, y))
  <2>1. Below(R, S, y) \in SUBSET S /\ Below(R, S, x) \in SUBSET Below(R, S, y)
    BY <1>3 DEF Below, StrictOrder
  <2>2. x \in Below(R, S, y) /\ x \notin Below(R, S, x)
    BY <1>3 DEF Below, StrictOrder
  <2> QED BY <2>1, <2>2, <1>1
<1>4. Cardinality(S) \in Nat
  BY FS_CardinalityType
<1> QED BY <1>2, <1>3, <1>4

\* For every number below the size of the set an element has as many below it.
LEMMA EveryRank ==
  ASSUME NEW S, IsFiniteSet(S), NEW R, StrictOrder(R, S), NEW k \in 1 .. Cardinality(S)
  PROVE  \E x \in S : Cardinality(Below(R, S, x)) = k - 1
<1> DEFINE n == Cardinality(S)
           T == 0 .. n - 1
           rank == [x \in S |-> Cardinality(Below(R, S, x))]
<1>0. n \in Nat
  BY FS_CardinalityType
<1>1. IsFiniteSet(T) /\ Cardinality(T) = n
  <2> HIDE DEF n
  <2>1. 0 \in Int /\ n - 1 \in Int
    BY <1>0
  <2>2. IsFiniteSet(T) /\ Cardinality(T) = IF 0 > n - 1 THEN 0 ELSE (n - 1) - 0 + 1
    BY <2>1, FS_Interval
  <2> HIDE DEF T
  <2> QED BY <2>2, <1>0
<1>2. rank \in [S -> T]
  BY BelowGrows
<1>3. \A x, y \in S : rank[x] = rank[y] => x = y
  <2> SUFFICES ASSUME NEW x \in S, NEW y \in S, x # y PROVE rank[x] # rank[y]
    OBVIOUS
  <2>1. <<x, y>> \in R \/ <<y, x>> \in R
    BY DEF StrictOrder
  <2>2. rank[x] < rank[y] \/ rank[y] < rank[x]
    BY <2>1, BelowGrows
  <2>3. rank[x] \in Int /\ rank[y] \in Int
    BY <1>2, <1>0
  <2> HIDE DEF rank
  <2> QED BY <2>2, <2>3
<1> HIDE DEF rank
<1>4. rank \in Injection(S, T)
  BY <1>2, <1>3 DEF Injection, IsInjective
<1>5. rank \in Surjection(S, T)
  BY <1>1, <1>4, FS_Injection
<1>6. k - 1 \in T
  BY <1>0
<1>7. PICK x \in S : rank[x] = k - 1
  BY <1>5, <1>6 DEF Surjection
<1> QED BY <1>7 DEF rank

\* A function that picks for every number such an element lists the set.
LEMMA MakesList ==
  ASSUME NEW S, IsFiniteSet(S), NEW R, StrictOrder(R, S),
         NEW s, s = [k \in 1 .. Cardinality(S) |-> s[k]],
         \A k \in 1 .. Cardinality(S) : s[k] \in S /\ Cardinality(Below(R, S, s[k])) = k - 1
  PROVE  Lists(s, S, R)
<1> DEFINE n == Cardinality(S)
<1>0. n \in Nat
  BY FS_CardinalityType
<1> HIDE DEF n
<1>1. s \in [1 .. n -> S]
  BY DEF n
<1>a. \A k \in 1 .. n : Cardinality(Below(R, S, s[k])) = k - 1
  BY DEF n
<1>b. \A x, y \in S : <<x, y>> \in R => Cardinality(Below(R, S, x)) < Cardinality(Below(R, S, y))
  BY BelowGrows
<1>c. \A x \in S : Cardinality(Below(R, S, x)) \in 0 .. n - 1
  BY BelowGrows DEF n
<1>2. ASSUME NEW k \in 1 .. n, NEW l \in 1 .. n PROVE <<s[k], s[l]>> \in R <=> k < l
  <2>1. <<s[k], s[l]>> \in R => k < l
    <3> SUFFICES ASSUME <<s[k], s[l]>> \in R PROVE k < l
      OBVIOUS
    <3>1. Cardinality(Below(R, S, s[k])) < Cardinality(Below(R, S, s[l]))
      BY <1>1, <1>b
    <3> QED BY <3>1, <1>a
  <2>2. <<s[l], s[k]>> \in R => l < k
    <3> SUFFICES ASSUME <<s[l], s[k]>> \in R PROVE l < k
      OBVIOUS
    <3>1. Cardinality(Below(R, S, s[l])) < Cardinality(Below(R, S, s[k]))
      BY <1>1, <1>b
    <3> QED BY <3>1, <1>a
  <2>3. s[k] = s[l] => k = l
    BY <1>a
  <2>4. s[k] = s[l] \/ <<s[k], s[l]>> \in R \/ <<s[l], s[k]>> \in R
    BY <1>1 DEF StrictOrder
  <2> QED BY <2>1, <2>2, <2>3, <2>4
<1>3. ASSUME NEW x \in S PROVE \E k \in 1 .. n : s[k] = x
  <2> DEFINE k == Cardinality(Below(R, S, x)) + 1
  <2>1. k \in 1 .. n /\ Cardinality(Below(R, S, x)) = k - 1
    BY <1>0, <1>c
  <2> HIDE DEF k
  <2>2. Cardinality(Below(R, S, s[k])) = Cardinality(Below(R, S, x)) /\ s[k] \in S
    BY <2>1, <1>1, <1>a
  <2>3. <<s[k], x>> \notin R /\ <<x, s[k]>> \notin R
    <3>1. Cardinality(Below(R, S, x)) \in Int
      BY <2>1
    <3> QED BY <3>1, <2>2, <1>b
  <2>4. s[k] = x
    BY <2>2, <2>3 DEF StrictOrder
  <2> QED BY <2>1, <2>4
<1> QED BY <1>1, <1>a, <1>2, <1>3 DEF Lists, n

\* There is only one listing.
LEMMA OneList ==
  ASSUME NEW S, IsFiniteSet(S), NEW R, StrictOrder(R, S), NEW s, NEW t,
         Lists(s, S, R), Lists(t, S, R)
  PROVE  s = t
<1>1. ASSUME NEW k \in 1 .. Cardinality(S) PROVE s[k] = t[k]
  <2>1. s[k] \in S /\ t[k] \in S
    BY DEF Lists
  <2>2. Cardinality(Below(R, S, s[k])) = Cardinality(Below(R, S, t[k]))
    BY DEF Lists
  <2>3. Cardinality(Below(R, S, s[k])) \in Int
    <3>1. Cardinality(S) \in Int
      BY FS_CardinalityType
    <3>2. Cardinality(Below(R, S, s[k])) \in 0 .. Cardinality(S) - 1
      BY <2>1, BelowGrows
    <3> QED BY <3>1, <3>2
  <2>4. <<s[k], t[k]>> \notin R /\ <<t[k], s[k]>> \notin R
    BY <2>1, <2>2, <2>3, BelowGrows
  <2> QED BY <2>1, <2>4 DEF StrictOrder
<1>2. s \in [1 .. Cardinality(S) -> S] /\ t \in [1 .. Cardinality(S) -> S]
  BY DEF Lists
<1> DEFINE D == 1 .. Cardinality(S)
<1>3. s \in [D -> S] /\ t \in [D -> S] /\ \A k \in D : s[k] = t[k]
  BY <1>1, <1>2
<1> HIDE DEF D
<1> QED BY <1>3, SameFunction

\* An element with none between it and another is listed next to it.
LEMMA NextInList ==
  ASSUME NEW S, IsFiniteSet(S), NEW R, StrictOrder(R, S), NEW s, Lists(s, S, R),
         NEW k \in 1 .. Cardinality(S), NEW y \in S, <<s[k], y>> \in R,
         \A z \in S : ~(<<s[k], z>> \in R /\ <<z, y>> \in R)
  PROVE  k + 1 \in 1 .. Cardinality(S) /\ s[k + 1] = y
<1>0. Cardinality(S) \in Nat
  BY FS_CardinalityType
<1>1. PICK l \in 1 .. Cardinality(S) : s[l] = y
  BY DEF Lists
<1>2. k < l
  BY <1>1 DEF Lists
<1>3. k + 1 \in 1 .. Cardinality(S) /\ k < k + 1
  BY <1>0, <1>1, <1>2
<1>4. s[k + 1] \in S /\ <<s[k], s[k + 1]>> \in R
  BY <1>3 DEF Lists
<1>5. <<s[k + 1], s[l]>> \notin R
  BY <1>1, <1>4
<1>6. ~(k + 1 < l)
  BY <1>3, <1>5 DEF Lists
<1>7. k + 1 = l
  BY <1>0, <1>1, <1>2, <1>6
<1> QED BY <1>1, <1>3, <1>7

\* The numbers of a finite set in order.
Less(S) == {p \in S \X S : p[1] < p[2]}

\* InOrder lists the numbers of a finite set from the smallest on.
LEMMA NumbersInOrder ==
  ASSUME NEW S \in SUBSET Int, IsFiniteSet(S)
  PROVE  Lists(InOrder(S, <), S, Less(S))
<1> DEFINE R == Less(S)
           s == InOrder(S, <)
<1>1. \A x, y \in S : <<x, y>> \in R <=> x < y
  BY DEF Less
<1>2. StrictOrder(R, S)
  BY <1>1 DEF StrictOrder
<1>3. s = [k \in 1 .. Cardinality(S) |->
             CHOOSE x \in S : Cardinality({y \in S : y < x}) = k - 1]
  BY DEF InOrder
<1>4. \A x \in S : {y \in S : y < x} = Below(R, S, x)
  BY <1>1 DEF Below
<1> HIDE DEF R, s
<1>5. ASSUME NEW k \in 1 .. Cardinality(S)
      PROVE  s[k] \in S /\ Cardinality(Below(R, S, s[k])) = k - 1
  <2>1. \E x \in S : Cardinality({y \in S : y < x}) = k - 1
    <3>1. PICK x \in S : Cardinality(Below(R, S, x)) = k - 1
      BY <1>2, EveryRank
    <3>2. Cardinality({y \in S : y < x}) = k - 1
      BY <3>1, <1>4
    <3> QED BY <3>2
  <2>2. s[k] = CHOOSE x \in S : Cardinality({y \in S : y < x}) = k - 1
    BY <1>3
  <2>3. s[k] \in S /\ Cardinality({y \in S : y < s[k]}) = k - 1
    BY <2>1, <2>2
  <2> QED BY <2>3, <1>4
<1>6. s = [k \in 1 .. Cardinality(S) |-> s[k]]
  <2> DEFINE D == 1 .. Cardinality(S)
             e(k) == CHOOSE x \in S : Cardinality({y \in S : y < x}) = k - 1
  <2>1. s = [k \in D |-> e(k)]
    BY <1>3
  <2> HIDE DEF D, e
  <2>2. s = [k \in D |-> s[k]]
    BY <2>1
  <2> QED BY <2>2 DEF D
<1>7. Lists(s, S, R)
  BY <1>2, <1>5, <1>6, MakesList
<1> QED BY <1>7 DEF R, s

-----------------------------------------------------------------------------
(* Coordinates in order *)

Vectors(n) == [1 .. n -> Int]
Lex(S) == {p \in S \X S : LessThan(p[1], p[2])}

\* The order of coordinates is a strict order: the first dimension in which two
\* differ decides.
LEMMA FirstDifference ==
  ASSUME NEW n \in Nat, NEW a \in Vectors(n), NEW b \in Vectors(n), a # b
  PROVE  \E i \in 1 .. n : a[i] # b[i] /\ \A j \in 1 .. i - 1 : a[j] = b[j]
<1> DEFINE T == {i \in 1 .. n : a[i] # b[i]}
<1>1. T # {}
  <2>1. SUFFICES ASSUME \A i \in 1 .. n : a[i] = b[i] PROVE FALSE
    OBVIOUS
  <2> DEFINE D == 1 .. n
  <2>2. a \in [D -> Int] /\ b \in [D -> Int] /\ \A i \in D : a[i] = b[i]
    BY <2>1 DEF Vectors
  <2> HIDE DEF D
  <2> QED BY <2>2, SameFunction
<1>2. T \in SUBSET Nat
  OBVIOUS
<1>3. PICK i \in T : \A j \in T : i <= j
  <2> HIDE DEF T
  <2> QED BY <1>1, <1>2, LeastNat
<1>4. ASSUME NEW j \in 1 .. i - 1 PROVE a[j] = b[j]
  <2>1. j \in 1 .. n /\ ~(i <= j)
    OBVIOUS
  <2> QED BY <2>1, <1>3
<1> QED BY <1>3, <1>4

\* LessThan is a strict and total order of the coordinates of one rank.
LEMMA LexOrder ==
  ASSUME NEW n \in Nat, NEW a \in Vectors(n), NEW b \in Vectors(n), NEW c \in Vectors(n)
  PROVE  /\ ~LessThan(a, a)
         /\ LessThan(a, b) /\ LessThan(b, c) => LessThan(a, c)
         /\ a = b \/ LessThan(a, b) \/ LessThan(b, a)
<1>1. ~LessThan(a, a)
  BY DEF LessThan, Vectors
<1>2. ASSUME LessThan(a, b), LessThan(b, c) PROVE LessThan(a, c)
  <2>1. PICK i \in 1 .. n : a[i] < b[i] /\ \A j \in 1 .. i - 1 : a[j] = b[j]
    BY <1>2 DEF LessThan, Vectors
  <2>2. PICK k \in 1 .. n : b[k] < c[k] /\ \A j \in 1 .. k - 1 : b[j] = c[j]
    BY <1>2 DEF LessThan, Vectors
  <2> DEFINE m == IF i < k THEN i ELSE k
  <2>3. m \in 1 .. n /\ a[m] < c[m]
    <3>1. \A j \in 1 .. n : a[j] \in Int /\ b[j] \in Int /\ c[j] \in Int
      BY DEF Vectors
    <3>2. CASE i < k
      <4>1. i \in 1 .. k - 1
        BY <3>2
      <4> QED BY <3>1, <3>2, <4>1, <2>1, <2>2
    <3>3. CASE k < i
      <4>1. k \in 1 .. i - 1
        BY <3>3
      <4> QED BY <3>1, <3>3, <4>1, <2>1, <2>2
    <3>4. CASE i = k
      BY <3>1, <3>4, <2>1, <2>2
    <3> QED BY <3>2, <3>3, <3>4
  <2>4. \A j \in 1 .. m - 1 : a[j] = c[j]
    BY <2>1, <2>2
  <2> HIDE DEF m
  <2> QED BY <2>3, <2>4 DEF LessThan, Vectors
<1>3. a = b \/ LessThan(a, b) \/ LessThan(b, a)
  <2> SUFFICES ASSUME a # b PROVE LessThan(a, b) \/ LessThan(b, a)
    OBVIOUS
  <2>1. PICK i \in 1 .. n : a[i] # b[i] /\ \A j \in 1 .. i - 1 : a[j] = b[j]
    BY FirstDifference
  <2>2. a[i] \in Int /\ b[i] \in Int
    BY DEF Vectors
  <2>3. a[i] < b[i] \/ b[i] < a[i]
    BY <2>1, <2>2
  <2> QED BY <2>1, <2>3 DEF LessThan, Vectors
<1> QED BY <1>1, <1>2, <1>3

\* As a set of pairs, LessThan is a strict order of any coordinates of one rank.
LEMMA LexStrict ==
  ASSUME NEW n \in Nat, NEW S \in SUBSET Vectors(n)
  PROVE  StrictOrder(Lex(S), S) /\ \A x, y \in S : <<x, y>> \in Lex(S) <=> LessThan(x, y)
<1>1. \A x, y \in S : <<x, y>> \in Lex(S) <=> LessThan(x, y)
  BY DEF Lex
<1>2. \A x, y, z \in S : /\ ~LessThan(x, x)
                         /\ LessThan(x, y) /\ LessThan(y, z) => LessThan(x, z)
                         /\ x = y \/ LessThan(x, y) \/ LessThan(y, x)
  BY LexOrder
<1> QED BY <1>1, <1>2 DEF StrictOrder

\* A finite set of coordinates in order.
LEMMA VectorsInOrder ==
  ASSUME NEW n \in Nat, NEW S \in SUBSET Vectors(n), IsFiniteSet(S)
  PROVE  Lists(InOrder(S, LessThan), S, Lex(S))
<1> DEFINE R == Lex(S)
           s == InOrder(S, LessThan)
<1>1. \A x, y \in S : <<x, y>> \in R <=> LessThan(x, y)
  BY LexStrict
<1>2. StrictOrder(R, S)
  BY LexStrict
<1>3. s = [k \in 1 .. Cardinality(S) |->
             CHOOSE x \in S : Cardinality({y \in S : LessThan(y, x)}) = k - 1]
  BY DEF InOrder
<1>4. \A x \in S : {y \in S : LessThan(y, x)} = Below(R, S, x)
  BY <1>1 DEF Below
<1> HIDE DEF R, s
<1>5. ASSUME NEW k \in 1 .. Cardinality(S)
      PROVE  s[k] \in S /\ Cardinality(Below(R, S, s[k])) = k - 1
  <2>1. \E x \in S : Cardinality({y \in S : LessThan(y, x)}) = k - 1
    BY <1>2, <1>4, EveryRank
  <2>2. s[k] = CHOOSE x \in S : Cardinality({y \in S : LessThan(y, x)}) = k - 1
    BY <1>3
  <2>3. s[k] \in S /\ Cardinality({y \in S : LessThan(y, s[k])}) = k - 1
    BY <2>1, <2>2
  <2> QED BY <2>3, <1>4
<1>6. s = [k \in 1 .. Cardinality(S) |-> s[k]]
  <2> DEFINE D == 1 .. Cardinality(S)
             e(k) == CHOOSE x \in S : Cardinality({y \in S : LessThan(y, x)}) = k - 1
  <2>1. s = [k \in D |-> e(k)]
    BY <1>3
  <2> HIDE DEF D, e
  <2>2. s = [k \in D |-> s[k]]
    BY <2>1
  <2> QED BY <2>2 DEF D
<1>7. Lists(s, S, R)
  BY <1>2, <1>5, <1>6, MakesList
<1> QED BY <1>7 DEF R, s

\* Coordinates none of which is greater do not come later.
LEMMA PointwiseOrder ==
  ASSUME NEW n \in Nat, NEW a \in Vectors(n), NEW b \in Vectors(n),
         \A i \in 1 .. n : a[i] <= b[i]
  PROVE  ~LessThan(b, a)
<1> SUFFICES ASSUME LessThan(b, a) PROVE FALSE
  OBVIOUS
<1>1. PICK i \in 1 .. n : b[i] < a[i]
  BY DEF LessThan, Vectors
<1>2. a[i] \in Int /\ b[i] \in Int /\ a[i] <= b[i]
  BY DEF Vectors
<1> QED BY <1>1, <1>2

\* The order of rows decides the order of cells.
LEMMA RowOrder ==
  ASSUME NEW n \in Nat, NEW m \in 0 .. n, NEW a, NEW b,
         DOMAIN a = 1 .. n, DOMAIN b = 1 .. n,
         LessThan(SubSeq(a, 1, m), SubSeq(b, 1, m))
  PROVE  LessThan(a, b)
<1>1. /\ DOMAIN SubSeq(a, 1, m) = 1 .. m
      /\ \A i \in 1 .. m : SubSeq(a, 1, m)[i] = a[i] /\ SubSeq(b, 1, m)[i] = b[i]
  OBVIOUS
<1>2. PICK i \in 1 .. m : a[i] < b[i] /\ \A j \in 1 .. i - 1 : a[j] = b[j]
  <2>1. PICK i \in 1 .. m : /\ SubSeq(a, 1, m)[i] < SubSeq(b, 1, m)[i]
                            /\ \A j \in 1 .. i - 1 : SubSeq(a, 1, m)[j] = SubSeq(b, 1, m)[j]
    BY <1>1 DEF LessThan
  <2>2. \A j \in 1 .. i - 1 : j \in 1 .. m
    OBVIOUS
  <2> QED BY <1>1, <2>1, <2>2
<1>3. i \in 1 .. n
  OBVIOUS
<1> QED BY <1>2, <1>3 DEF LessThan

-----------------------------------------------------------------------------
(* Boxes *)

\* A finite set of numbers has a greatest.
LEMMA MaxOfSet ==
  ASSUME NEW S \in SUBSET Int, IsFiniteSet(S), S # {}
  PROVE  Max(S) \in S /\ \A x \in S : x <= Max(S)
<1> DEFINE n == Cardinality(S)
           s == InOrder(S, <)
<1>1. n \in Nat /\ n # 0
  BY FS_CardinalityType, FS_EmptySet
<1>2. Lists(s, S, Less(S))
  BY NumbersInOrder
<1> HIDE DEF n, s
<1>3. n \in 1 .. n
  BY <1>1
<1>4. s[n] \in S
  BY <1>2, <1>3 DEF Lists, n
<1>5. ASSUME NEW x \in S PROVE s[n] >= x
  <2>1. PICK k \in 1 .. n : s[k] = x
    BY <1>2 DEF Lists, n
  <2>2. <<s[n], s[k]>> \notin Less(S)
    <3>1. ~(n < k)
      BY <1>1
    <3> QED BY <3>1, <1>2, <1>3 DEF Lists, n
  <2>3. ~(s[n] < s[k])
    BY <2>1, <2>2, <1>4 DEF Less
  <2>4. s[n] \in Int /\ x \in Int
    BY <1>4
  <2> QED BY <2>1, <2>3, <2>4
<1>6. \E m \in S : \A x \in S : m >= x
  BY <1>4, <1>5
<1>7. Max(S) \in S /\ \A x \in S : Max(S) >= x
  BY <1>6 DEF Max
<1> QED BY <1>7

Cuboid(n, start, count) ==
  {c \in Vectors(n) : \A i \in 1 .. n : start[i] <= c[i] /\ c[i] < start[i] + count[i]}

\* The coordinates of a box are those between its corners: the bound of their
\* set is high enough.
LEMMA BoxIsCuboid ==
  ASSUME NEW n \in Nat, NEW start \in [1 .. n -> Nat], NEW count \in [1 .. n -> Nat]
  PROVE  BoxOf(start, count) = Cuboid(n, start, count)
<1> DEFINE S == {start[i] + count[i] : i \in 1 .. n} \cup {0}
           end == [i \in 1 .. n |-> start[i] + count[i]]
<1>1. S \in SUBSET Int /\ S # {}
  OBVIOUS
<1>2. IsFiniteSet(S)
  <2> DEFINE D == 1 .. n
             U == {end[i] : i \in D}
  <2>1. IsFiniteSet(D)
    BY FS_Interval
  <2>2. end \in Surjection(D, U)
    BY DEF Surjection
  <2> HIDE DEF end
  <2>3. IsFiniteSet(U)
    BY <2>1, <2>2, FS_Surjection
  <2>4. S = U \cup {0}
    BY DEF end
  <2> QED BY <2>3, <2>4, FS_AddElement
<1>3. Max(S) \in Int /\ \A x \in S : x <= Max(S)
  <2> HIDE DEF S
  <2> QED BY <1>1, <1>2, MaxOfSet
<1>4. \A i \in 1 .. n : start[i] + count[i] <= Max(S)
  BY <1>3
<1> DEFINE M == Max(S)
<1>5. BoxOf(start, count) =
        {c \in [1 .. n -> 0 .. M] : \A i \in 1 .. n : start[i] <= c[i] /\ c[i] < start[i] + count[i]}
  BY DEF BoxOf
<1>6. M \in Int /\ \A i \in 1 .. n : start[i] + count[i] <= M
  BY <1>3, <1>4
<1> HIDE DEF M, S
<1>7. ASSUME NEW c \in Cuboid(n, start, count) PROVE c \in [1 .. n -> 0 .. M]
  <2>1. c \in [1 .. n -> Int]
    BY DEF Cuboid, Vectors
  <2>2. ASSUME NEW i \in 1 .. n PROVE c[i] \in 0 .. M
    <3>1. start[i] <= c[i] /\ c[i] < start[i] + count[i] /\ start[i] + count[i] <= M
      BY <1>6 DEF Cuboid
    <3>2. start[i] \in Nat /\ count[i] \in Nat /\ c[i] \in Int
      BY <2>1
    <3> QED BY <3>1, <3>2, <1>6
  <2> QED BY <2>1, <2>2
<1>8. ASSUME NEW c \in [1 .. n -> 0 .. M] PROVE c \in Vectors(n)
  BY DEF Vectors
<1> QED BY <1>5, <1>7, <1>8 DEF Cuboid

\* It has as many as its sides multiplied.
LEMMA CuboidSize ==
  ASSUME NEW n \in Nat, NEW start \in [1 .. n -> Nat], NEW count \in [1 .. n -> Nat],
         NEW m \in 0 .. n
  PROVE  /\ IsFiniteSet(Cuboid(m, start, count))
         /\ Cardinality(Cuboid(m, start, count)) = Product(count, 1 .. m)
<1> DEFINE Good(k) == /\ IsFiniteSet(Cuboid(k, start, count))
                      /\ Cardinality(Cuboid(k, start, count)) = Product(count, 1 .. k)
           T == {k \in Nat : k <= n => Good(k)}
<1>1. 0 \in T
  <2> DEFINE e == [i \in 1 .. 0 |-> 0]
  <2>1. Cuboid(0, start, count) = {e}
    <3>1. e \in Cuboid(0, start, count)
      BY DEF Cuboid, Vectors
    <3>2. ASSUME NEW c \in Cuboid(0, start, count) PROVE c = e
      BY DEF Cuboid, Vectors
    <3> QED BY <3>1, <3>2
  <2> HIDE DEF e
  <2>2. IsFiniteSet({e}) /\ Cardinality({e}) = 1
    BY FS_Singleton
  <2>3. 1 .. 0 = {}
    OBVIOUS
  <2>4. Product(count, {}) = 1
    BY ProductEmpty
  <2> QED BY <2>1, <2>2, <2>3, <2>4
<1>2. ASSUME NEW k \in T PROVE k + 1 \in T
  <2> SUFFICES ASSUME k + 1 <= n PROVE Good(k + 1)
    <3> HIDE DEF Good
    <3> QED OBVIOUS
  <2>1. k \in Nat /\ k + 1 \in 1 .. n /\ Good(k)
    <3> HIDE DEF Good
    <3> QED OBVIOUS
  <2> DEFINE A == Cuboid(k, start, count)
             lo == start[k + 1]
             d == count[k + 1]
             B == lo .. lo + d - 1
             C == Cuboid(k + 1, start, count)
             f == [p \in A \X B |-> [i \in 1 .. k + 1 |-> IF i = k + 1 THEN p[2] ELSE p[1][i]]]
  <2>2. lo \in Nat /\ d \in Nat
    BY <2>1
  <2>3. IsFiniteSet(B) /\ Cardinality(B) = d
    <3> HIDE DEF lo, d
    <3>1. lo \in Int /\ lo + d - 1 \in Int
      BY <2>2
    <3>2. IsFiniteSet(B) /\ Cardinality(B) = IF lo > lo + d - 1 THEN 0 ELSE (lo + d - 1) - lo + 1
      BY <3>1, FS_Interval
    <3> QED BY <3>2, <2>2
  <2>4. ASSUME NEW a \in A, NEW b \in B
        PROVE  /\ f[<<a, b>>] \in C
               /\ f[<<a, b>>][k + 1] = b
               /\ \A i \in 1 .. k : f[<<a, b>>][i] = a[i]
    <3> DEFINE c == [i \in 1 .. k + 1 |-> IF i = k + 1 THEN b ELSE a[i]]
    <3>1. f[<<a, b>>] = c
      OBVIOUS
    <3>2. a \in [1 .. k -> Int] /\ \A i \in 1 .. k : start[i] <= a[i] /\ a[i] < start[i] + count[i]
      BY DEF Cuboid, Vectors
    <3>3. b \in Int /\ start[k + 1] <= b /\ b < start[k + 1] + count[k + 1]
      BY <2>2
    <3>4. \A i \in 1 .. k + 1 : i # k + 1 => i \in 1 .. k
      BY <2>1
    <3>5. \A i \in 1 .. k : i # k + 1 /\ i \in 1 .. k + 1
      BY <2>1
    <3>a. k + 1 \in 1 .. k + 1
      BY <2>1
    <3>6. c[k + 1] = b /\ \A i \in 1 .. k : c[i] = a[i]
      BY <3>5, <3>a
    <3>7. c \in [1 .. k + 1 -> Int]
      BY <3>2, <3>3, <3>4
    <3> HIDE DEF c
    <3>8. \A i \in 1 .. k + 1 : start[i] <= c[i] /\ c[i] < start[i] + count[i]
      BY <3>2, <3>3, <3>4, <3>6
    <3> QED BY <3>1, <3>6, <3>7, <3>8 DEF Cuboid, Vectors
  <2>5. ASSUME NEW c \in C PROVE \E a \in A, b \in B : f[<<a, b>>] = c
    <3> DEFINE a == [i \in 1 .. k |-> c[i]]
               b == c[k + 1]
    <3>1. c \in [1 .. k + 1 -> Int]
          /\ \A i \in 1 .. k + 1 : start[i] <= c[i] /\ c[i] < start[i] + count[i]
      BY DEF Cuboid, Vectors
    <3>2. \A i \in 1 .. k : i \in 1 .. k + 1 /\ a[i] = c[i]
      BY <2>1
    <3>a. k + 1 \in 1 .. k + 1
      BY <2>1
    <3>3. a \in A
      BY <3>1, <3>2 DEF Cuboid, Vectors
    <3>4. b \in B
      BY <3>1, <3>a, <2>2
    <3>5. f[<<a, b>>] \in C /\ f[<<a, b>>][k + 1] = c[k + 1]
          /\ \A i \in 1 .. k : f[<<a, b>>][i] = c[i]
      <4> HIDE DEF f, A, B, C
      <4>1. /\ f[<<a, b>>] \in C /\ f[<<a, b>>][k + 1] = b
            /\ \A i \in 1 .. k : f[<<a, b>>][i] = a[i]
        BY <3>3, <3>4, <2>4
      <4> QED BY <4>1, <3>2
    <3> DEFINE g == f[<<a, b>>]
    <3>6. g \in [1 .. k + 1 -> Int] /\ c \in [1 .. k + 1 -> Int]
      <4>1. g \in C
        BY <3>5
      <4> HIDE DEF g
      <4> QED BY <4>1, <3>1 DEF Cuboid, Vectors
    <3>7. \A i \in 1 .. k + 1 : i = k + 1 \/ i \in 1 .. k
      BY <2>1
    <3>8. \A i \in 1 .. k + 1 : g[i] = c[i]
      <4>1. g[k + 1] = c[k + 1] /\ \A i \in 1 .. k : g[i] = c[i]
        BY <3>5
      <4> HIDE DEF g
      <4> QED BY <4>1, <3>7
    <3>9. g = c
      <4> DEFINE D == 1 .. k + 1
      <4>1. g \in [D -> Int] /\ c \in [D -> Int] /\ \A i \in D : g[i] = c[i]
        BY <3>6, <3>8
      <4> HIDE DEF D, g
      <4> QED BY <4>1, SameFunction
    <3> HIDE DEF f, A, B, a, b
    <3> QED BY <3>3, <3>4, <3>9
  <2>6. ASSUME NEW a \in A, NEW b \in B, NEW u \in A, NEW v \in B, f[<<a, b>>] = f[<<u, v>>]
        PROVE  a = u /\ b = v
    <3>1. b = v /\ \A i \in 1 .. k : a[i] = u[i]
      <4> HIDE DEF f, A, B, C
      <4>1. f[<<a, b>>][k + 1] = b /\ \A i \in 1 .. k : f[<<a, b>>][i] = a[i]
        BY <2>4
      <4>2. f[<<u, v>>][k + 1] = v /\ \A i \in 1 .. k : f[<<u, v>>][i] = u[i]
        BY <2>4
      <4> QED BY <4>1, <4>2, <2>6
    <3>2. a \in [1 .. k -> Int] /\ u \in [1 .. k -> Int]
      BY DEF Cuboid, Vectors
    <3>3. a = u
      <4> DEFINE D == 1 .. k
      <4>1. a \in [D -> Int] /\ u \in [D -> Int] /\ \A i \in D : a[i] = u[i]
        BY <3>1, <3>2
      <4> HIDE DEF D
      <4> QED BY <4>1, SameFunction
    <3> QED BY <3>1, <3>3
  <2>7. f \in [A \X B -> C]
    <3>1. f = [p \in A \X B |-> f[p]]
      OBVIOUS
    <3> HIDE DEF f, A, B, C
    <3>2. \A p \in A \X B : f[p] \in C
      BY <2>4
    <3> QED BY <3>1, <3>2
  <2> HIDE DEF f, A, B, C
  <2>8. f \in Injection(A \X B, C)
    <3>1. ASSUME NEW p \in A \X B, NEW q \in A \X B, f[p] = f[q] PROVE p = q
      <4>1. p = <<p[1], p[2]>> /\ q = <<q[1], q[2]>> /\ p[1] \in A /\ p[2] \in B
            /\ q[1] \in A /\ q[2] \in B
        OBVIOUS
      <4>2. f[<<p[1], p[2]>>] = f[<<q[1], q[2]>>]
        BY <3>1, <4>1
      <4>3. p[1] = q[1] /\ p[2] = q[2]
        BY <4>1, <4>2, <2>6
      <4> QED BY <4>1, <4>3
    <3> QED BY <3>1, <2>7 DEF Injection, IsInjective
  <2>9. f \in Surjection(A \X B, C)
    <3>1. \A c \in C : \E p \in A \X B : f[p] = c
      BY <2>5
    <3> QED BY <3>1, <2>7 DEF Surjection
  <2>10. ExistsBijection(A \X B, C)
    BY <2>8, <2>9 DEF ExistsBijection, Bijection
  <2>11. IsFiniteSet(A) /\ Cardinality(A) = Product(count, 1 .. k)
    BY <2>1 DEF A
  <2>12. IsFiniteSet(A \X B) /\ Cardinality(A \X B) = Cardinality(A) * Cardinality(B)
    BY <2>3, <2>11, FS_Product
  <2>13. IsFiniteSet(C) /\ Cardinality(C) = Cardinality(A \X B)
    BY <2>10, <2>12, FS_Bijection
  <2>14. /\ Product(count, 1 .. k) \in Int
         /\ Product(count, 1 .. k + 1) = d * Product(count, 1 .. k)
    <3> DEFINE S == 1 .. k + 1
    <3>1. k + 1 \in S /\ S \ {k + 1} = 1 .. k /\ S \subseteq 1 .. n
      BY <2>1
    <3>2. IsFiniteSet(S) /\ \A x \in S : count[x] \in Int
      <4>1. k + 1 \in Int /\ 1 \in Int
        BY <2>1
      <4>2. IsFiniteSet(S)
        BY <4>1, FS_Interval
      <4>3. \A x \in 1 .. n : count[x] \in Int
        OBVIOUS
      <4> HIDE DEF S
      <4> QED BY <3>1, <4>2, <4>3
    <3> HIDE DEF S
    <3>3. /\ Product(count, S \ {k + 1}) \in Int
          /\ Product(count, S) = count[k + 1] * Product(count, S \ {k + 1})
      BY <3>1, <3>2, ProductRemove
    <3> QED BY <3>1, <3>3 DEF S, d
  <2>15. Cardinality(C) = Product(count, 1 .. k) * d
    BY <2>3, <2>11, <2>12, <2>13
  <2>16. Cardinality(C) = Product(count, 1 .. k + 1)
    <3> DEFINE v == Product(count, 1 .. k)
    <3>1. v \in Int /\ d \in Nat
      BY <2>2, <2>14
    <3> HIDE DEF v, d
    <3>2. v * d = d * v
      BY <3>1
    <3> QED BY <3>2, <2>14, <2>15 DEF v
  <2> QED BY <2>13, <2>16, <2>11, <2>12 DEF C
<1>3. T = Nat
  <2>1. T \in SUBSET Nat
    OBVIOUS
  <2> HIDE DEF T
  <2> QED BY <1>1, <1>2, <2>1, AllNat
<1>4. m \in Nat /\ m <= n
  OBVIOUS
<1> HIDE DEF Good
<1>5. Good(m)
  BY <1>3, <1>4
<1> QED BY <1>5 DEF Good

\* The first elements of a sequence.
LEMMA Prefix ==
  ASSUME NEW V, NEW n \in Nat, NEW s \in [1 .. n -> V], NEW m \in Nat, 1 .. m \subseteq 1 .. n
  PROVE  /\ SubSeq(s, 1, m) \in [1 .. m -> V] /\ Len(SubSeq(s, 1, m)) = m
         /\ SubSeq(s, 1, m) \in Seq(V)
         /\ \A i \in 1 .. m : SubSeq(s, 1, m)[i] = s[i]
<1>1. 1 \in Int /\ m \in Int /\ \A i \in 1 .. m : s[i] \in V
  OBVIOUS
<1>2. /\ SubSeq(s, 1, m) \in Seq(V)
      /\ Len(SubSeq(s, 1, m)) = IF 1 <= m THEN m - 1 + 1 ELSE 0
      /\ \A i \in 1 .. m - 1 + 1 : SubSeq(s, 1, m)[i] = s[1 + i - 1]
  BY <1>1, SubSeqProperties
<1>3. Len(SubSeq(s, 1, m)) = m /\ m - 1 + 1 = m /\ \A i \in 1 .. m : 1 + i - 1 = i
  BY <1>2
<1> QED BY <1>2, <1>3, LenProperties

-----------------------------------------------------------------------------
(* The rows of a block, one after the other *)

\* A block of the library: coordinates of n dimensions, start to end.
IsBlock(b, n) ==
  /\ b \in [start : Coordinates, end : Coordinates]
  /\ Len(b.start) = n /\ Len(b.end) = n /\ \A i \in 1 .. n : b.start[i] <= b.end[i]

\* The corners and the counts of a block of the library.
LEMMA BlockShape ==
  ASSUME NEW n \in Nat, NEW b, IsBlock(b, n)
  PROVE  /\ b.start \in [1 .. n -> Nat] /\ b.end \in [1 .. n -> Nat]
         /\ Whole(b).start = b.start /\ Whole(b).count \in [1 .. n -> Nat \ {0}]
         /\ \A i \in 1 .. n : Whole(b).count[i] = b.end[i] - b.start[i] + 1
<1>1. b.start \in [1 .. n -> Nat] /\ b.end \in [1 .. n -> Nat]
  BY LenProperties DEF IsBlock, Coordinates
<1>2. \A i \in 1 .. n : b.end[i] - b.start[i] + 1 \in Nat \ {0}
  BY <1>1 DEF IsBlock
<1>3. Whole(b).start = b.start
      /\ Whole(b).count = [i \in 1 .. n |-> b.end[i] - b.start[i] + 1]
  BY <1>1 DEF Whole
<1> QED BY <1>1, <1>2, <1>3

\* Its rows are where all dimensions but the last lie between start and end.
LEMMA RowsOfBlock ==
  ASSUME NEW n \in Nat \ {0}, NEW b, IsBlock(b, n)
  PROVE  /\ RowBox(b) = {r \in Vectors(n - 1) :
                           \A i \in 1 .. n - 1 : b.start[i] <= r[i] /\ r[i] <= b.end[i]}
         /\ RowBox(b) = Cuboid(n - 1, b.start, Whole(b).count)
<1> DEFINE m == n - 1
           lo == SubSeq(b.start, 1, m)
           d == SubSeq(Whole(b).count, 1, m)
<1>1. /\ b.start \in [1 .. n -> Nat] /\ b.end \in [1 .. n -> Nat]
      /\ Whole(b).count \in [1 .. n -> Nat \ {0}]
      /\ \A i \in 1 .. n : Whole(b).count[i] = b.end[i] - b.start[i] + 1
  BY BlockShape
<1>2. n \in Nat /\ m \in Nat /\ 1 .. m \subseteq 1 .. n
  OBVIOUS
<1> HIDE DEF m
<1>3. lo \in [1 .. m -> Nat] /\ \A i \in 1 .. m : lo[i] = b.start[i]
  <2>1. lo \in [1 .. m -> Nat]
    BY <1>1, <1>2, Prefix
  <2>2. \A i \in 1 .. m : lo[i] = b.start[i]
    BY <1>1, <1>2, Prefix
  <2> QED BY <2>1, <2>2
<1>4. d \in [1 .. m -> Nat] /\ \A i \in 1 .. m : d[i] = Whole(b).count[i]
  <2>1. d \in [1 .. m -> Nat \ {0}]
    BY <1>1, <1>2, Prefix
  <2>2. \A i \in 1 .. m : d[i] = Whole(b).count[i]
    BY <1>1, <1>2, Prefix
  <2> HIDE DEF d
  <2> QED BY <2>1, <2>2
<1>5. RowBox(b) = BoxOf(lo, d)
  BY DEF RowBox, IsBlock, m
<1> HIDE DEF lo, d
<1>6. RowBox(b) = Cuboid(m, lo, d)
  BY <1>2, <1>3, <1>4, <1>5, BoxIsCuboid
<1>7. Cuboid(m, lo, d) = Cuboid(m, b.start, Whole(b).count)
  BY <1>3, <1>4 DEF Cuboid
<1>8. ASSUME NEW r \in Vectors(m), NEW i \in 1 .. m
      PROVE  r[i] < b.start[i] + Whole(b).count[i] <=> r[i] <= b.end[i]
  <2>1. r[i] \in Int /\ b.start[i] \in Nat /\ b.end[i] \in Nat
        /\ Whole(b).count[i] = b.end[i] - b.start[i] + 1
    BY <1>1, <1>2 DEF Vectors
  <2> QED BY <2>1
<1> QED BY <1>6, <1>7, <1>8 DEF Cuboid, m

\* The odometer moves on to the very next row, and stops at the last one.
LEMMA NextRowIsNext ==
  ASSUME NEW n \in Nat \ {0}, NEW b, IsBlock(b, n), NEW r \in RowBox(b), Unfinished(r, b) # {}
  PROVE  /\ NextRow(r, b) \in RowBox(b) /\ LessThan(r, NextRow(r, b))
         /\ \A z \in RowBox(b) : ~(LessThan(r, z) /\ LessThan(z, NextRow(r, b)))
<1> DEFINE m == n - 1
           U == Unfinished(r, b)
           k == CHOOSE i \in U : \A j \in U : j <= i
           w == NextRow(r, b)
<1>1. b.start \in [1 .. n -> Nat] /\ b.end \in [1 .. n -> Nat]
  BY BlockShape
<1>2. /\ m \in Nat /\ 1 .. m \subseteq 1 .. n
      /\ \A i \in 1 .. m : /\ b.start[i] \in Int /\ b.end[i] \in Int
                           /\ b.start[i] <= b.end[i]
  BY <1>1 DEF IsBlock
<1>3. \A z \in RowBox(b) : z \in [1 .. m -> Int]
        /\ \A i \in 1 .. m : b.start[i] <= z[i] /\ z[i] <= b.end[i]
  BY RowsOfBlock DEF Vectors
<1>4. U = {i \in 1 .. m : r[i] < b.end[i]}
  BY <1>3 DEF Unfinished
<1> HIDE DEF m, U
<1>5. k \in U /\ \A j \in U : j <= k
  <2>1. U \in SUBSET Int /\ IsFiniteSet(U)
    <3>1. U \in SUBSET (1 .. m) /\ 1 \in Int /\ m \in Int
      BY <1>2, <1>4
    <3> DEFINE D == 1 .. m
    <3>2. IsFiniteSet(D) /\ D \in SUBSET Int
      BY <3>1, FS_Interval
    <3>3. U \in SUBSET D
      BY <3>1
    <3> HIDE DEF D
    <3> QED BY <3>2, <3>3, FS_Subset
  <2>2. Max(U) \in U /\ \A j \in U : j <= Max(U)
    BY <2>1, MaxOfSet DEF U
  <2> QED BY <2>2
<1>6. w = [i \in 1 .. m |-> IF i < k THEN r[i] ELSE IF i = k THEN r[i] + 1 ELSE b.start[i]]
  BY <1>3 DEF NextRow, U
<1> HIDE DEF k, w
<1>7. k \in 1 .. m /\ r[k] < b.end[k] /\ r[k] \in Int
  BY <1>3, <1>4, <1>5
<1>8. /\ w[k] = r[k] + 1
      /\ \A i \in 1 .. m : i < k => w[i] = r[i]
      /\ \A i \in 1 .. m : k < i => w[i] = b.start[i]
  BY <1>6, <1>7
<1>9. w \in [1 .. m -> Int]
  <2>1. \A i \in 1 .. m : b.start[i] \in Int /\ r[i] \in Int /\ r[i] + 1 \in Int
    BY <1>2, <1>3
  <2> QED BY <1>6, <2>1
<1>10. w \in RowBox(b)
  <2>1. ASSUME NEW i \in 1 .. m PROVE b.start[i] <= w[i] /\ w[i] <= b.end[i]
    <3>1. b.start[i] <= r[i] /\ r[i] <= b.end[i] /\ r[i] \in Int /\ b.start[i] \in Int
          /\ b.end[i] \in Int /\ b.start[i] <= b.end[i] /\ i \in Int /\ k \in Int
      BY <1>2, <1>3, <1>7
    <3>2. i < k \/ i = k \/ k < i
      BY <3>1
    <3> QED BY <3>1, <3>2, <1>7, <1>8
  <2> QED BY <2>1, <1>9, RowsOfBlock DEF Vectors, m
<1>11. LessThan(r, w)
  <2>1. DOMAIN r = 1 .. m /\ r[k] < w[k]
    BY <1>3, <1>7, <1>8
  <2>2. \A j \in 1 .. k - 1 : r[j] = w[j]
    <3>1. \A j \in 1 .. k - 1 : j \in 1 .. m /\ j < k
      BY <1>2, <1>7
    <3> QED BY <3>1, <1>8
  <2> QED BY <1>7, <2>1, <2>2 DEF LessThan
<1>12. ASSUME NEW z \in RowBox(b), LessThan(r, z), LessThan(z, w) PROVE FALSE
  <2>1. DOMAIN r = 1 .. m /\ DOMAIN z = 1 .. m /\ \A i \in 1 .. m : r[i] \in Int /\ z[i] \in Int /\ w[i] \in Int
    BY <1>3, <1>9
  <2>2. PICK i \in 1 .. m : r[i] < z[i] /\ \A j \in 1 .. i - 1 : r[j] = z[j]
    BY <1>12, <2>1 DEF LessThan
  <2>3. PICK l \in 1 .. m : z[l] < w[l] /\ \A j \in 1 .. l - 1 : z[j] = w[j]
    BY <1>12, <2>1 DEF LessThan
  <2>4. i <= k
    <3>1. z[i] <= b.end[i] /\ b.end[i] \in Int
      BY <1>2, <1>3
    <3>2. r[i] < b.end[i]
      BY <2>1, <2>2, <3>1
    <3> QED BY <3>2, <1>4, <1>5
  <2>5. ~(l < i)
    <3> SUFFICES ASSUME l < i PROVE FALSE
      OBVIOUS
    <3>1. l \in 1 .. i - 1 /\ l < k
      BY <2>4, <1>7
    <3>2. z[l] = r[l] /\ w[l] = r[l]
      BY <3>1, <2>2, <1>8
    <3> QED BY <3>2, <2>1, <2>3
  <2>6. w[i] <= z[i]
    <3>1. CASE i < k
      BY <3>1, <1>8, <2>1, <2>2
    <3>2. CASE i = k
      BY <3>2, <1>8, <2>1, <2>2
    <3> QED BY <3>1, <3>2, <2>4, <1>7
  <2>7. l # i
    BY <2>1, <2>3, <2>6
  <2>8. i < l /\ i \in 1 .. l - 1
    BY <2>5, <2>7
  <2>9. z[i] = w[i]
    BY <2>3, <2>8
  <2>10. i = k
    <3>1. ~(i < k)
      <4> SUFFICES ASSUME i < k PROVE FALSE
        OBVIOUS
      <4>1. w[i] = r[i]
        BY <1>8
      <4> QED BY <4>1, <2>1, <2>2, <2>9
    <3> QED BY <3>1, <2>4, <1>7
  <2>11. w[l] = b.start[l] /\ b.start[l] <= z[l] /\ b.start[l] \in Int
    BY <1>2, <1>3, <1>8, <2>8, <2>10
  <2> QED BY <2>1, <2>3, <2>11
<1> QED BY <1>10, <1>11, <1>12 DEF w

\* No row of a block is behind the one that has nothing left to move on.
LEMMA LastRowIsLast ==
  ASSUME NEW n \in Nat \ {0}, NEW b, IsBlock(b, n), NEW r \in RowBox(b), Unfinished(r, b) = {},
         NEW z \in RowBox(b)
  PROVE  ~LessThan(r, z)
<1> DEFINE m == n - 1
<1>1. b.start \in [1 .. n -> Nat] /\ b.end \in [1 .. n -> Nat]
  BY BlockShape
<1>2. /\ m \in Nat /\ 1 .. m \subseteq 1 .. n
      /\ \A i \in 1 .. m : /\ b.start[i] \in Int /\ b.end[i] \in Int
                           /\ b.start[i] <= b.end[i]
  BY <1>1 DEF IsBlock
<1>3. r \in Vectors(m) /\ z \in Vectors(m) /\ \A i \in 1 .. m : r[i] <= b.end[i] /\ z[i] <= b.end[i]
  BY RowsOfBlock
<1> HIDE DEF m
<1>4. ASSUME NEW i \in 1 .. m PROVE z[i] <= r[i]
  <2>1. ~(r[i] < b.end[i])
    BY <1>3 DEF Unfinished, Vectors
  <2>2. r[i] \in Int /\ z[i] \in Int /\ b.end[i] \in Int
    BY <1>1, <1>2, <1>3 DEF Vectors
  <2> QED BY <2>1, <2>2, <1>3
<1> QED BY <1>2, <1>3, <1>4, PointwiseOrder

\* So the rows of a block come all, each once, in order.
LEMMA RowsInOrder ==
  ASSUME NEW n \in Nat \ {0}, NEW b, IsBlock(b, n)
  PROVE  /\ RowBox(b) \in SUBSET Vectors(n - 1) /\ IsFiniteSet(RowBox(b))
         /\ Cardinality(RowBox(b)) = Product(Whole(b).count, 1 .. n - 1)
         /\ Lists(RowsFrom(SubSeq(b.start, 1, n - 1), b), RowBox(b), Lex(RowBox(b)))
         /\ RowsFrom(SubSeq(b.start, 1, n - 1), b) \in Seq(RowBox(b))
         /\ Len(RowsFrom(SubSeq(b.start, 1, n - 1), b)) = Cardinality(RowBox(b))
<1> DEFINE m == n - 1
           S == RowBox(b)
           R == Lex(S)
           N == Cardinality(S)
           first == SubSeq(b.start, 1, m)
           Done(r) == Unfinished(r, b) = {}
           Eq(f) == f = [r \in S |-> <<r>> \o (IF Done(r) THEN <<>> ELSE f[NextRow(r, b)])]
<1>1. m \in Nat /\ n \in Nat /\ m \in 0 .. n /\ 1 .. m \subseteq 1 .. n
  OBVIOUS
<1>2. b.start \in [1 .. n -> Nat] /\ Whole(b).count \in [1 .. n -> Nat]
  BY BlockShape
<1>3. /\ S = Cuboid(m, b.start, Whole(b).count)
      /\ S = {r \in Vectors(m) : \A i \in 1 .. m : b.start[i] <= r[i] /\ r[i] <= b.end[i]}
  BY RowsOfBlock
<1> HIDE DEF m
<1>4. S \in SUBSET Vectors(m) /\ IsFiniteSet(S) /\ N = Product(Whole(b).count, 1 .. m)
  <2>1. /\ IsFiniteSet(Cuboid(m, b.start, Whole(b).count))
        /\ Cardinality(Cuboid(m, b.start, Whole(b).count)) = Product(Whole(b).count, 1 .. m)
    BY <1>1, <1>2, CuboidSize
  <2>2. S \in SUBSET Vectors(m)
    BY <1>3
  <2>3. S = Cuboid(m, b.start, Whole(b).count)
    BY <1>3
  <2> HIDE DEF S
  <2> QED BY <2>1, <2>2, <2>3
<1>5. StrictOrder(R, S) /\ \A x, y \in S : <<x, y>> \in R <=> LessThan(x, y)
  BY <1>1, <1>4, LexStrict
<1>6. \E s : Lists(s, S, R)
  BY <1>1, <1>4, VectorsInOrder
<1>7. PICK s : Lists(s, S, R)
  BY <1>6
<1>8. N \in Nat
  BY <1>4, FS_CardinalityType
<1>9. \A r \in S : ~Done(r) => /\ NextRow(r, b) \in S /\ LessThan(r, NextRow(r, b))
                               /\ \A z \in S : ~(LessThan(r, z) /\ LessThan(z, NextRow(r, b)))
  BY NextRowIsNext
<1>10. \A r, z \in S : Done(r) => ~LessThan(r, z)
  BY LastRowIsLast
<1>11. first \in S /\ \A z \in S : ~LessThan(z, first)
  <2>1. first \in [1 .. m -> Nat]
    BY <1>1, <1>2, Prefix
  <2>2. \A i \in 1 .. m : first[i] = b.start[i]
    BY <1>1, <1>2, Prefix
  <2>3. \A i \in 1 .. m : b.start[i] <= first[i] /\ first[i] <= b.end[i]
    BY <1>1, <1>2, <2>2 DEF IsBlock
  <2> HIDE DEF first
  <2>4. first \in Vectors(m)
    BY <2>1 DEF Vectors
  <2>5. \A z \in S : z \in Vectors(m) /\ \A i \in 1 .. m : first[i] <= z[i]
    BY <1>3, <2>2
  <2> QED BY <1>1, <1>3, <2>3, <2>4, <2>5, PointwiseOrder
<1>12. RowsFrom(first, b) = (CHOOSE f : Eq(f))[first]
  BY DEF RowsFrom
<1> HIDE DEF S, R, N, first, Done
<1>13. s \in [1 .. N -> S] /\ s \in Seq(S) /\ Len(s) = N
  BY <1>7, <1>8 DEF Lists, N
<1>14. \A k, l \in 1 .. N : LessThan(s[k], s[l]) <=> k < l
  <2>1. \A k, l \in 1 .. N : <<s[k], s[l]>> \in R <=> k < l
    BY <1>7 DEF Lists, N
  <2> QED BY <2>1, <1>5, <1>13
<1>15. \A r \in S : \E k \in 1 .. N : s[k] = r
  BY <1>7 DEF Lists, N
<1>16. ASSUME NEW k \in 1 .. N
       PROVE  /\ Done(s[k]) <=> k = N
              /\ k # N => k + 1 \in 1 .. N /\ NextRow(s[k], b) = s[k + 1]
  <2>1. s[k] \in S
    BY <1>13
  <2>2. ASSUME ~Done(s[k]) PROVE k + 1 \in 1 .. N /\ NextRow(s[k], b) = s[k + 1]
    <3> DEFINE y == NextRow(s[k], b)
    <3>1. y \in S /\ <<s[k], y>> \in R /\ \A z \in S : ~(<<s[k], z>> \in R /\ <<z, y>> \in R)
      BY <1>5, <1>9, <2>1, <2>2
    <3> HIDE DEF y
    <3>2. k + 1 \in 1 .. N /\ s[k + 1] = y
      BY <1>4, <1>5, <1>7, <3>1, NextInList DEF N
    <3> QED BY <3>2 DEF y
  <2>3. ASSUME Done(s[k]), k # N PROVE FALSE
    <3>1. k + 1 \in 1 .. N /\ k < k + 1
      BY <1>8, <2>3
    <3>2. LessThan(s[k], s[k + 1]) /\ s[k + 1] \in S
      BY <3>1, <1>13, <1>14
    <3> QED BY <2>1, <2>3, <3>2, <1>10
  <2>4. k = N => ~(k + 1 \in 1 .. N)
    BY <1>8
  <2> QED BY <2>2, <2>3, <2>4
<1> DEFINE from(k) == SubSeq(s, k, N)
<1>17. ASSUME NEW k \in 1 .. N
       PROVE  from(k) = <<s[k]>> \o (IF k = N THEN <<>> ELSE from(k + 1))
  <2>1. k \in 1 .. Len(s) /\ N \in k .. Len(s)
    BY <1>8, <1>13
  <2>2. SubSeq(s, k, N) = <<s[k]>> \o SubSeq(s, k + 1, N)
    BY <1>13, <2>1, SubSeqRecursiveFirst
  <2>3. ASSUME k = N PROVE SubSeq(s, k + 1, N) = <<>>
    <3>1. k + 1 \in Int /\ N \in Int /\ N < k + 1
      BY <1>8, <2>3
    <3> QED BY <3>1, SubSeqEmpty
  <2> QED BY <2>2, <2>3
<1>18. \E f : Eq(f)
  <2> DEFINE idx(r) == CHOOSE k \in 1 .. N : s[k] = r
             f == [r \in S |-> from(idx(r))]
  <2>1. ASSUME NEW k \in 1 .. N PROVE s[k] \in S /\ f[s[k]] = from(k)
    <3>1. s[k] \in S /\ idx(s[k]) \in 1 .. N /\ s[idx(s[k])] = s[k]
      BY <1>13
    <3> DEFINE l == idx(s[k])
    <3>2. l = k
      <4>1. l \in 1 .. N /\ s[l] = s[k]
        BY <3>1
      <4> HIDE DEF l
      <4>2. ~(l < k) /\ ~(k < l)
        <5>1. ~LessThan(s[k], s[k])
          BY <1>14
        <5> QED BY <4>1, <5>1, <1>14
      <4> QED BY <4>1, <4>2
    <3> QED BY <3>1, <3>2
  <2>2. f = [r \in S |-> f[r]]
    <3> HIDE DEF from
    <3> DEFINE e(r) == from(idx(r))
    <3>1. f = [r \in S |-> e(r)]
      OBVIOUS
    <3> HIDE DEF e, f
    <3> QED BY <3>1
  <2> HIDE DEF f, from
  <2>3. ASSUME NEW r \in S
        PROVE  f[r] = <<r>> \o (IF Done(r) THEN <<>> ELSE f[NextRow(r, b)])
    <3>1. PICK k \in 1 .. N : s[k] = r
      BY <1>15
    <3>2. CASE k = N
      BY <3>1, <3>2, <1>16, <1>17, <2>1
    <3>3. CASE k # N
      <4>1. k + 1 \in 1 .. N /\ NextRow(r, b) = s[k + 1] /\ ~Done(r)
        BY <3>1, <3>3, <1>16
      <4>2. f[r] = from(k) /\ f[NextRow(r, b)] = from(k + 1)
        BY <3>1, <4>1, <2>1
      <4> QED BY <3>1, <3>3, <4>1, <4>2, <1>17
    <3> QED BY <3>2, <3>3
  <2>4. Eq(f)
    BY <2>2, <2>3
  <2> QED BY <2>4
<1> DEFINE g == CHOOSE f : Eq(f)
<1>19. Eq(g)
  <2> HIDE DEF Eq
  <2> QED BY <1>18
<1> HIDE DEF g
<1>20. \A r \in S : g[r] = <<r>> \o (IF Done(r) THEN <<>> ELSE g[NextRow(r, b)])
  <2>1. g = [r \in S |-> <<r>> \o (IF Done(r) THEN <<>> ELSE g[NextRow(r, b)])]
    BY <1>19
  <2> QED BY <2>1, Zenon
<1> HIDE DEF Eq
<1> HIDE DEF from
<1>21. \A k \in 1 .. N : g[s[k]] = from(k)
  <2> DEFINE T == {d \in Nat : d < N => g[s[N - d]] = from(N - d)}
  <2>0. ASSUME NEW k \in 1 .. N, k # N => g[s[k + 1]] = from(k + 1)
        PROVE  g[s[k]] = from(k)
    <3>1. s[k] \in S
      BY <1>13
    <3>2. g[s[k]] = <<s[k]>> \o (IF Done(s[k]) THEN <<>> ELSE g[NextRow(s[k], b)])
      BY <3>1, <1>20
    <3>3. CASE k = N
      BY <3>2, <3>3, <1>16, <1>17
    <3>4. CASE k # N
      BY <3>2, <3>4, <2>0, <1>16, <1>17
    <3> QED BY <3>3, <3>4
  <2>1. 0 \in T
    <3>1. N - 0 = N
      BY <1>8
    <3>2. 0 < N => N \in 1 .. N
      BY <1>8
    <3> QED BY <3>1, <3>2, <2>0
  <2>2. ASSUME NEW d \in T PROVE d + 1 \in T
    <3> SUFFICES ASSUME d + 1 < N PROVE g[s[N - (d + 1)]] = from(N - (d + 1))
      OBVIOUS
    <3>1. N - (d + 1) \in 1 .. N /\ (N - (d + 1)) + 1 = N - d /\ d < N
      BY <1>8
    <3>2. g[s[N - d]] = from(N - d)
      BY <3>1
    <3> QED BY <3>1, <3>2, <2>0
  <2>3. T = Nat
    <3>1. T \in SUBSET Nat
      OBVIOUS
    <3> HIDE DEF T
    <3> QED BY <2>1, <2>2, <3>1, AllNat
  <2> SUFFICES ASSUME NEW k \in 1 .. N PROVE g[s[k]] = from(k)
    OBVIOUS
  <2>4. N - k \in Nat /\ N - (N - k) = k /\ N - k < N
    BY <1>8
  <2>5. N - k \in T
    BY <2>3, <2>4
  <2> QED BY <2>4, <2>5
<1>22. N # 0 /\ s[1] = first
  <2>1. PICK k \in 1 .. N : s[k] = first
    BY <1>11, <1>15
  <2>2. 1 \in 1 .. N /\ s[1] \in S
    BY <1>8, <1>13
  <2>3. ~(1 < k)
    BY <2>1, <2>2, <1>11, <1>14
  <2>4. k = 1
    BY <2>3
  <2> QED BY <2>1, <2>2, <2>4
<1>23. RowsFrom(first, b) = s
  <2>1. 1 \in 1 .. N
    BY <1>8, <1>22
  <2>2. g[first] = from(1)
    BY <2>1, <1>21, <1>22
  <2>3. from(1) = s
    BY <1>13, SubSeqFull DEF from
  <2> QED BY <2>2, <2>3, <1>12 DEF g
<1> QED BY <1>4, <1>7, <1>13, <1>23 DEF S, R, N, m, first

-----------------------------------------------------------------------------
(* Cutting a sequence into groups, and sorting blocks *)

\* Where the groups end, given the set of their last positions.
LastsOf(E) == InOrder(E, <)
Before(lasts, g) == IF g = 1 THEN 0 ELSE lasts[g - 1]

\* The groups of the positions 1 .. N, m of them: lasts holds their last
\* positions, the elements of E.
CutAt(N, E, lasts, m) ==
  /\ DOMAIN lasts = 1 .. m /\ lasts \in [1 .. m -> 1 .. N] /\ lasts[m] = N
  /\ \A g \in 1 .. m :
       /\ Before(lasts, g) \in 0 .. N - 1 /\ Before(lasts, g) < lasts[g] /\ lasts[g] \in E
       /\ g # 1 => Before(lasts, g) \in E
       /\ \A i \in 1 .. N : Before(lasts, g) < i /\ i < lasts[g] => i \notin E
  /\ \A g, h \in 1 .. m : g < h => lasts[g] <= Before(lasts, h)
  /\ \A i \in 1 .. N : \E g \in 1 .. m : Before(lasts, g) < i /\ i <= lasts[g]

\* Every position is in one group.
LEMMA Cuts ==
  ASSUME NEW N \in Nat \ {0}, NEW E \in SUBSET (1 .. N), N \in E
  PROVE  \E m \in 1 .. N : CutAt(N, E, LastsOf(E), m)
<1> DEFINE m == Cardinality(E)
           s == LastsOf(E)
<1>1. IsFiniteSet(E) /\ m \in 1 .. N
  <2> DEFINE D == 1 .. N
  <2>1. IsFiniteSet(D) /\ Cardinality(D) = N
    <3>1. 1 \in Int /\ N \in Int /\ ~(1 > N) /\ N - 1 + 1 = N
      OBVIOUS
    <3> QED BY <3>1, FS_Interval
  <2>2. E \in SUBSET D
    OBVIOUS
  <2> HIDE DEF D
  <2>3. IsFiniteSet(E) /\ m <= N
    BY <2>1, <2>2, FS_Subset
  <2>4. m \in Nat /\ m # 0
    BY <2>3, FS_CardinalityType, FS_EmptySet
  <2> QED BY <2>3, <2>4
<1>2. E \in SUBSET Int
  OBVIOUS
<1>3. Lists(s, E, Less(E))
  BY <1>1, <1>2, NumbersInOrder DEF LastsOf
<1> HIDE DEF m, s
<1>4. s \in [1 .. m -> E]
  BY <1>3 DEF Lists, m
<1>5. \A k, l \in 1 .. m : s[k] < s[l] <=> k < l
  <2>1. \A k, l \in 1 .. m : <<s[k], s[l]>> \in Less(E) <=> k < l
    BY <1>3 DEF Lists, m
  <2> QED BY <2>1, <1>4 DEF Less
<1>6. \A x \in E : \E k \in 1 .. m : s[k] = x
  BY <1>3 DEF Lists, m
<1>7. \A k \in 1 .. m : s[k] \in 1 .. N /\ s[k] \in Nat
  <2>1. \A k \in 1 .. m : s[k] \in E
    BY <1>4
  <2>2. \A x \in E : x \in 1 .. N /\ x \in Nat
    OBVIOUS
  <2> QED BY <2>1, <2>2
<1>8. \A k, l \in 1 .. m : k <= l => s[k] <= s[l]
  <2> SUFFICES ASSUME NEW k \in 1 .. m, NEW l \in 1 .. m, k <= l PROVE s[k] <= s[l]
    OBVIOUS
  <2>1. ~(l < k) /\ s[k] \in Nat /\ s[l] \in Nat
    BY <1>1, <1>7
  <2> QED BY <2>1, <1>5
<1>9. s[m] = N
  <2>1. PICK k \in 1 .. m : s[k] = N
    BY <1>6
  <2>2. s[k] <= s[m] /\ s[m] <= N /\ s[m] \in Nat
    BY <1>1, <1>7, <1>8
  <2> QED BY <2>1, <2>2
<1>10. ASSUME NEW g \in 1 .. m
       PROVE  /\ Before(s, g) \in 0 .. N - 1 /\ Before(s, g) < s[g] /\ s[g] \in E
              /\ g # 1 => Before(s, g) \in E
              /\ \A i \in 1 .. N : Before(s, g) < i /\ i < s[g] => i \notin E
  <2>1. CASE g = 1
    <3>1. Before(s, g) = 0
      BY <2>1 DEF Before
    <3>2. ASSUME NEW i \in 1 .. N, i < s[g], i \in E PROVE FALSE
      <4>1. PICK k \in 1 .. m : s[k] = i
        BY <3>2, <1>6
      <4>2. k < g
        BY <3>2, <4>1, <1>5
      <4> QED BY <2>1, <4>2
    <3>3. s[g] \in 1 .. N /\ s[g] \in E
      BY <1>4
    <3> QED BY <2>1, <3>1, <3>2, <3>3
  <2>2. CASE g # 1
    <3>1. g - 1 \in 1 .. m /\ g - 1 < g
      BY <1>1, <2>2
    <3>2. Before(s, g) = s[g - 1]
      BY <2>2 DEF Before
    <3>3. s[g - 1] < s[g] /\ s[g - 1] \in 1 .. N /\ s[g] \in 1 .. N /\ s[g - 1] \in E /\ s[g] \in E
      BY <3>1, <1>4, <1>5
    <3>4. ASSUME NEW i \in 1 .. N, s[g - 1] < i, i < s[g], i \in E PROVE FALSE
      <4>1. PICK k \in 1 .. m : s[k] = i
        BY <3>4, <1>6
      <4>2. k < g /\ g - 1 < k
        BY <3>1, <3>4, <4>1, <1>5
      <4> QED BY <1>1, <4>2
    <3> QED BY <3>2, <3>3, <3>4
  <2> QED BY <2>1, <2>2
<1>11. ASSUME NEW g \in 1 .. m, NEW h \in 1 .. m, g < h PROVE s[g] <= Before(s, h)
  <2>1. h # 1 /\ h - 1 \in 1 .. m /\ g <= h - 1
    BY <1>1, <1>11
  <2> QED BY <2>1, <1>8 DEF Before
<1>12. ASSUME NEW i \in 1 .. N PROVE \E g \in 1 .. m : Before(s, g) < i /\ i <= s[g]
  <2> DEFINE T == {g \in 1 .. m : i <= s[g]}
  <2>1. T \in SUBSET Nat /\ m \in T
    BY <1>1, <1>9
  <2>2. PICK g \in T : \A h \in T : g <= h
    <3> HIDE DEF T
    <3>1. T # {}
      BY <2>1
    <3> QED BY <2>1, <3>1, LeastNat
  <2>3. Before(s, g) < i
    <3>1. CASE g = 1
      BY <3>1 DEF Before
    <3>2. CASE g # 1
      <4>1. g - 1 \in 1 .. m /\ ~(g <= g - 1)
        BY <1>1, <3>2
      <4>2. ~(i <= s[g - 1])
        BY <4>1, <2>2
      <4>3. s[g - 1] \in Nat /\ Before(s, g) = s[g - 1]
        BY <4>1, <1>7, <3>2 DEF Before
      <4> QED BY <4>2, <4>3
    <3> QED BY <3>1, <3>2
  <2> QED BY <2>3
<1>13. s \in [1 .. m -> 1 .. N] /\ DOMAIN s = 1 .. m
  BY <1>4
<1> QED BY <1>1, <1>9, <1>10, <1>11, <1>12, <1>13 DEF s, CutAt

\* The groups of blocks follow one another.
LEMMA GroupsFollow ==
  ASSUME NEW V, NEW blocks \in Seq(V), Len(blocks) # 0
  PROVE  \E m \in 1 .. Len(blocks) : \E s \in [1 .. m -> 1 .. Len(blocks)] :
           /\ GroupsOf(blocks) = [g \in 1 .. m |-> SubSeq(blocks, Before(s, g) + 1, s[g])]
           /\ \A g \in 1 .. m : Before(s, g) \in 0 .. Len(blocks) - 1 /\ Before(s, g) < s[g]
           /\ s[m] = Len(blocks)
           /\ \A g \in 1 .. m : EndsGroup(blocks, s[g])
           /\ \A g, h \in 1 .. m : g < h => s[g] <= Before(s, h)
           /\ \A i \in 1 .. Len(blocks) : \E g \in 1 .. m : Before(s, g) < i /\ i <= s[g]
<1> DEFINE N == Len(blocks)
           E == {i \in DOMAIN blocks : EndsGroup(blocks, i)}
           s == LastsOf(E)
<1>1. N \in Nat \ {0} /\ DOMAIN blocks = 1 .. N
  BY LenProperties
<1>2. E \in SUBSET (1 .. N) /\ N \in E /\ \A i \in 1 .. N : i \in E <=> EndsGroup(blocks, i)
  <2>1. E = {i \in 1 .. N : EndsGroup(blocks, i)}
    BY <1>1
  <2>2. EndsGroup(blocks, N) /\ N \in 1 .. N
    BY <1>1 DEF EndsGroup
  <2> HIDE DEF E, N
  <2> QED BY <2>1, <2>2
<1>3. GroupsOf(blocks) = [g \in DOMAIN s |-> SubSeq(blocks, FirstOfGroup(blocks, s[g]), s[g])]
  BY DEF GroupsOf, LastsOf
<1> HIDE DEF E, N
<1>4. PICK m \in 1 .. N : CutAt(N, E, s, m)
  BY <1>1, <1>2, Cuts
<1> HIDE DEF s
<1>5. CutAt(N, E, s, m)
  BY <1>4
<1> USE DEF CutAt
<1>6. ASSUME NEW g \in 1 .. m PROVE FirstOfGroup(blocks, s[g]) = Before(s, g) + 1
  <2> DEFINE i == s[g]
             p == Before(s, g)
             Is(j) == /\ \A k \in j .. i - 1 : ~EndsGroup(blocks, k)
                      /\ j = 1 \/ EndsGroup(blocks, j - 1)
  <2>1. /\ i \in 1 .. N /\ p \in 0 .. N - 1 /\ p < i /\ (p # 0 => EndsGroup(blocks, p))
        /\ \A k \in 1 .. N : p < k /\ k < i => ~EndsGroup(blocks, k)
    <3>1. g # 1 => p \in 1 .. N /\ EndsGroup(blocks, p)
      BY <1>2, <1>5
    <3>2. g = 1 => p = 0
      BY DEF Before
    <3> QED BY <1>1, <1>2, <1>5, <3>1, <3>2
  <2> HIDE DEF i, p
  <2>2. p + 1 \in 1 .. i /\ Is(p + 1)
    <3>1. \A k \in p + 1 .. i - 1 : k \in 1 .. N /\ p < k /\ k < i
      BY <1>1, <2>1
    <3>2. p + 1 = 1 \/ EndsGroup(blocks, (p + 1) - 1)
      BY <1>1, <2>1
    <3> QED BY <1>1, <2>1, <3>1, <3>2
  <2>3. ASSUME NEW j \in 1 .. i, Is(j) PROVE j = p + 1
    <3>1. ~(j < p + 1)
      <4> SUFFICES ASSUME j < p + 1 PROVE FALSE
        OBVIOUS
      <4>1. p \in j .. i - 1 /\ p # 0
        BY <1>1, <2>1
      <4> QED BY <4>1, <2>1, <2>3
    <3>2. ~(p + 1 < j)
      <4> SUFFICES ASSUME p + 1 < j PROVE FALSE
        OBVIOUS
      <4>1. j # 1 /\ j - 1 \in 1 .. N /\ p < j - 1 /\ j - 1 < i
        BY <1>1, <2>1
      <4> QED BY <4>1, <2>1, <2>3
    <3> QED BY <2>1, <3>1, <3>2
  <2>4. FirstOfGroup(blocks, i) = CHOOSE j \in 1 .. i : Is(j)
    BY DEF FirstOfGroup
  <2> HIDE DEF Is
  <2>5. FirstOfGroup(blocks, i) = p + 1
    BY <2>2, <2>3, <2>4
  <2> QED BY <2>5 DEF i, p
<1>7. GroupsOf(blocks) = [g \in 1 .. m |-> SubSeq(blocks, Before(s, g) + 1, s[g])]
  BY <1>3, <1>5, <1>6
<1>8. \A g \in 1 .. m : EndsGroup(blocks, s[g])
  BY <1>2, <1>5
<1> QED BY <1>5, <1>7, <1>8 DEF N

\* The positions of a sequence sorted by an order are listed by that order.
IsOrder(N, idx, R) ==
  /\ idx \in [1 .. N -> 1 .. N]
  /\ \A k, l \in 1 .. N : <<idx[k], idx[l]>> \in R <=> k < l
  /\ \A k, l \in 1 .. N : idx[k] = idx[l] => k = l
  /\ \A x \in 1 .. N : \E k \in 1 .. N : idx[k] = x

\* A listing of the positions 1 .. N by an order has each of them once.
LEMMA PositionsInOrder ==
  ASSUME NEW N \in Nat, NEW R, StrictOrder(R, 1 .. N), NEW idx, Lists(idx, 1 .. N, R)
  PROVE  IsOrder(N, idx, R)
<1> DEFINE D == 1 .. N
<1>1. Cardinality(D) = N
  <2>1. 1 \in Int /\ N \in Int /\ (1 > N => N = 0) /\ N - 1 + 1 = N
    OBVIOUS
  <2> QED BY <2>1, FS_Interval
<1>2. /\ idx \in [1 .. N -> D]
      /\ \A k, l \in 1 .. N : <<idx[k], idx[l]>> \in R <=> k < l
      /\ \A x \in D : \E k \in 1 .. N : idx[k] = x
      /\ \A x \in D : <<x, x>> \notin R
  BY <1>1 DEF Lists, StrictOrder
<1>3. ASSUME NEW k \in 1 .. N, NEW l \in 1 .. N, idx[k] = idx[l] PROVE k = l
  <2>1. ~(k < l) /\ ~(l < k)
    BY <1>2, <1>3
  <2> QED BY <2>1
<1> QED BY <1>2, <1>3 DEF IsOrder

\* Blocks sorted by start, those of the same start in the order they came in.
StartOrder(s) ==
  {p \in (DOMAIN s) \X (DOMAIN s) :
     \/ LessThan(s[p[1]].start, s[p[2]].start)
     \/ s[p[1]].start = s[p[2]].start /\ p[1] < p[2]}

\* SortBlocks lists the blocks by their start, each once.
LEMMA BlocksSorted ==
  ASSUME NEW n \in Nat, NEW N \in Nat, NEW s, DOMAIN s = 1 .. N,
         \A i \in 1 .. N : s[i].start \in Vectors(n)
  PROVE  \E idx : /\ IsOrder(N, idx, StartOrder(s))
                  /\ SortBlocks(s) = [i \in 1 .. N |-> s[idx[i]]]
                  /\ \A k, l \in 1 .. N : k < l =>
                       ~LessThan(s[idx[l]].start, s[idx[k]].start)
<1> DEFINE S == 1 .. N
           R == StartOrder(s)
           before(l, r) == \/ LessThan(s[l].start, s[r].start)
                           \/ s[l].start = s[r].start /\ l < r
           idx == [k \in 1 .. Cardinality(S) |->
                     CHOOSE x \in S : Cardinality({y \in S : before(y, x)}) = k - 1]
<1>1. \A x, y \in S : <<x, y>> \in R <=> before(x, y)
  BY DEF StartOrder
<1>2. IsFiniteSet(S)
  BY FS_Interval
<1>3. StrictOrder(R, S)
  <2>1. ASSUME NEW x \in S PROVE ~before(x, x)
    BY LexOrder
  <2>2. ASSUME NEW x \in S, NEW y \in S, NEW z \in S, before(x, y), before(y, z)
        PROVE  before(x, z)
    <3>1. s[x].start \in Vectors(n) /\ s[y].start \in Vectors(n) /\ s[z].start \in Vectors(n)
      OBVIOUS
    <3>2. LessThan(s[x].start, s[y].start) /\ LessThan(s[y].start, s[z].start)
            => LessThan(s[x].start, s[z].start)
      BY <3>1, LexOrder
    <3> QED BY <2>2, <3>2
  <2>3. ASSUME NEW x \in S, NEW y \in S PROVE x = y \/ before(x, y) \/ before(y, x)
    <3>1. s[x].start \in Vectors(n) /\ s[y].start \in Vectors(n)
      OBVIOUS
    <3>2. \/ s[x].start = s[y].start \/ LessThan(s[x].start, s[y].start)
          \/ LessThan(s[y].start, s[x].start)
      BY <3>1, LexOrder
    <3> QED BY <3>2
  <2> HIDE DEF before
  <2> QED BY <1>1, <2>1, <2>2, <2>3 DEF StrictOrder
<1>4. SortBlocks(s) = [i \in 1 .. N |-> s[idx[i]]]
  BY DEF SortBlocks, InOrder
<1>5. \A x \in S : {y \in S : before(y, x)} = Below(R, S, x)
  <2> HIDE DEF before, R, S
  <2> QED BY <1>1 DEF Below
<1> HIDE DEF R, before
<1>6. ASSUME NEW k \in 1 .. Cardinality(S)
      PROVE  idx[k] \in S /\ Cardinality(Below(R, S, idx[k])) = k - 1
  <2>0. idx[k] = CHOOSE x \in S : Cardinality({y \in S : before(y, x)}) = k - 1
    OBVIOUS
  <2> HIDE DEF S, idx
  <2>1. \E x \in S : Cardinality({y \in S : before(y, x)}) = k - 1
    <3>1. PICK x \in S : Cardinality(Below(R, S, x)) = k - 1
      BY <1>2, <1>3, EveryRank
    <3>2. Cardinality({y \in S : before(y, x)}) = k - 1
      BY <3>1, <1>5
    <3> QED BY <3>2
  <2>2. idx[k] \in S /\ Cardinality({y \in S : before(y, idx[k])}) = k - 1
    BY <2>0, <2>1
  <2> QED BY <2>2, <1>5
<1>7. idx = [k \in 1 .. Cardinality(S) |-> idx[k]]
  <2> DEFINE D == 1 .. Cardinality(S)
             e(k) == CHOOSE x \in S : Cardinality({y \in S : before(y, x)}) = k - 1
  <2>1. idx = [k \in D |-> e(k)]
    OBVIOUS
  <2> HIDE DEF D, e, idx
  <2>2. idx = [k \in D |-> idx[k]]
    BY <2>1
  <2> QED BY <2>2 DEF D
<1> HIDE DEF idx
<1>8. Lists(idx, S, R)
  <2> HIDE DEF S
  <2> QED BY <1>2, <1>3, <1>6, <1>7, MakesList
<1>9. IsOrder(N, idx, R)
  BY <1>3, <1>8, PositionsInOrder
<1>10. ASSUME NEW k \in 1 .. N, NEW l \in 1 .. N, k < l
       PROVE  ~LessThan(s[idx[l]].start, s[idx[k]].start)
  <2>1. idx[k] \in 1 .. N /\ idx[l] \in 1 .. N /\ <<idx[k], idx[l]>> \in R
    BY <1>9, <1>10 DEF IsOrder
  <2>2. before(idx[k], idx[l])
    BY <1>1, <2>1
  <2>3. s[idx[k]].start \in Vectors(n) /\ s[idx[l]].start \in Vectors(n)
    BY <2>1
  <2> QED BY <2>2, <2>3, LexOrder DEF before
<1> QED BY <1>4, <1>9, <1>10 DEF R

\* An order that agrees with < leaves the positions as they are.
LEMMA SameOrder ==
  ASSUME NEW N \in Nat, NEW idx \in [1 .. N -> 1 .. N],
         \A k, l \in 1 .. N : k < l => idx[k] < idx[l],
         \A x \in 1 .. N : \E k \in 1 .. N : idx[k] = x
  PROVE  \A k \in 1 .. N : idx[k] = k
<1> DEFINE T == {k \in Nat : \A l \in 1 .. N : l <= k => idx[l] = l}
<1>1. T \in SUBSET Nat /\ 0 \in T
  OBVIOUS
<1>2. ASSUME NEW k \in T PROVE k + 1 \in T
  <2>0. k \in Nat /\ \A l \in 1 .. N : l <= k => idx[l] = l
    OBVIOUS
  <2>a. \A l \in 1 .. N : l <= k + 1 => l <= k \/ l = k + 1
    BY <2>0
  <2>b. ASSUME k + 1 \in 1 .. N PROVE idx[k + 1] = k + 1
    <3>1. k + 1 \in 1 .. N /\ \A l \in 1 .. N : l <= k => idx[l] = l
      BY <2>0, <2>b
    <3> HIDE DEF T
    <3>2. PICK x \in 1 .. N : idx[x] = k + 1
      BY <3>1
    <3>3. ~(x <= k)
      BY <1>1, <3>1, <3>2
    <3>4. CASE x = k + 1
      BY <3>2, <3>4
    <3>5. CASE k + 1 < x
      <4>1. idx[k + 1] < k + 1 /\ idx[k + 1] \in 1 .. N
        BY <3>1, <3>2, <3>5
      <4>2. idx[idx[k + 1]] = idx[k + 1] /\ idx[k + 1] < k + 1
        BY <1>1, <3>1, <4>1
      <4>3. idx[idx[k + 1]] < idx[k + 1]
        BY <3>1, <4>1
      <4> QED BY <4>1, <4>2, <4>3
    <3> QED BY <1>1, <3>3, <3>4, <3>5
  <2>c. \A l \in 1 .. N : l <= k + 1 => idx[l] = l
    BY <2>0, <2>a, <2>b
  <2> QED BY <2>0, <2>c
<1> HIDE DEF T
<1>3. N \in T
  BY <1>1, <1>2, AllNat
<1> QED BY <1>3 DEF T

\* The blocks of a hyperslab selection, as the library lists them: not empty,
\* of the dimensions of the dataset.
BlockList(bs, n) ==
  /\ bs \in Seq([start : Coordinates, end : Coordinates])
  /\ \A i \in 1 .. Len(bs) : IsBlock(bs[i], n)
  /\ Canonical(bs)

\* The starts and the ends of the blocks ascend.
LEMMA BlocksAscend ==
  ASSUME NEW n \in Nat, NEW bs, BlockList(bs, n), NEW i \in 1 .. Len(bs), NEW j \in 1 .. Len(bs),
         i < j
  PROVE  /\ n # 0
         /\ LessThan(bs[i].start, bs[j].start) /\ LessThan(bs[i].end, bs[j].end)
<1>1. /\ IsBlock(bs[i], n) /\ IsBlock(bs[j], n)
      /\ i \in DOMAIN bs /\ j \in DOMAIN bs
  BY LenProperties DEF BlockList
<1>2. /\ bs[i].start \in [1 .. n -> Nat] /\ bs[i].end \in [1 .. n -> Nat]
      /\ bs[j].start \in [1 .. n -> Nat] /\ bs[j].end \in [1 .. n -> Nat]
      /\ \A d \in 1 .. n : bs[i].start[d] <= bs[i].end[d] /\ bs[j].start[d] <= bs[j].end[d]
  BY <1>1, BlockShape DEF IsBlock
<1>3. PICK d \in 1 .. n : /\ bs[i].end[d] < bs[j].start[d]
                          /\ \A k \in 1 .. d - 1 : /\ bs[i].start[k] = bs[j].start[k]
                                                   /\ bs[i].end[k] = bs[j].end[k]
  <2>1. Canonical(bs) /\ DOMAIN bs[i].start = 1 .. n
    BY <1>2 DEF BlockList
  <2> QED BY <1>1, <2>1 DEF Canonical
<1>4. bs[i].start[d] < bs[j].start[d] /\ bs[i].end[d] < bs[j].end[d]
  <2>1. /\ bs[i].start[d] \in Nat /\ bs[i].end[d] \in Nat /\ bs[j].start[d] \in Nat
        /\ bs[j].end[d] \in Nat /\ bs[i].start[d] <= bs[i].end[d]
        /\ bs[j].start[d] <= bs[j].end[d]
    BY <1>2
  <2> QED BY <1>3, <2>1
<1>5. LessThan(bs[i].start, bs[j].start)
  BY <1>2, <1>3, <1>4 DEF LessThan
<1>6. LessThan(bs[i].end, bs[j].end)
  BY <1>2, <1>3, <1>4 DEF LessThan
<1> QED BY <1>3, <1>5, <1>6

\* The constructor sorts blocks the library lists in this order: nothing moves.
LEMMA SortedAlready ==
  ASSUME NEW n \in Nat, NEW ds, BlockList(ds.blocks, n)
  PROVE  Sorted(ds) = ds.blocks
<1> DEFINE bs == ds.blocks
           N == Len(bs)
           D == 1 .. N
           t == [i \in DOMAIN bs |-> [start |-> bs[i].start, count |-> bs[i].end]]
<1>1. N \in Nat /\ DOMAIN bs = D
  BY LenProperties DEF BlockList
<1>2. DOMAIN t = D /\ \A i \in D : t[i] = [start |-> bs[i].start, count |-> bs[i].end]
  BY <1>1
<1>3. \A i \in D : bs[i] \in [start : Coordinates, end : Coordinates] /\ IsBlock(bs[i], n)
  BY DEF BlockList, IsBlock
<1>4. \A i \in D : bs[i].start \in [1 .. n -> Nat]
  BY <1>3, BlockShape
<1>5. \A i \in D : t[i].start = bs[i].start /\ t[i].start \in Vectors(n)
  BY <1>2, <1>4 DEF Vectors
<1>6. Sorted(ds) = [i \in DOMAIN SortBlocks(t) |-> [start |-> SortBlocks(t)[i].start,
                                                  end |-> SortBlocks(t)[i].count]]
  BY DEF Sorted
<1>7. \A i, j \in D : i < j => LessThan(bs[i].start, bs[j].start)
  BY BlocksAscend
<1>7a. bs = [i \in D |-> bs[i]]
  BY <1>1 DEF BlockList
<1> HIDE DEF t, bs, N
<1>8. PICK idx : /\ IsOrder(N, idx, StartOrder(t)) /\ SortBlocks(t) = [i \in 1 .. N |-> t[idx[i]]]
                 /\ \A k, l \in 1 .. N : k < l => ~LessThan(t[idx[l]].start, t[idx[k]].start)
  BY <1>1, <1>2, <1>5, BlocksSorted
<1>9. /\ idx \in [1 .. N -> 1 .. N] /\ \A x \in 1 .. N : \E k \in 1 .. N : idx[k] = x
      /\ \A k, l \in 1 .. N : idx[k] = idx[l] => k = l
  BY <1>8 DEF IsOrder
<1>10. ASSUME NEW k \in 1 .. N, NEW l \in 1 .. N, k < l PROVE idx[k] < idx[l]
  <2>1. idx[k] \in 1 .. N /\ idx[l] \in 1 .. N /\ idx[k] # idx[l]
    BY <1>1, <1>9, <1>10
  <2>2. ~LessThan(bs[idx[l]].start, bs[idx[k]].start)
    BY <1>5, <1>8, <1>10, <2>1
  <2>3. ~(idx[l] < idx[k])
    BY <1>7, <2>1, <2>2
  <2> QED BY <1>1, <2>1, <2>3
<1>11. \A k \in D : idx[k] = k
  BY <1>1, <1>9, <1>10, SameOrder
<1>12. SortBlocks(t) = [i \in D |-> t[i]]
  BY <1>8, <1>11
<1>13. Sorted(ds) = [i \in D |-> [start |-> bs[i].start, end |-> bs[i].end]]
  BY <1>2, <1>6, <1>12
<1>14. \A i \in D : bs[i] = [start |-> bs[i].start, end |-> bs[i].end]
  BY <1>3
<1> HIDE DEF D
<1> QED BY <1>7a, <1>13, <1>14 DEF bs

-----------------------------------------------------------------------------
(* Breaking blocks into rows *)

\* A selection of n dimensions, as the arrays of H5VL_log_selections hold it.
Sels(n) == {s \in [start : Coordinates, count : Coordinates] : Len(s.start) = n /\ Len(s.count) = n}

\* A start and a count of n coordinates make a selection of n dimensions.
LEMMA SelShape ==
  ASSUME NEW n \in Nat, NEW start \in [1 .. n -> Nat], NEW count \in [1 .. n -> Nat]
  PROVE  [start |-> start, count |-> count] \in Sels(n)
<1>1. start \in Seq(Nat) /\ count \in Seq(Nat) /\ Len(start) = n /\ Len(count) = n
  BY LenProperties
<1> QED BY <1>1 DEF Sels, Coordinates

\* A selection of n dimensions has a start and a count of n coordinates.
LEMMA SelFields ==
  ASSUME NEW n \in Nat, NEW s \in Sels(n)
  PROVE  s.start \in [1 .. n -> Nat] /\ s.count \in [1 .. n -> Nat] /\ s.start \in Vectors(n)
<1>1. s.start \in [1 .. n -> Nat] /\ s.count \in [1 .. n -> Nat]
  BY LenProperties DEF Sels, Coordinates
<1> QED BY <1>1 DEF Vectors

\* The rows of a selection, and where its first one is.
SelRows(n, s) == Cuboid(n - 1, s.start, s.count)
FirstRow(n, s) == SubSeq(s.start, 1, n - 1)

\* One block of a single element for each row.
LEMMA RowBlocksOnce ==
  ASSUME NEW n \in Nat \ {0}, NEW b, IsBlock(b, n)
  PROVE  /\ RowBlocks(b) \in Seq(Sels(n)) /\ Len(RowBlocks(b)) = RowsCounted(b)
         /\ RowsCounted(b) \in Nat
         /\ \A r \in RowBox(b) : \E x \in 1 .. Len(RowBlocks(b)) : FirstRow(n, RowBlocks(b)[x]) = r
         /\ \A x, y \in 1 .. Len(RowBlocks(b)) :
              FirstRow(n, RowBlocks(b)[x]) = FirstRow(n, RowBlocks(b)[y]) => x = y
         /\ \A x \in 1 .. Len(RowBlocks(b)) :
              /\ FirstRow(n, RowBlocks(b)[x]) \in RowBox(b)
              /\ SelRows(n, RowBlocks(b)[x]) = {FirstRow(n, RowBlocks(b)[x])}
              /\ RowBlocks(b)[x].count[n] # 0
<1> DEFINE m == n - 1
           B == RowBox(b)
           rows == RowsFrom(SubSeq(b.start, 1, m), b)
           N == Cardinality(B)
           width == b.end[n] - b.start[n] + 1
           ones == [i \in 1 .. n |-> 1]
           sel(r) == [start |-> Append(rows[r], width), count |-> ones]
<1>1. /\ b.start \in [1 .. n -> Nat] /\ b.end \in [1 .. n -> Nat] /\ Len(b.start) = n
      /\ Whole(b).count \in [1 .. n -> Nat \ {0}] /\ width \in Nat
      /\ \A i \in 1 .. n : Whole(b).count[i] = b.end[i] - b.start[i] + 1
  <2>1. /\ b.start \in [1 .. n -> Nat] /\ b.end \in [1 .. n -> Nat]
        /\ Whole(b).count \in [1 .. n -> Nat \ {0}]
        /\ \A i \in 1 .. n : Whole(b).count[i] = b.end[i] - b.start[i] + 1
    BY BlockShape
  <2>2. n \in 1 .. n /\ Whole(b).count[n] \in Nat
    BY <2>1
  <2> QED BY <2>1, <2>2 DEF IsBlock
<1>2. /\ B \in SUBSET Vectors(m) /\ IsFiniteSet(B) /\ N = Product(Whole(b).count, 1 .. m)
      /\ Lists(rows, B, Lex(B)) /\ rows \in Seq(B) /\ Len(rows) = N
  BY RowsInOrder
<1>3. N \in Nat /\ DOMAIN rows = 1 .. N /\ rows \in [1 .. N -> B]
  BY <1>2, LenProperties DEF Lists
<1>4. RowBlocks(b) = [r \in 1 .. N |-> sel(r)]
  <2>1. RowBlocks(b) = [r \in DOMAIN rows |-> sel(r)]
    BY <1>1 DEF RowBlocks
  <2> QED BY <1>3, <2>1
<1>5. \A r \in B : r \in [1 .. m -> Nat]
  <2> SUFFICES ASSUME NEW r \in B PROVE r \in [1 .. m -> Nat]
    OBVIOUS
  <2>1. r \in [1 .. m -> Int] /\ \A i \in 1 .. m : b.start[i] <= r[i]
    BY RowsOfBlock DEF Vectors
  <2>2. \A i \in 1 .. m : i \in 1 .. n /\ b.start[i] \in Nat /\ r[i] \in Int
    <3>1. \A i \in 1 .. m : i \in 1 .. n
      OBVIOUS
    <3> HIDE DEF m
    <3> QED BY <1>1, <2>1, <3>1
  <2>3. \A i \in 1 .. m : r[i] \in Nat
    BY <2>1, <2>2
  <2> QED BY <2>1, <2>3
<1> HIDE DEF rows, B, N, width
<1>6. ASSUME NEW r \in B
      PROVE  /\ Append(r, width) \in [1 .. n -> Nat] /\ SubSeq(Append(r, width), 1, m) = r
             /\ Cuboid(m, Append(r, width), ones) = {r}
  <2>1. r \in Seq(Nat) /\ Len(r) = m
    BY <1>5, LenProperties
  <2>2. /\ Append(r, width) \in Seq(Nat) /\ Len(Append(r, width)) = n
        /\ \A i \in 1 .. m : Append(r, width)[i] = r[i]
    <3>1. m + 1 = n
      OBVIOUS
    <3> QED BY <1>1, <2>1, <3>1, AppendProperties
  <2>3. Append(r, width) \in [1 .. n -> Nat]
    BY <2>2, LenProperties
  <2>4. SubSeq(Append(r, width), 1, m) = r
    <3> DEFINE t == Append(r, width)
    <3> HIDE DEF t
    <3>1. m \in Nat /\ 1 .. m \subseteq 1 .. n /\ t \in [1 .. n -> Nat]
      BY <2>3 DEF t
    <3>2. SubSeq(t, 1, m) \in [1 .. m -> Nat] /\ \A i \in 1 .. m : SubSeq(t, 1, m)[i] = t[i]
      <4>1. SubSeq(t, 1, m) \in [1 .. m -> Nat]
        BY <3>1, Prefix
      <4>2. \A i \in 1 .. m : SubSeq(t, 1, m)[i] = t[i]
        BY <3>1, Prefix
      <4> QED BY <4>1, <4>2
    <3>3. \A i \in 1 .. m : SubSeq(t, 1, m)[i] = r[i]
      BY <2>2, <3>2 DEF t
    <3> DEFINE D == 1 .. m
    <3>4. r \in [D -> Nat] /\ SubSeq(t, 1, m) \in [D -> Nat] /\ \A i \in D : SubSeq(t, 1, m)[i] = r[i]
      BY <1>5, <3>2, <3>3
    <3> HIDE DEF D
    <3>5. SubSeq(t, 1, m) = r
      BY <3>4, SameFunction
    <3> QED BY <3>5 DEF t
  <2>5. r \in Cuboid(m, Append(r, width), ones)
    <3>1. r \in Vectors(m)
      BY <1>5 DEF Vectors
    <3>2. \A i \in 1 .. m : i \in 1 .. n /\ ones[i] = 1 /\ r[i] \in Nat
      BY <1>5
    <3>3. \A i \in 1 .. m : r[i] <= r[i] /\ r[i] < r[i] + 1
      BY <3>2
    <3> QED BY <2>2, <3>1, <3>2, <3>3 DEF Cuboid
  <2>6. ASSUME NEW c \in Cuboid(m, Append(r, width), ones) PROVE c = r
    <3>1. c \in [1 .. m -> Int] /\ r \in [1 .. m -> Int]
      BY <1>5 DEF Cuboid, Vectors
    <3>2. \A i \in 1 .. m : /\ Append(r, width)[i] <= c[i] /\ c[i] < Append(r, width)[i] + ones[i]
      BY DEF Cuboid
    <3>3. \A i \in 1 .. m : i \in 1 .. n /\ ones[i] = 1 /\ c[i] \in Int /\ r[i] \in Int
      BY <3>1
    <3>4. \A i \in 1 .. m : c[i] = r[i]
      BY <2>2, <3>2, <3>3
    <3> DEFINE D == 1 .. m
    <3>5. c \in [D -> Int] /\ r \in [D -> Int] /\ \A i \in D : c[i] = r[i]
      BY <3>1, <3>4
    <3> HIDE DEF D
    <3> QED BY <3>5, SameFunction
  <2> QED BY <2>3, <2>4, <2>5, <2>6
<1>7. ones \in [1 .. n -> Nat]
  OBVIOUS
<1> HIDE DEF ones
<1>8. RowBlocks(b) \in Seq(Sels(n)) /\ Len(RowBlocks(b)) = N
  <2>1. \A r \in 1 .. N : sel(r) \in Sels(n)
    <3> SUFFICES ASSUME NEW r \in 1 .. N PROVE sel(r) \in Sels(n)
      OBVIOUS
    <3>1. rows[r] \in B
      BY <1>3
    <3>2. Append(rows[r], width) \in [1 .. n -> Nat]
      BY <1>6, <3>1
    <3> QED BY <1>7, <3>2, SelShape
  <2> HIDE DEF sel
  <2>2. RowBlocks(b) \in [1 .. N -> Sels(n)]
    BY <1>4, <2>1
  <2> QED BY <1>3, <2>2, LenProperties
<1>9. N = RowsCounted(b)
  <2> DEFINE c == [i \in 1 .. m |-> b.end[i] - b.start[i] + 1]
  <2>1. RowsCounted(b) = Product(c, DOMAIN c)
    BY <1>1 DEF RowsCounted, Volume, Product
  <2>2. DOMAIN c = 1 .. m /\ IsFiniteSet(1 .. m)
    BY FS_Interval
  <2>3. \A i \in 1 .. m : Whole(b).count[i] \in Int /\ c[i] = Whole(b).count[i]
    <3>1. \A i \in 1 .. m : i \in 1 .. n
      OBVIOUS
    <3> QED BY <1>1, <3>1
  <2> HIDE DEF c
  <2>4. Product(c, 1 .. m) = Product(Whole(b).count, 1 .. m)
    BY <2>2, <2>3, ProductSame
  <2> QED BY <1>2, <2>1, <2>2, <2>4
<1>10. /\ \A r \in B : \E x \in 1 .. N : rows[x] = r
       /\ \A x, y \in 1 .. N : rows[x] = rows[y] => x = y
  <2>1. \A x, y \in 1 .. N : rows[x] = rows[y] => x = y
    <3> SUFFICES ASSUME NEW x \in 1 .. N, NEW y \in 1 .. N, rows[x] = rows[y] PROVE x = y
      OBVIOUS
    <3>1. /\ Cardinality(Below(Lex(B), B, rows[x])) = x - 1
          /\ Cardinality(Below(Lex(B), B, rows[y])) = y - 1
      BY <1>2 DEF Lists, N
    <3> QED BY <3>1
  <2> QED BY <1>2, <2>1 DEF Lists, N
<1>11. \A x \in 1 .. N : /\ FirstRow(n, RowBlocks(b)[x]) = rows[x]
                         /\ SelRows(n, RowBlocks(b)[x]) = {rows[x]}
  <2> SUFFICES ASSUME NEW x \in 1 .. N
               PROVE  /\ FirstRow(n, RowBlocks(b)[x]) = rows[x]
                      /\ SelRows(n, RowBlocks(b)[x]) = {rows[x]}
    OBVIOUS
  <2>1. rows[x] \in B /\ RowBlocks(b)[x] = sel(x)
    BY <1>3, <1>4
  <2>2. RowBlocks(b)[x].start = Append(rows[x], width) /\ RowBlocks(b)[x].count = ones
    BY <2>1
  <2> QED BY <1>6, <2>1, <2>2 DEF FirstRow, SelRows
<1>12. \A x \in 1 .. N : rows[x] \in B /\ RowBlocks(b)[x].count[n] # 0
  <2>1. \A x \in 1 .. N : rows[x] \in B /\ RowBlocks(b)[x].count = ones
    BY <1>3, <1>4
  <2>2. ones[n] = 1
    BY DEF ones
  <2> QED BY <2>1, <2>2
<1> QED BY <1>8, <1>9, <1>10, <1>11, <1>12, <1>3 DEF B

\* The arrays hold each row of each of the blocks once, in the order of the rows:
\* own says of which block the rows of an array are.
HoldsRows(n, arrays, blocks, own) ==
  /\ arrays \in Seq(Sels(n)) /\ own \in [1 .. Len(arrays) -> 1 .. Len(blocks)]
  /\ \A a \in 1 .. Len(arrays) :
       /\ FirstRow(n, arrays[a]) \in RowBox(blocks[own[a]])
       /\ SelRows(n, arrays[a]) \subseteq RowBox(blocks[own[a]])
       /\ arrays[a].count[n] # 0
  /\ \A i \in 1 .. Len(blocks) : \A r \in RowBox(blocks[i]) :
       \E a \in 1 .. Len(arrays) : own[a] = i /\ r \in SelRows(n, arrays[a])
  /\ \A a, c \in 1 .. Len(arrays) :
       own[a] = own[c] /\ SelRows(n, arrays[a]) \cap SelRows(n, arrays[c]) # {} => a = c
  /\ \A a, c \in 1 .. Len(arrays) :
       a < c => ~LessThan(FirstRow(n, arrays[c]), FirstRow(n, arrays[a]))

\* A block that does not interleave with others is kept whole.
LEMMA WholeHolds ==
  ASSUME NEW n \in Nat \ {0}, NEW b, IsBlock(b, n)
  PROVE  /\ HoldsRows(n, <<Whole(b)>>, <<b>>, [a \in 1 .. 1 |-> 1])
         /\ Whole(b) \in Sels(n)
<1> DEFINE w == Whole(b)
           own == [a \in 1 .. 1 |-> 1]
           m == n - 1
<1>1. /\ b.start \in [1 .. n -> Nat] /\ b.end \in [1 .. n -> Nat] /\ w.start = b.start
      /\ w.count \in [1 .. n -> Nat \ {0}] /\ Len(b.start) = n
      /\ \A i \in 1 .. n : b.start[i] <= b.end[i]
  BY BlockShape DEF IsBlock
<1>2. w = [start |-> b.start, count |-> w.count]
  BY DEF Whole
<1>3. w \in Sels(n)
  <2>1. w.count \in [1 .. n -> Nat]
    BY <1>1
  <2> HIDE DEF w
  <2> QED BY <1>1, <1>2, <2>1, SelShape
<1>4. SelRows(n, w) = RowBox(b) /\ w.count[n] # 0
  <2>1. SelRows(n, w) = RowBox(b)
    BY <1>1, RowsOfBlock DEF SelRows
  <2>2. n \in 1 .. n
    OBVIOUS
  <2> HIDE DEF w
  <2> QED BY <1>1, <2>1, <2>2
<1>5. FirstRow(n, w) \in RowBox(b)
  <2>1. FirstRow(n, w) = SubSeq(b.start, 1, m)
    BY <1>1 DEF FirstRow
  <2>2. m \in Nat /\ 1 .. m \subseteq 1 .. n
    OBVIOUS
  <2>3. SubSeq(b.start, 1, m) \in [1 .. m -> Nat]
    BY <1>1, <2>2, Prefix
  <2>4. \A i \in 1 .. m : SubSeq(b.start, 1, m)[i] = b.start[i]
    BY <1>1, <2>2, Prefix
  <2>5. \A i \in 1 .. m : b.start[i] <= b.start[i] /\ b.start[i] <= b.end[i]
    BY <1>1, <2>2
  <2>6. SubSeq(b.start, 1, m) \in Vectors(m)
    BY <2>3 DEF Vectors
  <2>7. \A i \in 1 .. m : /\ b.start[i] <= SubSeq(b.start, 1, m)[i]
                          /\ SubSeq(b.start, 1, m)[i] <= b.end[i]
    BY <2>4, <2>5
  <2>8. RowBox(b) = {r \in Vectors(m) : \A i \in 1 .. m : b.start[i] <= r[i] /\ r[i] <= b.end[i]}
    BY RowsOfBlock
  <2> HIDE DEF m
  <2> QED BY <2>1, <2>6, <2>7, <2>8
<1> HIDE DEF w
<1>6. <<w>> \in Seq(Sels(n)) /\ Len(<<w>>) = 1 /\ Len(<<b>>) = 1 /\ <<w>>[1] = w /\ <<b>>[1] = b
  BY <1>3
<1>7. own \in [1 .. 1 -> 1 .. 1] /\ \A a \in 1 .. 1 : a = 1 /\ own[a] = 1
  OBVIOUS
<1> DEFINE ws == <<w>>
           bs == <<b>>
<1> HIDE DEF own, ws, bs
<1>8. /\ ws \in Seq(Sels(n)) /\ Len(ws) = 1 /\ ws[1] = w /\ Len(bs) = 1 /\ bs[1] = b
  BY <1>6 DEF ws, bs
<1>9. own \in [1 .. Len(ws) -> 1 .. Len(bs)]
  BY <1>7, <1>8
<1>10. \A a \in 1 .. Len(ws) : a = 1 /\ ws[a] = w /\ own[a] = 1 /\ bs[own[a]] = b
  BY <1>7, <1>8
<1>11. \A i \in 1 .. Len(bs) : i = 1 /\ bs[i] = b
  BY <1>8
<1>12. \A i \in 1 .. Len(bs) : \A r \in RowBox(bs[i]) :
         \E a \in 1 .. Len(ws) : own[a] = i /\ r \in SelRows(n, ws[a])
  <2>1. 1 \in 1 .. Len(ws)
    BY <1>8
  <2> QED BY <1>4, <1>10, <1>11, <2>1
<1>13. \A a, c \in 1 .. Len(ws) : a = c /\ ~(a < c)
  BY <1>10
<1>14. HoldsRows(n, ws, bs, own)
  BY <1>4, <1>5, <1>8, <1>9, <1>10, <1>12, <1>13 DEF HoldsRows
<1> QED BY <1>3, <1>14 DEF own, w, ws, bs

\* The blocks of a group that interleave are broken into rows, which are sorted.
LEMMA BrokenHolds ==
  ASSUME NEW n \in Nat \ {0}, NEW bs \in Seq([start : Coordinates, end : Coordinates]),
         \A i \in 1 .. Len(bs) : IsBlock(bs[i], n),
         NEW q \in Seq(Seq(Sels(n))), Len(q) = Len(bs),
         \A j \in 1 .. Len(bs) : q[j] = RowBlocks(bs[j])
  PROVE  /\ \E own : HoldsRows(n, SortBlocks(FlattenSeq(q)), bs, own)
         /\ Len(SortBlocks(FlattenSeq(q))) = SumFunction([j \in DOMAIN bs |-> RowsCounted(bs[j])])
<1> DEFINE L == Len(bs)
           F == FlattenSeq(q)
           N == Len(F)
           G == SortBlocks(F)
           m == n - 1
<1>1. L \in Nat /\ DOMAIN bs = 1 .. L
  BY LenProperties
<1>2. q \in Seq(Seq(Sels(n))) /\ Len(q) = L
  OBVIOUS
<1>3. \A j \in 1 .. L : q[j] = RowBlocks(bs[j]) /\ Len(q[j]) = RowsCounted(bs[j])
                          /\ RowsCounted(bs[j]) \in Nat
  BY <1>1, RowBlocksOnce
<1>4. /\ F \in Seq(Sels(n)) /\ N = EndOf(q, L)
      /\ \A i \in 1 .. L : \A j \in 1 .. Len(q[i]) : F[EndOf(q, i - 1) + j] = q[i][j]
  <2>1. FlattenSeq(q) \in Seq(Sels(n)) /\ Len(FlattenSeq(q)) = EndOf(q, Len(q))
    BY <1>2, Flatten
  <2>2. \A i \in 1 .. Len(q) : \A j \in 1 .. Len(q[i]) : FlattenSeq(q)[EndOf(q, i - 1) + j] = q[i][j]
    <3> SUFFICES ASSUME NEW i \in 1 .. Len(q), NEW j \in 1 .. Len(q[i])
                 PROVE  FlattenSeq(q)[EndOf(q, i - 1) + j] = q[i][j]
      OBVIOUS
    <3> QED BY <1>2, Flatten
  <2> HIDE DEF L
  <2> QED BY <1>2, <2>1, <2>2
<1>5. N \in Nat /\ DOMAIN F = 1 .. N /\ \A k \in 1 .. N : F[k] \in Sels(n)
  BY <1>4, LenProperties, ElementOfSeq
<1>6. \A k \in 1 .. N : F[k].start \in [1 .. n -> Nat] /\ F[k].start \in Vectors(n)
  BY <1>5, SelFields
<1> HIDE DEF F, N, G, L
<1>7. PICK idx : /\ IsOrder(N, idx, StartOrder(F)) /\ G = [i \in 1 .. N |-> F[idx[i]]]
                 /\ \A k, l \in 1 .. N : k < l => ~LessThan(F[idx[l]].start, F[idx[k]].start)
  BY <1>5, <1>6, BlocksSorted DEF G
<1>8. /\ idx \in [1 .. N -> 1 .. N]
      /\ \A k, l \in 1 .. N : idx[k] = idx[l] => k = l
      /\ \A x \in 1 .. N : \E k \in 1 .. N : idx[k] = x
  BY <1>7 DEF IsOrder
<1>9. G \in Seq(Sels(n)) /\ Len(G) = N
  <2>1. G \in [1 .. N -> Sels(n)]
    BY <1>5, <1>7, <1>8
  <2> QED BY <1>5, <2>1, LenProperties
\* The block an array is of, and which of its rows it is.
<1>10. \E own, row : /\ own \in [1 .. N -> 1 .. L]
                     /\ \A a \in 1 .. N : /\ row[a] \in 1 .. Len(q[own[a]])
                                          /\ idx[a] = EndOf(q, own[a] - 1) + row[a]
  <2> DEFINE owner(a) == CHOOSE i \in 1 .. L : \E x \in 1 .. Len(q[i]) : idx[a] = EndOf(q, i - 1) + x
             own == [a \in 1 .. N |-> owner(a)]
             row == [a \in 1 .. N |-> CHOOSE x \in 1 .. Len(q[own[a]]) : idx[a] = EndOf(q, own[a] - 1) + x]
  <2>1. ASSUME NEW a \in 1 .. N
        PROVE  own[a] \in 1 .. L /\ \E x \in 1 .. Len(q[own[a]]) : idx[a] = EndOf(q, own[a] - 1) + x
    <3>1. idx[a] \in 1 .. EndOf(q, Len(q))
      BY <1>2, <1>4, <1>8
    <3>2. \E i \in 1 .. L : \E x \in 1 .. Len(q[i]) : idx[a] = EndOf(q, i - 1) + x
      BY <1>2, <3>1, PieceOf
    <3>3. own[a] = CHOOSE i \in 1 .. L : \E x \in 1 .. Len(q[i]) : idx[a] = EndOf(q, i - 1) + x
      OBVIOUS
    <3> HIDE DEF own
    <3> QED BY <3>2, <3>3
  <2>2. own \in [1 .. N -> 1 .. L]
    <3>1. \A a \in 1 .. N : owner(a) \in 1 .. L
      BY <2>1
    <3> HIDE DEF owner
    <3> QED BY <3>1
  <2>3. ASSUME NEW a \in 1 .. N
        PROVE  row[a] \in 1 .. Len(q[own[a]]) /\ idx[a] = EndOf(q, own[a] - 1) + row[a]
    <3> HIDE DEF own
    <3>1. row[a] = CHOOSE x \in 1 .. Len(q[own[a]]) : idx[a] = EndOf(q, own[a] - 1) + x
      OBVIOUS
    <3> HIDE DEF row
    <3> QED BY <2>1, <3>1
  <2> HIDE DEF own, row
  <2> QED BY <2>2, <2>3
<1>11. PICK own, row : /\ own \in [1 .. N -> 1 .. L]
                       /\ \A a \in 1 .. N : /\ row[a] \in 1 .. Len(q[own[a]])
                                            /\ idx[a] = EndOf(q, own[a] - 1) + row[a]
  BY <1>10
<1>12. \A a \in 1 .. N : own[a] \in 1 .. L /\ G[a] = q[own[a]][row[a]]
  <2> SUFFICES ASSUME NEW a \in 1 .. N PROVE own[a] \in 1 .. L /\ G[a] = q[own[a]][row[a]]
    OBVIOUS
  <2>1. own[a] \in 1 .. L /\ row[a] \in 1 .. Len(q[own[a]]) /\ idx[a] = EndOf(q, own[a] - 1) + row[a]
    BY <1>11
  <2>2. F[EndOf(q, own[a] - 1) + row[a]] = q[own[a]][row[a]]
    BY <1>4, <2>1
  <2> QED BY <1>7, <2>1, <2>2
\* The arrays of one block have its rows.
<1>12a. ASSUME NEW i \in 1 .. L
        PROVE  /\ \A r \in RowBox(bs[i]) : \E x \in 1 .. Len(q[i]) : FirstRow(n, q[i][x]) = r
               /\ \A x, y \in 1 .. Len(q[i]) : FirstRow(n, q[i][x]) = FirstRow(n, q[i][y]) => x = y
               /\ \A x \in 1 .. Len(q[i]) : /\ FirstRow(n, q[i][x]) \in RowBox(bs[i])
                                            /\ SelRows(n, q[i][x]) = {FirstRow(n, q[i][x])}
                                            /\ q[i][x].count[n] # 0
  <2> DEFINE p == RowBlocks(bs[i])
             B == RowBox(bs[i])
  <2>1. q[i] = p /\ IsBlock(bs[i], n)
    BY <1>3 DEF L
  <2>2. \A r \in B : \E x \in 1 .. Len(p) : FirstRow(n, p[x]) = r
    BY <2>1, RowBlocksOnce
  <2>3. \A x, y \in 1 .. Len(p) : FirstRow(n, p[x]) = FirstRow(n, p[y]) => x = y
    BY <2>1, RowBlocksOnce
  <2>4. \A x \in 1 .. Len(p) : /\ FirstRow(n, p[x]) \in B /\ p[x].count[n] # 0
                               /\ SelRows(n, p[x]) = {FirstRow(n, p[x])}
    BY <2>1, RowBlocksOnce
  <2> HIDE DEF p
  <2> QED BY <2>1, <2>2, <2>3, <2>4
<1>13. ASSUME NEW a \in 1 .. N
       PROVE  /\ FirstRow(n, G[a]) \in RowBox(bs[own[a]])
              /\ SelRows(n, G[a]) = {FirstRow(n, G[a])}
              /\ SelRows(n, G[a]) \subseteq RowBox(bs[own[a]])
              /\ G[a].count[n] # 0
  <2>1. own[a] \in 1 .. L /\ row[a] \in 1 .. Len(q[own[a]]) /\ G[a] = q[own[a]][row[a]]
    BY <1>11, <1>12
  <2> DEFINE i == own[a]
             x == row[a]
  <2>2. i \in 1 .. L /\ x \in 1 .. Len(q[i]) /\ G[a] = q[i][x]
    BY <2>1
  <2> HIDE DEF i, x
  <2>3. /\ FirstRow(n, q[i][x]) \in RowBox(bs[i]) /\ q[i][x].count[n] # 0
        /\ SelRows(n, q[i][x]) = {FirstRow(n, q[i][x])}
    BY <1>12a, <2>2
  <2> QED BY <2>2, <2>3 DEF i
<1>14. ASSUME NEW i \in 1 .. L, NEW r \in RowBox(bs[i])
       PROVE  \E a \in 1 .. N : own[a] = i /\ r \in SelRows(n, G[a])
  <2>1. PICK x \in 1 .. Len(q[i]) : FirstRow(n, q[i][x]) = r
    BY <1>12a
  <2>2. EndOf(q, i - 1) + x \in 1 .. N
    BY <1>2, <1>4, PieceOrder
  <2>3. PICK a \in 1 .. N : idx[a] = EndOf(q, i - 1) + x
    BY <1>8, <2>2
  <2> DEFINE k == own[a]
             y == row[a]
  <2>4. k \in 1 .. Len(q) /\ i \in 1 .. Len(q) /\ y \in 1 .. Len(q[k]) /\ EndOf(q, k - 1) + y = EndOf(q, i - 1) + x
    BY <1>2, <1>11, <2>3
  <2> HIDE DEF k, y
  <2>5. k = i /\ y = x
    BY <1>2, <2>4, OnePiece
  <2>6. own[a] = i /\ row[a] = x
    BY <2>4, <2>5 DEF k, y
  <2>7. FirstRow(n, G[a]) = r
    BY <1>12, <2>1, <2>6
  <2> QED BY <1>13, <2>6, <2>7
<1>15. ASSUME NEW a \in 1 .. N, NEW c \in 1 .. N, own[a] = own[c],
              SelRows(n, G[a]) \cap SelRows(n, G[c]) # {}
       PROVE  a = c
  <2>1. FirstRow(n, G[a]) = FirstRow(n, G[c])
    BY <1>13, <1>15
  <2>2. row[a] = row[c]
    <3>1. /\ own[a] \in 1 .. L /\ row[a] \in 1 .. Len(q[own[a]]) /\ row[c] \in 1 .. Len(q[own[a]])
          /\ G[a] = q[own[a]][row[a]] /\ G[c] = q[own[a]][row[c]]
      BY <1>11, <1>12, <1>15
    <3> QED BY <1>12a, <2>1, <3>1
  <2>3. idx[a] = idx[c]
    BY <1>11, <1>15, <2>2
  <2> QED BY <1>8, <2>3
<1>16. ASSUME NEW a \in 1 .. N, NEW c \in 1 .. N, a < c
       PROVE  ~LessThan(FirstRow(n, G[c]), FirstRow(n, G[a]))
  <2>1. idx[a] \in 1 .. N /\ idx[c] \in 1 .. N /\ G[a] = F[idx[a]] /\ G[c] = F[idx[c]]
    BY <1>7, <1>8
  <2>2. G[a].start \in [1 .. n -> Nat] /\ G[c].start \in [1 .. n -> Nat]
    BY <1>6, <2>1
  <2>3. ~LessThan(G[c].start, G[a].start)
    BY <1>7, <1>16, <2>1
  <2>4. DOMAIN G[a].start = 1 .. n /\ DOMAIN G[c].start = 1 .. n /\ m \in 0 .. n
    BY <2>2
  <2>5. LessThan(SubSeq(G[c].start, 1, m), SubSeq(G[a].start, 1, m)) => LessThan(G[c].start, G[a].start)
    <3> HIDE DEF m
    <3> QED BY <2>4, RowOrder
  <2> QED BY <2>3, <2>5 DEF FirstRow
<1>17. HoldsRows(n, G, bs, own)
  BY <1>9, <1>11, <1>13, <1>14, <1>15, <1>16 DEF HoldsRows, L
<1>18. N = SumFunction([j \in DOMAIN bs |-> RowsCounted(bs[j])])
  <2> DEFINE f == [j \in DOMAIN bs |-> RowsCounted(bs[j])]
  <2>1. SumFunction(f) = SumFunctionOnSet(f, 1 .. L)
    BY <1>1 DEF SumFunction
  <2>2. DOMAIN LengthsOf(q) = 1 .. L /\ \A j \in 1 .. L : LengthsOf(q)[j] = Len(q[j])
    BY <1>1, <1>2, LenProperties DEF LengthsOf
  <2>3. \A j \in 1 .. L : f[j] \in Int /\ LengthsOf(q)[j] = f[j]
    <3>1. \A j \in 1 .. L : f[j] = RowsCounted(bs[j])
      BY <1>1
    <3> HIDE DEF f
    <3> QED BY <1>3, <2>2, <3>1
  <2> HIDE DEF f
  <2>4. IsFiniteSet(1 .. L)
    <3>1. 1 \in Int /\ L \in Int
      BY <1>1
    <3> QED BY <3>1, FS_Interval
  <2>5. SumFunctionOnSet(LengthsOf(q), 1 .. L) = SumFunctionOnSet(f, 1 .. L)
    BY <2>3, <2>4, SumSame
  <2> QED BY <1>4, <2>1, <2>5 DEF EndOf, f
<1> QED BY <1>9, <1>17, <1>18 DEF G, F

\* The rows of blocks before the end of a group do not come behind rows of blocks
\* behind it.
LEMMA RowsFollow ==
  ASSUME NEW n \in Nat \ {0}, NEW bs, BlockList(bs, n),
         NEW i \in 1 .. Len(bs), NEW k \in 1 .. Len(bs), NEW l \in 1 .. Len(bs), i <= k, k < l,
         EndsGroup(bs, k), NEW r \in RowBox(bs[i]), NEW w \in RowBox(bs[l])
  PROVE  ~LessThan(w, r)
<1> DEFINE m == n - 1
<1>1. Len(bs) \in Nat /\ k + 1 \in 1 .. Len(bs) /\ k + 1 <= l /\ k # Len(bs)
  BY LenProperties DEF BlockList
<1>2. LessThan(bs[k].end, bs[k + 1].start)
  BY <1>1 DEF EndsGroup
<1>3. ASSUME NEW j \in 1 .. Len(bs)
      PROVE  /\ IsBlock(bs[j], n) /\ bs[j].start \in [1 .. n -> Nat] /\ bs[j].end \in [1 .. n -> Nat]
             /\ bs[j].start \in Vectors(n) /\ bs[j].end \in Vectors(n)
  <2>1. IsBlock(bs[j], n)
    BY DEF BlockList
  <2>2. bs[j].start \in [1 .. n -> Nat] /\ bs[j].end \in [1 .. n -> Nat]
    BY <2>1, BlockShape
  <2> QED BY <2>1, <2>2 DEF Vectors
<1>4. i = k \/ LessThan(bs[i].end, bs[k].end)
  BY BlocksAscend
<1>5. k + 1 = l \/ LessThan(bs[k + 1].start, bs[l].start)
  <2>1. k + 1 = l \/ k + 1 < l
    BY <1>1
  <2> QED BY <1>1, <2>1, BlocksAscend
<1>6. LessThan(bs[i].end, bs[l].start)
  <2>1. /\ bs[i].end \in Vectors(n) /\ bs[k].end \in Vectors(n) /\ bs[k + 1].start \in Vectors(n)
        /\ bs[l].start \in Vectors(n)
    BY <1>1, <1>3
  <2>2. LessThan(bs[i].end, bs[k + 1].start)
    BY <1>2, <1>4, <2>1, LexOrder
  <2> QED BY <1>5, <2>1, <2>2, LexOrder
<1>7. m \in Nat /\ 1 .. m \subseteq 1 .. n /\ m \in 0 .. n
  OBVIOUS
<1> DEFINE e == SubSeq(bs[i].end, 1, m)
           s == SubSeq(bs[l].start, 1, m)
<1>8. e \in [1 .. m -> Nat] /\ s \in [1 .. m -> Nat]
  <2>1. e \in [1 .. m -> Nat]
    BY <1>3, <1>7, Prefix
  <2>2. s \in [1 .. m -> Nat]
    BY <1>3, <1>7, Prefix
  <2> QED BY <2>1, <2>2
<1>9. /\ \A d \in 1 .. m : e[d] = bs[i].end[d]
      /\ \A d \in 1 .. m : s[d] = bs[l].start[d]
  <2>1. \A d \in 1 .. m : e[d] = bs[i].end[d]
    BY <1>3, <1>7, Prefix
  <2>2. \A d \in 1 .. m : s[d] = bs[l].start[d]
    BY <1>3, <1>7, Prefix
  <2> QED BY <2>1, <2>2
<1>10. /\ r \in Vectors(m) /\ w \in Vectors(m)
       /\ \A d \in 1 .. m : r[d] <= bs[i].end[d]
       /\ \A d \in 1 .. m : bs[l].start[d] <= w[d]
  BY <1>3, RowsOfBlock
<1>11. ~LessThan(s, e)
  <2>1. LessThan(s, e) => LessThan(bs[l].start, bs[i].end)
    <3>1. DOMAIN bs[l].start = 1 .. n /\ DOMAIN bs[i].end = 1 .. n
      BY <1>3
    <3> HIDE DEF m
    <3> QED BY <1>7, <3>1, RowOrder
  <2>2. ~LessThan(bs[l].start, bs[i].end)
    BY <1>3, <1>6, LexOrder
  <2> QED BY <2>1, <2>2
<1>12. e \in Vectors(m) /\ s \in Vectors(m)
  BY <1>8 DEF Vectors
<1>13. (\A d \in 1 .. m : r[d] <= e[d]) /\ (\A d \in 1 .. m : s[d] <= w[d])
  BY <1>9, <1>10
<1> HIDE DEF m, e, s
<1>14. ~LessThan(e, r) /\ ~LessThan(w, s)
  BY <1>7, <1>10, <1>12, <1>13, PointwiseOrder
<1>15. /\ r = e \/ LessThan(r, e)
       /\ w = s \/ LessThan(s, w)
  BY <1>7, <1>10, <1>12, <1>14, LexOrder
<1>16. ASSUME LessThan(w, r) PROVE FALSE
  <2>1. LessThan(s, r)
    BY <1>7, <1>10, <1>12, <1>15, <1>16, LexOrder
  <2>2. LessThan(s, e)
    BY <1>7, <1>10, <1>12, <1>15, <2>1, LexOrder
  <2> QED BY <1>11, <2>2
<1> QED BY <1>16

\* What a group is translated into has its rows, and the room made for it.
RoomOf(group) ==
  IF Len(group) = 1 THEN 1
  ELSE SumFunction([j \in DOMAIN group |-> RowsCounted(group[j])])

\* A group of blocks becomes selections of its rows, as many as there is room for.
LEMMA GroupHolds ==
  ASSUME NEW n \in Nat \ {0}, NEW bs \in Seq([start : Coordinates, end : Coordinates]),
         Len(bs) # 0, \A i \in 1 .. Len(bs) : IsBlock(bs[i], n)
  PROVE  /\ \E own : HoldsRows(n, GroupBlocks(bs), bs, own)
         /\ Len(GroupBlocks(bs)) = RoomOf(bs) /\ GroupBlocks(bs) \in Seq(Sels(n))
<1>1. Len(bs) \in Nat /\ DOMAIN bs = 1 .. Len(bs)
  BY LenProperties
<1>2. CASE Len(bs) = 1
  <2>1. bs = <<bs[1]>> /\ IsBlock(bs[1], n)
    BY <1>2
  <2>2. HoldsRows(n, <<Whole(bs[1])>>, <<bs[1]>>, [a \in 1 .. 1 |-> 1]) /\ Whole(bs[1]) \in Sels(n)
    BY <2>1, WholeHolds
  <2>3. GroupBlocks(bs) = <<Whole(bs[1])>>
    BY <1>2 DEF GroupBlocks
  <2>4. \E own : HoldsRows(n, <<Whole(bs[1])>>, bs, own)
    BY <2>1, <2>2
  <2>5. <<Whole(bs[1])>> \in Seq(Sels(n)) /\ Len(<<Whole(bs[1])>>) = 1
    BY <2>2
  <2> QED BY <1>2, <2>3, <2>4, <2>5 DEF RoomOf
<1>3. CASE Len(bs) # 1
  <2> DEFINE q == [j \in DOMAIN bs |-> RowBlocks(bs[j])]
  <2>1. \A j \in 1 .. Len(bs) : q[j] = RowBlocks(bs[j]) /\ RowBlocks(bs[j]) \in Seq(Sels(n))
    BY <1>1, RowBlocksOnce
  <2>2. q \in [1 .. Len(bs) -> Seq(Sels(n))]
    BY <1>1, <2>1
  <2>3. GroupBlocks(bs) = SortBlocks(FlattenSeq(q))
    BY <1>3 DEF GroupBlocks
  <2> HIDE DEF q
  <2>4. q \in Seq(Seq(Sels(n))) /\ Len(q) = Len(bs)
    BY <1>1, <2>2, LenProperties
  <2>5. \E own : HoldsRows(n, SortBlocks(FlattenSeq(q)), bs, own)
    BY <2>1, <2>4, BrokenHolds
  <2>6. Len(SortBlocks(FlattenSeq(q))) = SumFunction([j \in DOMAIN bs |-> RowsCounted(bs[j])])
    BY <2>1, <2>4, BrokenHolds
  <2>7. SortBlocks(FlattenSeq(q)) \in Seq(Sels(n))
    BY <2>5 DEF HoldsRows
  <2> QED BY <1>3, <2>3, <2>5, <2>6, <2>7 DEF RoomOf
<1> QED BY <1>2, <1>3

\* The blocks of a hyperslab selection fill the room made for them and hold each
\* row as often as the blocks of the library, in the order of the rows.
LEMMA FilledHolds ==
  ASSUME NEW n \in Nat \ {0}, NEW bs, BlockList(bs, n), Len(bs) # 0
  PROVE  /\ \E own : HoldsRows(n, Filled(bs), bs, own)
         /\ Len(Filled(bs)) = RoomFor(bs)
<1> DEFINE B == [start : Coordinates, end : Coordinates]
           N == Len(bs)
<1>1. bs \in Seq(B) /\ N \in Nat /\ DOMAIN bs = 1 .. N /\ \A i \in 1 .. N : bs[i] \in B /\ IsBlock(bs[i], n)
  <2>1. bs \in Seq(B) /\ \A i \in 1 .. N : IsBlock(bs[i], n)
    BY DEF BlockList
  <2> HIDE DEF B
  <2> QED BY <2>1, LenProperties, ElementOfSeq
<1>2. \E m \in 1 .. N : \E s \in [1 .. m -> 1 .. N] :
           /\ GroupsOf(bs) = [g \in 1 .. m |-> SubSeq(bs, Before(s, g) + 1, s[g])]
           /\ \A g \in 1 .. m : Before(s, g) \in 0 .. N - 1 /\ Before(s, g) < s[g]
           /\ s[m] = N
           /\ \A g \in 1 .. m : EndsGroup(bs, s[g])
           /\ \A g, h \in 1 .. m : g < h => s[g] <= Before(s, h)
           /\ \A i \in 1 .. N : \E g \in 1 .. m : Before(s, g) < i /\ i <= s[g]
  <2> HIDE DEF B
  <2> QED BY <1>1, GroupsFollow
<1> HIDE DEF B, N
<1>3. PICK m \in 1 .. N : \E s \in [1 .. m -> 1 .. N] :
           /\ GroupsOf(bs) = [g \in 1 .. m |-> SubSeq(bs, Before(s, g) + 1, s[g])]
           /\ \A g \in 1 .. m : Before(s, g) \in 0 .. N - 1 /\ Before(s, g) < s[g]
           /\ s[m] = N
           /\ \A g \in 1 .. m : EndsGroup(bs, s[g])
           /\ \A g, h \in 1 .. m : g < h => s[g] <= Before(s, h)
           /\ \A i \in 1 .. N : \E g \in 1 .. m : Before(s, g) < i /\ i <= s[g]
  BY <1>2
<1>4. PICK s \in [1 .. m -> 1 .. N] :
           /\ GroupsOf(bs) = [g \in 1 .. m |-> SubSeq(bs, Before(s, g) + 1, s[g])]
           /\ \A g \in 1 .. m : Before(s, g) \in 0 .. N - 1 /\ Before(s, g) < s[g]
           /\ s[m] = N
           /\ \A g \in 1 .. m : EndsGroup(bs, s[g])
           /\ \A g, h \in 1 .. m : g < h => s[g] <= Before(s, h)
           /\ \A i \in 1 .. N : \E g \in 1 .. m : Before(s, g) < i /\ i <= s[g]
  BY <1>3
<1> DEFINE M == 1 .. m
           sub(g) == SubSeq(bs, Before(s, g) + 1, s[g])
           groups == GroupsOf(bs)
           p == [g \in M |-> GroupBlocks(groups[g])]
           F == Filled(bs)
<1>5. m \in Nat /\ \A g \in M : s[g] \in 1 .. N /\ Before(s, g) \in Nat /\ s[g] \in Nat
  <2>1. ASSUME NEW g \in M PROVE s[g] \in 1 .. N /\ Before(s, g) \in 0 .. N - 1
    BY <1>4
  <2>2. \A x \in 1 .. N : x \in Nat
    BY <1>1
  <2>3. \A x \in 0 .. N - 1 : x \in Nat
    BY <1>1
  <2>4. m \in Nat
    BY <1>1
  <2> HIDE DEF M
  <2> QED BY <2>1, <2>2, <2>3, <2>4
<1>6. groups = [g \in M |-> sub(g)]
  BY <1>4
<1>7. ASSUME NEW g \in M
      PROVE  /\ groups[g] \in Seq(B) /\ Len(groups[g]) = s[g] - Before(s, g) /\ Len(groups[g]) # 0
             /\ Len(groups[g]) \in Nat
             /\ \A j \in 1 .. Len(groups[g]) :
                  /\ Before(s, g) + j \in 1 .. N /\ groups[g][j] = bs[Before(s, g) + j]
                  /\ IsBlock(groups[g][j], n) /\ Before(s, g) + j <= s[g]
  <2> DEFINE lo == Before(s, g)
             hi == s[g]
  <2>1. lo \in Nat /\ hi \in 1 .. N /\ lo < hi
    BY <1>4, <1>5
  <2>2. groups[g] = SubSeq(bs, lo + 1, hi)
    BY <1>6
  <2> HIDE DEF groups, lo, hi
  <2>3. lo + 1 \in Int /\ hi \in Int /\ \A i \in lo + 1 .. hi : bs[i] \in B
    BY <1>1, <2>1
  <2>4. /\ SubSeq(bs, lo + 1, hi) \in Seq(B)
        /\ Len(SubSeq(bs, lo + 1, hi)) = IF lo + 1 <= hi THEN hi - (lo + 1) + 1 ELSE 0
        /\ \A i \in 1 .. hi - (lo + 1) + 1 : SubSeq(bs, lo + 1, hi)[i] = bs[lo + 1 + i - 1]
    BY <2>3, SubSeqProperties
  <2>5. hi - (lo + 1) + 1 = hi - lo /\ lo + 1 <= hi /\ \A i \in 1 .. hi - lo : lo + 1 + i - 1 = lo + i
    BY <2>1
  <2>6. groups[g] \in Seq(B) /\ Len(groups[g]) = hi - lo /\ \A i \in 1 .. hi - lo : groups[g][i] = bs[lo + i]
    BY <2>2, <2>4, <2>5
  <2>7. \A i \in 1 .. hi - lo : lo + i \in 1 .. N /\ lo + i <= hi
    BY <1>1, <2>1
  <2>8. hi - lo \in Nat /\ hi - lo # 0
    BY <2>1
  <2> QED BY <1>1, <2>6, <2>7, <2>8 DEF lo, hi
<1>8. DOMAIN groups = M
  BY <1>6
<1>9. F = FlattenSeq(p)
  BY <1>8 DEF Filled
<1> HIDE DEF groups, F, sub
<1>10. \A g \in M : /\ \E own : HoldsRows(n, GroupBlocks(groups[g]), groups[g], own)
                    /\ Len(GroupBlocks(groups[g])) = RoomOf(groups[g])
                    /\ GroupBlocks(groups[g]) \in Seq(Sels(n))
  BY <1>7, GroupHolds DEF B
<1>11. p \in Seq(Seq(Sels(n))) /\ Len(p) = m /\ DOMAIN p = M
  <2>1. p \in [1 .. m -> Seq(Sels(n))] /\ DOMAIN p = M
    BY <1>10
  <2> HIDE DEF p
  <2> QED BY <1>5, <2>1, LenProperties
<1>12. \A g \in M : p[g] = GroupBlocks(groups[g])
  OBVIOUS
<1> HIDE DEF p
<1>13. \A g \in M : Len(p[g]) \in Nat /\ Len(p[g]) = RoomOf(groups[g])
  BY <1>10, <1>12, LenProperties
<1>14. /\ F \in Seq(Sels(n)) /\ Len(F) = EndOf(p, m) /\ Len(F) \in Nat
       /\ \A i \in M : \A j \in 1 .. Len(p[i]) : F[EndOf(p, i - 1) + j] = p[i][j]
  <2>1. FlattenSeq(p) \in Seq(Sels(n)) /\ Len(FlattenSeq(p)) = EndOf(p, Len(p))
    BY <1>11, Flatten
  <2>2. \A i \in 1 .. Len(p) : \A j \in 1 .. Len(p[i]) : FlattenSeq(p)[EndOf(p, i - 1) + j] = p[i][j]
    <3> SUFFICES ASSUME NEW i \in 1 .. Len(p), NEW j \in 1 .. Len(p[i])
                 PROVE  FlattenSeq(p)[EndOf(p, i - 1) + j] = p[i][j]
      OBVIOUS
    <3>1. p \in Seq(Seq(Sels(n)))
      BY <1>11
    <3> QED BY <3>1, Flatten
  <2> QED BY <1>9, <1>11, <2>1, <2>2, LenProperties
<1>15. \E gown : \A g \in M : HoldsRows(n, p[g], groups[g], gown[g])
  <2> DEFINE gown == [g \in M |-> CHOOSE own : HoldsRows(n, p[g], groups[g], own)]
  <2>1. ASSUME NEW g \in M PROVE HoldsRows(n, p[g], groups[g], gown[g])
    <3>1. gown[g] = CHOOSE own : HoldsRows(n, p[g], groups[g], own)
      OBVIOUS
    <3> HIDE DEF gown
    <3>2. \E own : HoldsRows(n, p[g], groups[g], own)
      BY <1>10, <1>12
    <3> QED BY <3>1, <3>2
  <2> HIDE DEF gown
  <2> QED BY <2>1
<1>16. PICK gown : \A g \in M : HoldsRows(n, p[g], groups[g], gown[g])
  BY <1>15
\* The group an array is of, and where it is in that group.
<1>17. \E piece, pos : \A a \in 1 .. Len(F) : /\ piece[a] \in M /\ pos[a] \in 1 .. Len(p[piece[a]])
                                              /\ a = EndOf(p, piece[a] - 1) + pos[a]
  <2> DEFINE D == 1 .. Len(F)
             piece == [a \in D |-> CHOOSE i \in M : \E x \in 1 .. Len(p[i]) : a = EndOf(p, i - 1) + x]
             pos == [a \in D |-> CHOOSE x \in 1 .. Len(p[piece[a]]) : a = EndOf(p, piece[a] - 1) + x]
  <2>1. ASSUME NEW a \in D
        PROVE  piece[a] \in M /\ \E x \in 1 .. Len(p[piece[a]]) : a = EndOf(p, piece[a] - 1) + x
    <3>1. a \in 1 .. EndOf(p, Len(p))
      BY <1>11, <1>14
    <3>2. \E i \in M : \E x \in 1 .. Len(p[i]) : a = EndOf(p, i - 1) + x
      BY <1>11, <3>1, PieceOf
    <3>3. piece[a] = CHOOSE i \in M : \E x \in 1 .. Len(p[i]) : a = EndOf(p, i - 1) + x
      OBVIOUS
    <3> HIDE DEF piece, M
    <3> QED BY <3>2, <3>3
  <2> HIDE DEF piece
  <2>2. ASSUME NEW a \in D PROVE pos[a] \in 1 .. Len(p[piece[a]]) /\ a = EndOf(p, piece[a] - 1) + pos[a]
    <3>1. pos[a] = CHOOSE x \in 1 .. Len(p[piece[a]]) : a = EndOf(p, piece[a] - 1) + x
      OBVIOUS
    <3> HIDE DEF pos
    <3> QED BY <2>1, <3>1
  <2> HIDE DEF pos
  <2> QED BY <2>1, <2>2
<1>18. PICK piece, pos : \A a \in 1 .. Len(F) : /\ piece[a] \in M /\ pos[a] \in 1 .. Len(p[piece[a]])
                                                /\ a = EndOf(p, piece[a] - 1) + pos[a]
  BY <1>17
<1> DEFINE K == 1 .. Len(F)
           own == [a \in K |-> Before(s, piece[a]) + gown[piece[a]][pos[a]]]
<1>19. ASSUME NEW a \in K, NEW g, g = piece[a], NEW x, x = pos[a]
       PROVE  /\ g \in M /\ x \in 1 .. Len(p[g]) /\ F[a] = p[g][x]
              /\ gown[g][x] \in 1 .. Len(groups[g]) /\ own[a] = Before(s, g) + gown[g][x]
              /\ own[a] \in 1 .. N /\ Before(s, g) < own[a] /\ own[a] <= s[g]
              /\ bs[own[a]] = groups[g][gown[g][x]]
  <2>1. g \in M /\ x \in 1 .. Len(p[g]) /\ a = EndOf(p, g - 1) + x
    BY <1>18, <1>19
  <2>2. F[a] = p[g][x]
    BY <1>14, <2>1
  <2>3. gown[g][x] \in 1 .. Len(groups[g])
    <3>1. HoldsRows(n, p[g], groups[g], gown[g])
      BY <1>16, <2>1
    <3>2. gown[g] \in [1 .. Len(p[g]) -> 1 .. Len(groups[g])]
      BY <3>1 DEF HoldsRows
    <3> QED BY <2>1, <3>2
  <2>4. own[a] = Before(s, g) + gown[g][x]
    BY <1>19
  <2> HIDE DEF own
  <2>5. /\ Before(s, g) + gown[g][x] \in 1 .. N /\ Before(s, g) + gown[g][x] <= s[g]
        /\ groups[g][gown[g][x]] = bs[Before(s, g) + gown[g][x]]
    BY <1>7, <2>1, <2>3
  <2>6. Before(s, g) < Before(s, g) + gown[g][x]
    <3>1. Before(s, g) \in Nat /\ Len(groups[g]) \in Nat
      BY <1>5, <1>7, <2>1
    <3>2. gown[g][x] \in Nat /\ gown[g][x] # 0
      BY <2>3, <3>1
    <3> QED BY <3>1, <3>2
  <2> QED BY <2>1, <2>2, <2>3, <2>4, <2>5, <2>6
<1>20. own \in [K -> 1 .. N]
  <2>1. \A a \in K : own[a] \in 1 .. N
    BY <1>19
  <2>2. own = [a \in K |-> own[a]]
    OBVIOUS
  <2> HIDE DEF own, K
  <2> QED BY <2>1, <2>2
<1> HIDE DEF own, K, M
<1>21. ASSUME NEW a \in K
       PROVE  /\ FirstRow(n, F[a]) \in RowBox(bs[own[a]]) /\ F[a].count[n] # 0
              /\ SelRows(n, F[a]) \subseteq RowBox(bs[own[a]])
  <2> DEFINE g == piece[a]
             x == pos[a]
  <2>1. g \in M /\ x \in 1 .. Len(p[g]) /\ F[a] = p[g][x] /\ bs[own[a]] = groups[g][gown[g][x]]
    BY <1>19
  <2> HIDE DEF g, x
  <2>2. HoldsRows(n, p[g], groups[g], gown[g])
    BY <1>16, <2>1
  <2> QED BY <2>1, <2>2 DEF HoldsRows
<1>22. ASSUME NEW i \in 1 .. N, NEW r \in RowBox(bs[i])
       PROVE  \E a \in K : own[a] = i /\ r \in SelRows(n, F[a])
  <2>1. PICK g \in M : Before(s, g) < i /\ i <= s[g]
    BY <1>4 DEF M
  <2> DEFINE j == i - Before(s, g)
  <2>2. j \in 1 .. Len(groups[g]) /\ i = Before(s, g) + j
    BY <1>5, <1>7, <2>1
  <2> HIDE DEF j
  <2>3. r \in RowBox(groups[g][j])
    BY <1>7, <2>2
  <2>4. HoldsRows(n, p[g], groups[g], gown[g])
    BY <1>16
  <2>5. PICK x \in 1 .. Len(p[g]) : gown[g][x] = j /\ r \in SelRows(n, p[g][x])
    BY <2>2, <2>3, <2>4 DEF HoldsRows
  <2> DEFINE a == EndOf(p, g - 1) + x
  <2>6. a \in K
    BY <1>11, <1>14, PieceOrder DEF K, M
  <2> DEFINE h == piece[a]
             y == pos[a]
  <2>7. h \in M /\ y \in 1 .. Len(p[h]) /\ a = EndOf(p, h - 1) + y /\ F[a] = p[h][y]
        /\ own[a] = Before(s, h) + gown[h][y]
    <3>1. a = EndOf(p, h - 1) + y
      BY <1>18, <2>6 DEF K
    <3> HIDE DEF a, own
    <3>2. h \in M /\ y \in 1 .. Len(p[h]) /\ F[a] = p[h][y] /\ own[a] = Before(s, h) + gown[h][y]
      BY <1>19, <2>6
    <3> QED BY <3>1, <3>2
  <2>7a. g \in 1 .. Len(p) /\ h \in 1 .. Len(p) /\ EndOf(p, g - 1) + x = EndOf(p, h - 1) + y
    BY <1>11, <2>7 DEF M
  <2> HIDE DEF h, y
  <2>8. g = h /\ x = y
    BY <1>11, <2>7, <2>7a, OnePiece
  <2> QED BY <2>2, <2>5, <2>6, <2>7, <2>8
<1>23. ASSUME NEW a \in K, NEW c \in K, own[a] = own[c], SelRows(n, F[a]) \cap SelRows(n, F[c]) # {}
       PROVE  a = c
  <2> DEFINE g == piece[a]
             x == pos[a]
             h == piece[c]
             y == pos[c]
  <2>1. /\ g \in M /\ x \in 1 .. Len(p[g]) /\ F[a] = p[g][x] /\ own[a] = Before(s, g) + gown[g][x]
        /\ own[a] \in 1 .. N /\ Before(s, g) < own[a] /\ own[a] <= s[g]
        /\ gown[g][x] \in 1 .. Len(groups[g])
    BY <1>19
  <2>1a. a = EndOf(p, g - 1) + x
    BY <1>18 DEF K
  <2>2. /\ h \in M /\ y \in 1 .. Len(p[h]) /\ F[c] = p[h][y] /\ own[c] = Before(s, h) + gown[h][y]
        /\ own[c] \in 1 .. N /\ Before(s, h) < own[c] /\ own[c] <= s[h]
        /\ gown[h][y] \in 1 .. Len(groups[h])
    BY <1>19
  <2>2a. c = EndOf(p, h - 1) + y
    BY <1>18 DEF K
  <2> HIDE DEF g, x, h, y
  <2>3. ~(g < h)
    <3> SUFFICES ASSUME g < h PROVE FALSE
      OBVIOUS
    <3>1. s[g] <= Before(s, h)
      BY <1>4, <2>1, <2>2 DEF M
    <3>2. s[g] \in Nat /\ Before(s, h) \in Nat
      BY <1>5, <2>1, <2>2
    <3>3. own[a] \in Nat /\ own[c] \in Nat
      BY <1>1, <2>1, <2>2
    <3> QED BY <1>23, <2>1, <2>2, <3>1, <3>2, <3>3
  <2>4. ~(h < g)
    <3> SUFFICES ASSUME h < g PROVE FALSE
      OBVIOUS
    <3>1. s[h] <= Before(s, g)
      BY <1>4, <2>1, <2>2 DEF M
    <3>2. s[h] \in Nat /\ Before(s, g) \in Nat
      BY <1>5, <2>1, <2>2
    <3>3. own[a] \in Nat /\ own[c] \in Nat
      BY <1>1, <2>1, <2>2
    <3> QED BY <1>23, <2>1, <2>2, <3>1, <3>2, <3>3
  <2>5. g = h
    BY <2>1, <2>2, <2>3, <2>4 DEF M
  <2>6. gown[g][x] = gown[g][y]
    <3>1. Len(groups[g]) \in Nat /\ Before(s, g) \in Nat
      BY <1>5, <1>7, <2>1
    <3>2. gown[g][x] \in Nat /\ gown[g][y] \in Nat
      <4>1. gown[g][x] \in 1 .. Len(groups[g]) /\ gown[g][y] \in 1 .. Len(groups[g])
        BY <2>1, <2>2, <2>5
      <4>2. \A z \in 1 .. Len(groups[g]) : z \in Nat
        BY <3>1
      <4> QED BY <4>1, <4>2
    <3>3. Before(s, g) + gown[g][x] = Before(s, g) + gown[g][y]
      BY <1>23, <2>1, <2>2, <2>5
    <3> DEFINE u == gown[g][x]
               v == gown[g][y]
               z == Before(s, g)
    <3>4. u \in Nat /\ v \in Nat /\ z \in Nat /\ z + u = z + v
      BY <3>1, <3>2, <3>3
    <3> HIDE DEF u, v, z
    <3>5. u = v
      BY <3>4
    <3> QED BY <3>5 DEF u, v
  <2>7. HoldsRows(n, p[g], groups[g], gown[g])
    BY <1>16, <2>1
  <2>8. x = y
    BY <1>23, <2>1, <2>2, <2>5, <2>6, <2>7 DEF HoldsRows
  <2> QED BY <2>1a, <2>2a, <2>5, <2>8
<1>24. ASSUME NEW a \in K, NEW c \in K, a < c
       PROVE  ~LessThan(FirstRow(n, F[c]), FirstRow(n, F[a]))
  <2> DEFINE g == piece[a]
             x == pos[a]
             h == piece[c]
             y == pos[c]
  <2>1. /\ g \in M /\ x \in 1 .. Len(p[g]) /\ F[a] = p[g][x] /\ a = EndOf(p, g - 1) + x
        /\ own[a] \in 1 .. N /\ own[a] <= s[g]
    BY <1>18, <1>19 DEF K
  <2>2. /\ h \in M /\ y \in 1 .. Len(p[h]) /\ F[c] = p[h][y] /\ c = EndOf(p, h - 1) + y
        /\ own[c] \in 1 .. N /\ Before(s, h) < own[c]
    BY <1>18, <1>19 DEF K
  <2> HIDE DEF g, x, h, y
  <2>3. g < h \/ (g = h /\ x < y)
    <3>1. g \in 1 .. Len(p) /\ h \in 1 .. Len(p) /\ EndOf(p, g - 1) + x < EndOf(p, h - 1) + y
      BY <1>11, <1>24, <2>1, <2>2 DEF M
    <3>2. p \in Seq(Seq(Sels(n))) /\ x \in 1 .. Len(p[g]) /\ y \in 1 .. Len(p[h])
      BY <1>11, <2>1, <2>2
    <3> QED BY <3>1, <3>2, EarlierPiece
  <2>4. CASE g = h /\ x < y
    <3>1. HoldsRows(n, p[g], groups[g], gown[g])
      BY <1>16, <2>1
    <3> QED BY <2>1, <2>2, <2>4, <3>1 DEF HoldsRows
  <2>5. CASE g < h
    <3>1. s[g] \in 1 .. N /\ EndsGroup(bs, s[g]) /\ s[g] <= Before(s, h)
      BY <1>4, <2>1, <2>2, <2>5 DEF M
    <3>2. s[g] < own[c] /\ s[g] \in 1 .. Len(bs) /\ own[a] \in 1 .. Len(bs) /\ own[c] \in 1 .. Len(bs)
      BY <1>1, <1>5, <2>1, <2>2, <3>1 DEF N
    <3>3. FirstRow(n, F[a]) \in RowBox(bs[own[a]]) /\ FirstRow(n, F[c]) \in RowBox(bs[own[c]])
      BY <1>21
    <3> QED BY <2>1, <3>1, <3>2, <3>3, RowsFollow
  <2> QED BY <2>3, <2>4, <2>5
<1>25. HoldsRows(n, F, bs, own)
  BY <1>14, <1>20, <1>21, <1>22, <1>23, <1>24 DEF HoldsRows, K, N
<1>26. EndOf(p, m) = RoomFor(bs)
  <2> DEFINE f == [g \in DOMAIN groups |-> RoomOf(groups[g])]
  <2>1. RoomFor(bs) = SumFunction(f)
    BY DEF RoomFor, RoomOf, groups
  <2>2. DOMAIN f = M /\ \A g \in M : f[g] = RoomOf(groups[g])
    BY <1>8
  <2> HIDE DEF f
  <2>3. SumFunction(f) = SumFunctionOnSet(f, M)
    BY <2>2 DEF SumFunction
  <2>4. \A g \in M : LengthsOf(p)[g] = f[g] /\ f[g] \in Int
    <3>1. \A g \in M : LengthsOf(p)[g] = Len(p[g])
      BY <1>11 DEF LengthsOf
    <3> QED BY <1>13, <2>2, <3>1
  <2>5. IsFiniteSet(M)
    <3>1. 1 \in Int /\ m \in Int
      BY <1>5
    <3> QED BY <3>1, FS_Interval DEF M
  <2>6. SumFunctionOnSet(LengthsOf(p), M) = SumFunctionOnSet(f, M)
    BY <2>4, <2>5, SumSame
  <2> QED BY <2>1, <2>3, <2>6 DEF EndOf, M
<1> QED BY <1>14, <1>25, <1>26 DEF F

\* A row is in as many arrays as in blocks of the library.
ArraysWith(n, arrays, r) == {a \in 1 .. Len(arrays) : r \in SelRows(n, arrays[a])}
BlocksWith(blocks, r) == {i \in 1 .. Len(blocks) : r \in RowBox(blocks[i])}

\* A row is in as many selections as blocks of the library.
LEMMA RowsAsOften ==
  ASSUME NEW n \in Nat \ {0}, NEW arrays, NEW blocks, NEW own, HoldsRows(n, arrays, blocks, own),
         NEW r
  PROVE  Cardinality(ArraysWith(n, arrays, r)) = Cardinality(BlocksWith(blocks, r))
<1> USE DEF ArraysWith, BlocksWith
<1> DEFINE A == {a \in 1 .. Len(arrays) : r \in SelRows(n, arrays[a])}
           I == {i \in 1 .. Len(blocks) : r \in RowBox(blocks[i])}
           f == [a \in A |-> own[a]]
<1>1. \A a \in A : /\ a \in 1 .. Len(arrays) /\ own[a] \in 1 .. Len(blocks)
                   /\ r \in SelRows(n, arrays[a]) /\ own[a] \in I
  BY DEF HoldsRows
<1>2. \A a, c \in A : own[a] = own[c] => a = c
  <2> SUFFICES ASSUME NEW a \in A, NEW c \in A, own[a] = own[c] PROVE a = c
    OBVIOUS
  <2>1. r \in SelRows(n, arrays[a]) \cap SelRows(n, arrays[c])
    OBVIOUS
  <2> QED BY <1>1, <2>1 DEF HoldsRows
<1>3. \A i \in I : \E a \in A : own[a] = i
  <2> SUFFICES ASSUME NEW i \in I PROVE \E a \in A : own[a] = i
    OBVIOUS
  <2>1. i \in 1 .. Len(blocks) /\ r \in RowBox(blocks[i])
    OBVIOUS
  <2>2. PICK a \in 1 .. Len(arrays) : own[a] = i /\ r \in SelRows(n, arrays[a])
    BY <2>1 DEF HoldsRows
  <2> QED BY <2>2
<1>4. IsFiniteSet(A)
  <2>1. Len(arrays) \in Nat
    BY LenProperties DEF HoldsRows
  <2>2. IsFiniteSet(1 .. Len(arrays))
    <3>1. 1 \in Int /\ Len(arrays) \in Int
      BY <2>1
    <3> QED BY <3>1, FS_Interval
  <2>3. A \in SUBSET (1 .. Len(arrays))
    OBVIOUS
  <2> HIDE DEF A
  <2> QED BY <2>2, <2>3, FS_Subset
<1> HIDE DEF A, I
<1>5. f \in [A -> I] /\ \A a \in A : f[a] = own[a]
  BY <1>1
<1> HIDE DEF f
<1>6. f \in Bijection(A, I)
  BY <1>2, <1>3, <1>5 DEF Bijection, Injection, Surjection, IsInjective
<1>7. ExistsBijection(A, I)
  BY <1>6 DEF ExistsBijection
<1> QED BY <1>4, <1>7, FS_Bijection DEF A, I

\* How many elements a selection has is a number.
LEMMA SelSizeType ==
  ASSUME NEW n \in Nat, NEW sels \in Seq(Sels(n))
  PROVE  SelSize(sels) \in Nat
<1>0. ASSUME NEW k \in Nat PROVE IsFiniteSet(1 .. k)
  BY FS_Interval
<1>1. ASSUME NEW s \in Sels(n) PROVE Volume(s.count) \in Nat
  <2>1. s.count \in [1 .. n -> Nat]
    BY SelFields
  <2>2. Volume(s.count) = Product(s.count, 1 .. n)
    BY <2>1 DEF Volume, Product
  <2>3. IsFiniteSet(1 .. n)
    BY <1>0
  <2> QED BY <2>1, <2>2, <2>3, ProductNat
<1> DEFINE N == Len(sels)
           f == [i \in DOMAIN sels |-> Volume(sels[i].count)]
<1>2. N \in Nat /\ DOMAIN sels = 1 .. N /\ \A i \in 1 .. N : sels[i] \in Sels(n)
  BY LenProperties, ElementOfSeq
<1>3. DOMAIN f = 1 .. N /\ \A i \in 1 .. N : f[i] \in Nat
  BY <1>1, <1>2
<1>4. SelSize(sels) = SumFunctionOnSet(f, 1 .. N)
  BY <1>3 DEF SelSize, SumFunction
<1> HIDE DEF f, N
<1>5. IsFiniteSet(1 .. N)
  BY <1>0, <1>2
<1> QED BY <1>3, <1>4, <1>5, SumNat

\* A dataspace of a dataset of the given dimensions: of its rank and inside its
\* extent.
Fits(ds, dims) ==
  /\ IsDataspace(ds)
  /\ ds.type = "hyperslabs" => \A b \in ToSet(ds.blocks) :
       Len(b.end) = Len(dims) /\ \A i \in DOMAIN dims : b.end[i] < dims[i]
  /\ ds.type = "points" => \A c \in ToSet(ds.points) :
       Len(c) = Len(dims) /\ \A i \in DOMAIN dims : c[i] < dims[i]
  /\ ds.type = "list" => \A b \in ToSet(ds.blocks) :
       /\ Len(b.start) = Len(dims)
       /\ \A i \in DOMAIN dims : b.start[i] + b.count[i] <= dims[i]

\* Its blocks are what BlockList asks for.
LEMMA FittingBlocks ==
  ASSUME NEW dims \in Seq(Nat \ {0}), NEW ds, Fits(ds, dims), ds.type = "hyperslabs"
  PROVE  BlockList(ds.blocks, Len(dims)) /\ Len(ds.blocks) \in Nat \ {0}
<1> DEFINE B == [start : Coordinates, end : Coordinates]
<1>1. ds.blocks \in Seq(B) /\ ds.blocks # <<>> /\ Canonical(ds.blocks)
  BY DEF Fits, IsDataspace
<1>2. ASSUME NEW i \in 1 .. Len(ds.blocks) PROVE IsBlock(ds.blocks[i], Len(dims))
  <2>1. ds.blocks[i] \in ToSet(ds.blocks) /\ ds.blocks[i] \in B
    <3> HIDE DEF B
    <3>1. DOMAIN ds.blocks = 1 .. Len(ds.blocks)
      BY <1>1, LenProperties
    <3> QED BY <1>1, <3>1, ElementOfSeq DEF ToSet
  <2>2. /\ Len(ds.blocks[i].start) = Len(ds.blocks[i].end)
        /\ \A d \in DOMAIN ds.blocks[i].start : ds.blocks[i].start[d] <= ds.blocks[i].end[d]
        /\ Len(ds.blocks[i].end) = Len(dims)
    BY <2>1 DEF Fits, IsDataspace
  <2>3. DOMAIN ds.blocks[i].start = 1 .. Len(dims)
    BY <2>1, <2>2, LenProperties DEF Coordinates
  <2> QED BY <2>1, <2>2, <2>3 DEF IsBlock
<1>3. Len(ds.blocks) \in Nat \ {0}
  <2> HIDE DEF B
  <2> QED BY <1>1, EmptySeq, LenProperties
<1> QED BY <1>1, <1>2, <1>3 DEF BlockList

\* What a hyperslab selection of several blocks is translated into.
LEMMA MultipleHolds ==
  ASSUME NEW dims \in Seq(Nat \ {0}), NEW ds, Fits(ds, dims), Multiple(ds)
  PROVE  /\ Len(dims) \in Nat \ {0} /\ BlockList(ds.blocks, Len(dims))
         /\ \E own : HoldsRows(Len(dims), ArraysOf(ds, dims), ds.blocks, own)
         /\ Len(ArraysOf(ds, dims)) = RoomFor(ds.blocks)
         /\ ArraysOf(ds, dims) \in Seq(Sels(Len(dims)))
<1> DEFINE n == Len(dims)
           bs == ds.blocks
<1>1. ds.type = "hyperslabs" /\ Len(bs) > 1
  BY DEF Multiple
<1>2. BlockList(bs, n) /\ Len(bs) \in Nat \ {0}
  BY <1>1, FittingBlocks
<1>3. n \in Nat
  BY LenProperties
<1>4. ArraysOf(ds, dims) = Filled(Sorted(ds))
  BY <1>1 DEF ArraysOf, Multiple
<1>5. Sorted(ds) = bs
  BY <1>2, <1>3, SortedAlready
<1> HIDE DEF n, bs
<1>6. n # 0
  <2>1. 1 \in 1 .. Len(bs) /\ 2 \in 1 .. Len(bs) /\ 1 < 2
    BY <1>1, <1>2
  <2> QED BY <1>2, <1>3, <2>1, BlocksAscend
<1>7. (\E own : HoldsRows(n, Filled(bs), bs, own)) /\ Len(Filled(bs)) = RoomFor(bs)
  BY <1>2, <1>3, <1>6, FilledHolds
<1>8. Filled(bs) \in Seq(Sels(n))
  BY <1>7 DEF HoldsRows
<1> QED BY <1>2, <1>3, <1>4, <1>5, <1>6, <1>7, <1>8 DEF n, bs

\* Every dataspace is translated into selections of its dimensions.
LEMMA ArraysShape ==
  ASSUME NEW dims \in Seq(Nat \ {0}), NEW ds, Fits(ds, dims)
  PROVE  ArraysOf(ds, dims) \in Seq(Sels(Len(dims)))
<1> DEFINE n == Len(dims)
<1>1. n \in Nat /\ dims \in [1 .. n -> Nat] /\ dims \in Seq(Nat) /\ DOMAIN dims = 1 .. n
  <2>1. n \in Nat /\ dims \in [1 .. n -> Nat \ {0}] /\ DOMAIN dims = 1 .. n
    BY LenProperties
  <2>2. dims \in [1 .. n -> Nat]
    BY <2>1
  <2> HIDE DEF n
  <2> QED BY <2>1, <2>2, LenProperties
<1>2. \A c \in [1 .. n -> Nat] : Ones(c) \in [1 .. n -> Nat]
  BY DEF Ones
<1> HIDE DEF n
<1>3. \A c \in [1 .. n -> Nat] : [start |-> c, count |-> Ones(c)] \in Sels(n)
  BY <1>1, <1>2, SelShape
<1>4. CASE Multiple(ds)
  BY <1>4, MultipleHolds DEF n
<1>5. CASE ds.type = "hyperslabs" /\ ~Multiple(ds)
  <2>1. BlockList(ds.blocks, n) /\ Len(ds.blocks) \in Nat \ {0}
    BY <1>5, FittingBlocks DEF n
  <2>2. 1 \in 1 .. Len(ds.blocks)
    BY <2>1
  <2> DEFINE b == ds.blocks[1]
  <2>3. IsBlock(b, n)
    BY <2>1, <2>2 DEF BlockList
  <2>4. b.start \in [1 .. n -> Nat] /\ Whole(b).start = b.start /\ Whole(b).count \in [1 .. n -> Nat \ {0}]
    BY <1>1, <2>3, BlockShape
  <2>5. Whole(b) = [start |-> b.start, count |-> Whole(b).count] /\ Whole(b).count \in [1 .. n -> Nat]
    BY <2>4 DEF Whole
  <2>6. Whole(b) \in Sels(n)
    BY <1>1, <2>4, <2>5, SelShape
  <2>7. ArraysOf(ds, dims) = <<Whole(b)>>
    BY <1>5 DEF ArraysOf
  <2> HIDE DEF b
  <2> QED BY <2>6, <2>7 DEF n
<1>6. CASE ds.type = "points"
  <2> DEFINE ps == ds.points
             N == Len(ps)
  <2>1. ps \in Seq(Coordinates) /\ N \in Nat /\ DOMAIN ps = 1 .. N /\ \A i \in 1 .. N : ps[i] \in Coordinates
    BY <1>6, LenProperties, ElementOfSeq DEF Fits, IsDataspace
  <2>2. \A i \in 1 .. N : ps[i] \in [1 .. n -> Nat]
    <3> SUFFICES ASSUME NEW i \in 1 .. N PROVE ps[i] \in [1 .. n -> Nat]
      OBVIOUS
    <3>1. ps[i] \in ToSet(ps)
      BY <2>1 DEF ToSet
    <3>2. Len(ps[i]) = n
      BY <1>6, <3>1 DEF Fits, n
    <3> QED BY <2>1, <3>2, LenProperties DEF Coordinates
  <2>3. ArraysOf(ds, dims) = [i \in DOMAIN ps |-> [start |-> ps[i], count |-> Ones(ps[i])]]
    BY <1>6 DEF ArraysOf, Multiple
  <2> HIDE DEF ps, N
  <2>4. ArraysOf(ds, dims) \in [1 .. N -> Sels(n)]
    <3>1. \A i \in 1 .. N : [start |-> ps[i], count |-> Ones(ps[i])] \in Sels(n)
      BY <1>3, <2>2
    <3> QED BY <2>1, <2>3, <3>1
  <2> QED BY <2>1, <2>4, LenProperties DEF n
<1>7. CASE ds.type = "all"
  <2>1. ArraysOf(ds, dims) = <<[start |-> dims, count |-> Ones(dims)]>>
    BY <1>7 DEF ArraysOf, Multiple
  <2>2. [start |-> dims, count |-> Ones(dims)] \in Sels(n)
    BY <1>1, <1>3
  <2> QED BY <2>1, <2>2 DEF n
<1>8. CASE ds.type = "none"
  <2>1. ArraysOf(ds, dims) = <<>>
    BY <1>8 DEF ArraysOf, Multiple
  <2> QED BY <2>1
<1>9. CASE ds.type = "list"
  <2> DEFINE bs == ds.blocks
             N == Len(bs)
             C == [start : Coordinates, count : Coordinates]
  <2>1. bs \in Seq(C)
    BY <1>9 DEF Fits, IsDataspace
  <2>2. N \in Nat /\ DOMAIN bs = 1 .. N /\ \A i \in 1 .. N : bs[i] \in C /\ bs[i] \in ToSet(bs)
    <3> HIDE DEF C, bs
    <3> QED BY <2>1, LenProperties, ElementOfSeq DEF ToSet
  <2>3. \A i \in 1 .. N : bs[i] \in Sels(n)
    <3> SUFFICES ASSUME NEW i \in 1 .. N PROVE bs[i] \in Sels(n)
      OBVIOUS
    <3>1. Len(bs[i].start) = Len(bs[i].count) /\ Len(bs[i].start) = n
      BY <1>9, <2>2 DEF Fits, IsDataspace, n
    <3> QED BY <2>2, <3>1 DEF Sels
  <2>4. ArraysOf(ds, dims) = bs
    BY <1>9 DEF ArraysOf, Multiple
  <2>5. bs \in [1 .. N -> Sels(n)]
    <3>1. bs = [i \in 1 .. N |-> bs[i]]
      <4> HIDE DEF C, bs
      <4> QED BY <2>1, <2>2
    <3> HIDE DEF bs, N
    <3> QED BY <2>3, <3>1
  <2> HIDE DEF bs, N
  <2> QED BY <2>2, <2>4, <2>5, LenProperties DEF n
<1>10. ds.type \in {"hyperslabs", "points", "all", "none", "list"}
  BY DEF Fits, IsDataspace
<1> QED BY <1>4, <1>5, <1>6, <1>7, <1>8, <1>9, <1>10

-----------------------------------------------------------------------------
(* Where an element is in an array *)

\* The elements between two neighbours in a dimension.
Stride(d, n, i) == Product(d, i + 1 .. n)
\* The part of an element's place that the dimensions of a range contribute.
Terms(d, n, x) == [i \in 1 .. n |-> x[i] * Stride(d, n, i)]
Part(d, n, x, k) == SumFunctionOnSet(Terms(d, n, x), k .. n)

\* Strides are numbers, each that of the next dimension times its extent.
LEMMA Strides ==
  ASSUME NEW n \in Nat, NEW d \in [1 .. n -> Nat]
  PROVE  /\ \A i \in 0 .. n : Stride(d, n, i) \in Nat
         /\ Stride(d, n, n) = 1 /\ Stride(d, n, 0) = Volume(d)
         /\ \A i \in 1 .. n : Stride(d, n, i - 1) = d[i] * Stride(d, n, i)
<1>1. ASSUME NEW i \in 0 .. n PROVE IsFiniteSet(i + 1 .. n) /\ \A j \in i + 1 .. n : d[j] \in Nat
  <2>1. i + 1 \in Int /\ n \in Int /\ \A j \in i + 1 .. n : j \in 1 .. n
    OBVIOUS
  <2> QED BY <2>1, FS_Interval
<1>2. ASSUME NEW i \in 0 .. n PROVE Stride(d, n, i) \in Nat
  <2> DEFINE D == i + 1 .. n
  <2>1. IsFiniteSet(D) /\ \A j \in D : d[j] \in Nat
    BY <1>1
  <2> HIDE DEF D
  <2>2. Product(d, D) \in Nat
    BY <2>1, ProductNat
  <2> QED BY <2>2 DEF Stride, D
<1>3. Stride(d, n, n) = 1
  <2>1. n + 1 .. n = {}
    OBVIOUS
  <2> QED BY <2>1, ProductEmpty DEF Stride
<1>4. Stride(d, n, 0) = Volume(d)
  <2>1. 0 + 1 .. n = 1 .. n /\ DOMAIN d = 1 .. n
    OBVIOUS
  <2> QED BY <2>1 DEF Stride, Volume, Product
<1>5. ASSUME NEW i \in 1 .. n PROVE Stride(d, n, i - 1) = d[i] * Stride(d, n, i)
  <2> DEFINE D == i .. n
  <2>1. i - 1 \in 0 .. n /\ (i - 1) + 1 = i /\ i \in D
    OBVIOUS
  <2>2. IsFiniteSet(D) /\ \A j \in D : d[j] \in Int
    <3>1. i \in Int /\ n \in Int /\ \A j \in D : j \in 1 .. n
      OBVIOUS
    <3> QED BY <3>1, FS_Interval
  <2>3. \A j : j \in D \ {i} <=> j \in i + 1 .. n
    OBVIOUS
  <2>4. D \ {i} = i + 1 .. n
    BY <2>3, Zenon
  <2> HIDE DEF D
  <2>5. Product(d, D) = d[i] * Product(d, D \ {i})
    BY <2>1, <2>2, ProductRemove
  <2> QED BY <2>1, <2>4, <2>5 DEF Stride, D
<1> QED BY <1>2, <1>3, <1>4, <1>5

\* The place of an element is the sum of what its coordinates contribute.
LEMMA LinearIs ==
  ASSUME NEW n \in Nat, NEW d \in [1 .. n -> Nat], NEW x \in [1 .. n -> Int]
  PROVE  /\ Linear(d, x) = Part(d, n, x, 1)
         /\ \A k \in 1 .. n + 1 : Part(d, n, x, k) \in Int
         /\ Part(d, n, x, n + 1) = 0
         /\ \A k \in 1 .. n : Part(d, n, x, k) = x[k] * Stride(d, n, k) + Part(d, n, x, k + 1)
<1> DEFINE w == Terms(d, n, x)
<1>1. \A i \in 0 .. n : Stride(d, n, i) \in Nat
  BY Strides
<1>2. \A i \in 1 .. n : w[i] \in Int /\ w[i] = x[i] * Stride(d, n, i)
  <2> TAKE i \in 1 .. n
  <2>1. x[i] \in Int /\ Stride(d, n, i) \in Int
    BY <1>1
  <2>2. \A a, b \in Int : a * b \in Int
    OBVIOUS
  <2>3. x[i] * Stride(d, n, i) \in Int
    BY <2>1, <2>2
  <2> QED BY <2>3 DEF Terms
<1>3. DOMAIN w = 1 .. n
  BY DEF Terms
<1>4. ASSUME NEW k \in 1 .. n + 1 PROVE IsFiniteSet(k .. n) /\ \A j \in k .. n : w[j] \in Int
  <2>1. k \in Int /\ n \in Int /\ \A j \in k .. n : j \in 1 .. n
    OBVIOUS
  <2>2. IsFiniteSet(k .. n)
    BY <2>1, FS_Interval
  <2> QED BY <1>2, <2>1, <2>2
<1>5. Linear(d, x) = Part(d, n, x, 1)
  <2>1. DOMAIN x = 1 .. n /\ Len(d) = n /\ d \in Seq(Nat)
    BY LenProperties
  <2>2. \A i \in 1 .. n : Volume([j \in i + 1 .. n |-> d[j]]) = Stride(d, n, i)
    <3> TAKE i \in 1 .. n
    <3> DEFINE D == i + 1 .. n
               f == [j \in D |-> d[j]]
    <3>1. IsFiniteSet(D) /\ \A j \in D : d[j] \in Int
      <4>1. i + 1 \in Int /\ n \in Int /\ \A j \in D : j \in 1 .. n
        OBVIOUS
      <4> QED BY <4>1, FS_Interval
    <3>2. DOMAIN f = D /\ \A j \in D : f[j] = d[j]
      OBVIOUS
    <3>3. Volume(f) = Product(f, D)
      BY <3>2 DEF Volume, Product
    <3> HIDE DEF D, f
    <3>4. Product(f, D) = Product(d, D)
      BY <3>1, <3>2, ProductSame
    <3> QED BY <3>3, <3>4 DEF D, f, Stride
  <2> DEFINE v == [i \in DOMAIN x |-> x[i] * Volume([j \in i + 1 .. Len(d) |-> d[j]])]
  <2>3. v = w
    <3> DEFINE D == 1 .. n
    <3>1. v = [i \in D |-> x[i] * Volume([j \in i + 1 .. n |-> d[j]])]
      BY <2>1
    <3>2. w = [i \in D |-> x[i] * Stride(d, n, i)]
      BY DEF Terms
    <3> QED BY <2>2, <3>1, <3>2
  <2>4. Linear(d, x) = SumFunctionOnSet(v, DOMAIN v)
    BY DEF Linear, SumFunction
  <2> HIDE DEF v, w
  <2> QED BY <1>3, <2>3, <2>4 DEF Part, w
<1>6. \A k \in 1 .. n + 1 : Part(d, n, x, k) \in Int
  <2> TAKE k \in 1 .. n + 1
  <2> DEFINE D == k .. n
  <2>1. IsFiniteSet(D) /\ \A j \in D : w[j] \in Int
    BY <1>4
  <2> HIDE DEF D, w
  <2>2. SumFunctionOnSet(w, D) \in Int
    BY <2>1, SumType
  <2> QED BY <2>2 DEF Part, D, w
<1>7. Part(d, n, x, n + 1) = 0
  <2>1. n + 1 .. n = {}
    OBVIOUS
  <2> QED BY <2>1, SumEmpty DEF Part
<1>8. ASSUME NEW k \in 1 .. n
      PROVE  Part(d, n, x, k) = x[k] * Stride(d, n, k) + Part(d, n, x, k + 1)
  <2> DEFINE D == k .. n
  <2>1. IsFiniteSet(D) /\ k \in D /\ \A j \in D : w[j] \in Int
    BY <1>4
  <2>2. \A j : j \in D \ {k} <=> j \in k + 1 .. n
    OBVIOUS
  <2>3. D \ {k} = k + 1 .. n
    BY <2>2, Zenon
  <2> HIDE DEF D, w
  <2>4. SumFunctionOnSet(w, D) = w[k] + SumFunctionOnSet(w, D \ {k})
    BY <2>1, SumRemove
  <2> QED BY <1>2, <2>3, <2>4 DEF Part, D, w
<1> QED BY <1>5, <1>6, <1>7, <1>8

\* What the coordinates from one on contribute is less than a step in the
\* dimension before, also for the end of a run along the last dimension.
LEMMA PartBound ==
  ASSUME NEW n \in Nat \ {0}, NEW d \in [1 .. n -> Nat], NEW x \in [1 .. n -> Nat],
         \A i \in 1 .. n : x[i] < d[i]
  PROVE  \A k \in 1 .. n : /\ Part(d, n, x, k) \in Nat
                           /\ Part(d, n, x, k) + (d[n] - x[n]) <= Stride(d, n, k - 1)
<1> DEFINE P(k) == /\ Part(d, n, x, k) \in Nat
                   /\ Part(d, n, x, k) + (d[n] - x[n]) <= Stride(d, n, k - 1)
           T == {j \in Nat : j <= n - 1 => P(n - j)}
<1>0. x \in [1 .. n -> Int]
  <2>1. x = [i \in 1 .. n |-> x[i]] /\ \A i \in 1 .. n : x[i] \in Int
    OBVIOUS
  <2> QED BY <2>1
<1>1. /\ \A i \in 0 .. n : Stride(d, n, i) \in Nat
      /\ Stride(d, n, n) = 1
      /\ \A i \in 1 .. n : Stride(d, n, i - 1) = d[i] * Stride(d, n, i)
  BY Strides
<1>2. /\ Part(d, n, x, n + 1) = 0
      /\ \A k \in 1 .. n : Part(d, n, x, k) = x[k] * Stride(d, n, k) + Part(d, n, x, k + 1)
  BY <1>0, LinearIs
<1>3. \A i \in 1 .. n : x[i] \in Nat /\ d[i] \in Nat /\ x[i] < d[i]
  OBVIOUS
<1>4. 0 \in T
  <2>1. n \in 1 .. n /\ n - 0 = n /\ n \in Nat
    OBVIOUS
  <2>2. Part(d, n, x, n) = x[n] /\ Stride(d, n, n - 1) = d[n]
    <3>1. \A a \in Nat : a * 1 = a /\ a + 0 = a
      OBVIOUS
    <3>2. Part(d, n, x, n) = x[n] * 1 + 0 /\ Stride(d, n, n - 1) = d[n] * 1
      BY <1>1, <1>2, <2>1
    <3> QED BY <1>3, <2>1, <3>1, <3>2
  <2>3. P(n)
    BY <1>3, <2>1, <2>2
  <2> HIDE DEF P
  <2> QED BY <2>1, <2>3
<1>5. ASSUME NEW j \in T PROVE j + 1 \in T
  <2> SUFFICES ASSUME j + 1 <= n - 1 PROVE P(n - (j + 1))
    BY <1>5
  <2> DEFINE k == n - (j + 1)
  <2>1. /\ j \in Nat /\ k \in 1 .. n /\ k + 1 \in 1 .. n /\ k + 1 = n - j /\ (k + 1) - 1 = k
        /\ k \in 0 .. n /\ k - 1 \in 0 .. n
    BY <1>5
  <2>2. P(k + 1)
    BY <1>5, <2>1
  <2> HIDE DEF k
  <2> DEFINE s == Stride(d, n, k)
             t == Part(d, n, x, k + 1)
             a == x[k]
             b == d[k]
             rest == d[n] - x[n]
  <2>3. /\ s \in Nat /\ t \in Nat /\ a \in Nat /\ b \in Nat /\ a + 1 <= b /\ rest \in Nat
        /\ t + rest <= s
    <3>1. n \in 1 .. n
      OBVIOUS
    <3>2. rest \in Nat
      BY <1>3, <3>1
    <3>3. a \in Nat /\ b \in Nat /\ a + 1 <= b
      BY <1>3, <2>1
    <3>4. s \in Nat
      BY <1>1, <2>1
    <3>5. t \in Nat /\ t + rest <= s
      BY <2>1, <2>2
    <3> QED BY <3>2, <3>3, <3>4, <3>5
  <2>4. Part(d, n, x, k) = a * s + t /\ Stride(d, n, k - 1) = b * s
    BY <1>1, <1>2, <2>1
  <2> HIDE DEF s, t, a, b, rest
  <2>5. a * s \in Nat /\ (a + 1) * s = a * s + s /\ b * s \in Nat
    BY <2>3, Multiples
  <2>6. (a + 1) * s <= b * s
    <3>1. a + 1 \in Nat
      BY <2>3
    <3> QED BY <2>3, <3>1, Multiples
  <2>7. a * s + t \in Nat /\ (a * s + t) + rest <= b * s
    <3> DEFINE p == a * s
               q == b * s
               r == (a + 1) * s
    <3>1. p \in Nat /\ q \in Nat /\ r = p + s /\ r <= q
      BY <2>5, <2>6
    <3> HIDE DEF p, q, r
    <3>2. p + t \in Nat /\ (p + t) + rest <= q
      BY <2>3, <3>1
    <3> QED BY <3>2 DEF p, q
  <2> QED BY <2>4, <2>7 DEF rest, k
<1>6. ASSUME NEW k \in 1 .. n PROVE P(k)
  <2>1. T \in SUBSET Nat
    OBVIOUS
  <2>2. T = Nat
    <3> HIDE DEF T
    <3> QED BY <1>4, <1>5, <2>1, AllNat
  <2>3. n - k \in Nat /\ n - k <= n - 1 /\ n - (n - k) = k
    OBVIOUS
  <2> HIDE DEF P
  <2> QED BY <2>2, <2>3
<1> QED BY <1>6

\* An element and the end of a run from it lie in the array.
LEMMA LinearInside ==
  ASSUME NEW n \in Nat \ {0}, NEW d \in [1 .. n -> Nat], NEW x \in [1 .. n -> Nat],
         \A i \in 1 .. n : x[i] < d[i], NEW cnt \in Nat, x[n] + cnt <= d[n]
  PROVE  /\ Linear(d, x) \in Nat /\ Linear(d, x) + cnt <= Volume(d)
         /\ Volume(d) \in Nat
<1>1. x \in [1 .. n -> Int] /\ n \in Nat /\ n \in 1 .. n /\ 1 \in 1 .. n
  <2>1. x = [i \in 1 .. n |-> x[i]] /\ \A i \in 1 .. n : x[i] \in Int
    OBVIOUS
  <2> QED BY <2>1
<1>2. Linear(d, x) = Part(d, n, x, 1)
  BY <1>1, LinearIs
<1>3. Part(d, n, x, 1) \in Nat /\ Part(d, n, x, 1) + (d[n] - x[n]) <= Stride(d, n, 1 - 1)
  BY <1>1, PartBound
<1>4. Stride(d, n, 0) = Volume(d) /\ Stride(d, n, 0) \in Nat
  BY <1>1, Strides
<1>5. d[n] \in Nat /\ x[n] \in Nat
  BY <1>1
<1> QED BY <1>2, <1>3, <1>4, <1>5

\* Elements are stored in the order of their coordinates, and a run along the last
\* dimension ends before the elements of later rows.
LEMMA LinearGrows ==
  ASSUME NEW n \in Nat \ {0}, NEW d \in [1 .. n -> Nat],
         NEW x \in [1 .. n -> Nat], NEW y \in [1 .. n -> Nat],
         \A i \in 1 .. n : x[i] < d[i] /\ y[i] < d[i],
         NEW k \in 1 .. n, \A i \in 1 .. k - 1 : x[i] = y[i], x[k] < y[k],
         NEW cnt \in Nat, x[n] + cnt <= IF k = n THEN y[n] ELSE d[n]
  PROVE  Linear(d, x) + cnt <= Linear(d, y)
<1>1. x \in [1 .. n -> Int] /\ y \in [1 .. n -> Int] /\ n \in Nat
  <2>1. x = [i \in 1 .. n |-> x[i]] /\ y = [i \in 1 .. n |-> y[i]]
        /\ \A i \in 1 .. n : x[i] \in Int /\ y[i] \in Int
    OBVIOUS
  <2> QED BY <2>1
<1> DEFINE wx == Terms(d, n, x)
           wy == Terms(d, n, y)
           D == 1 .. n
           F == 1 .. k - 1
<1>2. /\ Part(d, n, x, n + 1) = 0
      /\ \A i \in 1 .. n + 1 : Part(d, n, x, i) \in Int
      /\ \A i \in 1 .. n : Part(d, n, x, i) = x[i] * Stride(d, n, i) + Part(d, n, x, i + 1)
      /\ Linear(d, x) = SumFunctionOnSet(wx, D)
  BY <1>1, LinearIs DEF Part
<1>3. /\ Part(d, n, y, n + 1) = 0
      /\ \A i \in 1 .. n + 1 : Part(d, n, y, i) \in Int
      /\ \A i \in 1 .. n : Part(d, n, y, i) = y[i] * Stride(d, n, i) + Part(d, n, y, i + 1)
      /\ Linear(d, y) = SumFunctionOnSet(wy, D)
  BY <1>1, LinearIs DEF Part
<1>4. /\ \A i \in 0 .. n : Stride(d, n, i) \in Nat
      /\ Stride(d, n, n) = 1
  BY <1>1, Strides
<1>5. \A i \in D : wx[i] \in Int /\ wy[i] \in Int /\ (x[i] = y[i] => wx[i] = wy[i])
  <2> TAKE i \in D
  <2>1. x[i] \in Int /\ y[i] \in Int /\ Stride(d, n, i) \in Int
    BY <1>1, <1>4
  <2>2. \A a, b \in Int : a * b \in Int
    OBVIOUS
  <2>3. x[i] * Stride(d, n, i) \in Int /\ y[i] * Stride(d, n, i) \in Int
    BY <2>1, <2>2
  <2> QED BY <2>3 DEF Terms
<1>6. IsFiniteSet(D) /\ F \in SUBSET D /\ IsFiniteSet(F)
  <2>1. 1 \in Int /\ n \in Int /\ k - 1 \in Int /\ F \in SUBSET D
    OBVIOUS
  <2> QED BY <2>1, FS_Interval
<1>7. D \ F = k .. n
  <2>1. \A i : i \in D \ F <=> i \in k .. n
    OBVIOUS
  <2> QED BY <2>1, Zenon
<1>8. \A i \in F : x[i] = y[i]
  OBVIOUS
<1> HIDE DEF wx, wy, D, F
<1>9. /\ SumFunctionOnSet(wx, D) = SumFunctionOnSet(wx, F) + SumFunctionOnSet(wx, D \ F)
      /\ SumFunctionOnSet(wy, D) = SumFunctionOnSet(wy, F) + SumFunctionOnSet(wy, D \ F)
  BY <1>5, <1>6, SumSplit
<1>10. SumFunctionOnSet(wx, F) = SumFunctionOnSet(wy, F) /\ SumFunctionOnSet(wx, F) \in Int
  <2>1. \A i \in F : wy[i] \in Int /\ wx[i] \in Int /\ wx[i] = wy[i]
    BY <1>5, <1>6, <1>8
  <2> QED BY <1>6, <2>1, SumSame, SumType
<1> DEFINE head == SumFunctionOnSet(wx, F)
           s == Stride(d, n, k)
           tx == Part(d, n, x, k + 1)
           ty == Part(d, n, y, k + 1)
           a == x[k]
           b == y[k]
<1>11. /\ Linear(d, x) = head + (a * s + tx) /\ Linear(d, y) = head + (b * s + ty)
  <2>1. /\ SumFunctionOnSet(wx, D \ F) = a * s + tx
        /\ SumFunctionOnSet(wy, D \ F) = b * s + ty
    BY <1>2, <1>3, <1>7 DEF Part, wx, wy
  <2> QED BY <1>2, <1>3, <1>9, <1>10, <2>1
<1>12. /\ head \in Int /\ s \in Nat /\ tx \in Int /\ ty \in Int /\ a \in Nat /\ b \in Nat /\ a + 1 <= b
       /\ k + 1 \in 1 .. n + 1
  <2>1. k + 1 \in 1 .. n + 1 /\ k \in 0 .. n
    OBVIOUS
  <2>2. a \in Nat /\ b \in Nat /\ a + 1 <= b
    OBVIOUS
  <2>3. head \in Int /\ s \in Nat
    BY <1>4, <1>10, <2>1
  <2>4. tx \in Int /\ ty \in Int
    BY <1>2, <1>3, <2>1
  <2> HIDE DEF head, s, tx, ty, a, b
  <2> QED BY <2>1, <2>2, <2>3, <2>4
<1>13. CASE k = n
  <2>1. s = 1 /\ tx = 0 /\ ty = 0 /\ a + cnt <= b
    BY <1>2, <1>3, <1>4, <1>13
  <2> HIDE DEF head, s, tx, ty, a, b
  <2> QED BY <1>11, <1>12, <2>1
<1>14. CASE k # n
  <2>1. k + 1 \in 1 .. n /\ (k + 1) - 1 = k /\ n \in 1 .. n
    BY <1>14
  <2>2. /\ ty \in Nat /\ tx \in Nat /\ tx + (d[n] - x[n]) <= s
    BY <2>1, PartBound
  <2>3. d[n] \in Nat /\ x[n] \in Nat /\ x[n] + cnt <= d[n]
    BY <1>14, <2>1
  <2>4. tx + cnt <= s
    <3> DEFINE u == d[n]
               v == x[n]
    <3>1. u \in Nat /\ v \in Nat /\ v + cnt <= u /\ tx + (u - v) <= s /\ tx \in Nat /\ s \in Nat
      BY <1>12, <2>2, <2>3
    <3> HIDE DEF tx, s, u, v
    <3> QED BY <3>1
  <2> HIDE DEF head, s, tx, ty, a, b
  <2>5. a * s \in Nat /\ (a + 1) * s = a * s + s /\ b * s \in Nat
    BY <1>12, Multiples
  <2>6. (a + 1) * s <= b * s
    <3>1. a + 1 \in Nat
      BY <1>12
    <3> QED BY <1>12, <3>1, Multiples
  <2> DEFINE p == a * s
             q == b * s
             r == (a + 1) * s
  <2>7. p \in Nat /\ q \in Nat /\ r = p + s /\ r <= q
    BY <2>5, <2>6
  <2>8. Linear(d, x) = head + (p + tx) /\ Linear(d, y) = head + (q + ty)
    BY <1>11
  <2> HIDE DEF p, q, r
  <2> QED BY <1>12, <2>2, <2>4, <2>7, <2>8
<1> QED BY <1>13, <1>14

-----------------------------------------------------------------------------
(* The elements of the blocks of a selection *)

\* Numbers below N that grow N times take every value in turn.
LEMMA Ranks ==
  ASSUME NEW N \in Nat, NEW f \in [1 .. N -> 0 .. N - 1],
         \A i, j \in 1 .. N : i < j => f[i] < f[j]
  PROVE  \A k \in 1 .. N : f[k] = k - 1
<1> DEFINE T == {j \in Nat : j + 1 \in 1 .. N => f[j + 1] >= j}
<1> DEFINE S == {j \in Nat : N - j \in 1 .. N => f[N - j] <= N - j - 1}
<1>1. 0 \in T
  OBVIOUS
<1>2. \A j \in T : j + 1 \in T
  <2> SUFFICES ASSUME NEW j \in T, j + 1 + 1 \in 1 .. N
               PROVE  f[j + 1 + 1] >= j + 1
    OBVIOUS
  <2>1. j + 1 \in 1 .. N /\ f[j + 1] \in Int /\ f[j + 1 + 1] \in Int
    OBVIOUS
  <2>2. f[j + 1] >= j /\ f[j + 1] < f[j + 1 + 1]
    BY <2>1
  <2> QED BY <2>1, <2>2
<1>3. T = Nat
  BY <1>1, <1>2, AllNat
<1>4. 0 \in S
  OBVIOUS
<1>5. \A j \in S : j + 1 \in S
  <2> SUFFICES ASSUME NEW j \in S, N - (j + 1) \in 1 .. N
               PROVE  f[N - (j + 1)] <= N - (j + 1) - 1
    OBVIOUS
  <2>1. N - j \in 1 .. N /\ f[N - j] \in Int /\ f[N - (j + 1)] \in Int
    OBVIOUS
  <2>2. f[N - j] <= N - j - 1 /\ f[N - (j + 1)] < f[N - j]
    BY <2>1
  <2> QED BY <2>1, <2>2
<1>6. S = Nat
  <2>1. S \in SUBSET Nat
    OBVIOUS
  <2> HIDE DEF S
  <2> QED BY <1>4, <1>5, <2>1, AllNat
<1> SUFFICES ASSUME NEW k \in 1 .. N
             PROVE  f[k] = k - 1
  OBVIOUS
<1>7. k - 1 \in T /\ N - k \in S
  <2> HIDE DEF T, S
  <2> QED BY <1>3, <1>6
<1>8. f[k] >= k - 1
  <2>1. k - 1 + 1 = k
    OBVIOUS
  <2> QED BY <1>7, <2>1
<1>9. f[k] <= k - 1
  <2>1. N - (N - k) = k
    OBVIOUS
  <2> QED BY <1>7, <2>1
<1> QED BY <1>8, <1>9

\* Where a coordinate is in a block.
Offset(s, c) == [i \in DOMAIN c |-> c[i] - s.start[i]]
BoxOfSel(n, s) == Cuboid(n, s.start, s.count)

\* The offset of an element of a block, and its place there.
LEMMA OffsetInside ==
  ASSUME NEW n \in Nat \ {0}, NEW s \in Sels(n), NEW c \in BoxOfSel(n, s)
  PROVE  /\ Offset(s, c) \in [1 .. n -> Nat] /\ c \in [1 .. n -> Int]
         /\ \A i \in 1 .. n : Offset(s, c)[i] = c[i] - s.start[i] /\ Offset(s, c)[i] < s.count[i]
         /\ Linear(s.count, Offset(s, c)) \in Nat
         /\ Volume(s.count) \in Nat
         /\ Linear(s.count, Offset(s, c)) < Volume(s.count)
<1>1. s.start \in [1 .. n -> Nat] /\ s.count \in [1 .. n -> Nat]
  BY SelFields
<1>2. c \in [1 .. n -> Int] /\ \A i \in 1 .. n : s.start[i] <= c[i] /\ c[i] < s.start[i] + s.count[i]
  BY DEF BoxOfSel, Cuboid, Vectors
<1>3. \A i \in 1 .. n : c[i] - s.start[i] \in Nat /\ c[i] - s.start[i] < s.count[i]
  BY <1>1, <1>2
<1>4. /\ Offset(s, c) \in [1 .. n -> Nat]
      /\ \A i \in 1 .. n : Offset(s, c)[i] = c[i] - s.start[i] /\ Offset(s, c)[i] < s.count[i]
  BY <1>2, <1>3 DEF Offset
<1>5. n \in 1 .. n /\ Offset(s, c)[n] + 1 <= s.count[n]
  <2>1. n \in 1 .. n
    OBVIOUS
  <2>2. Offset(s, c)[n] \in Nat /\ s.count[n] \in Nat /\ Offset(s, c)[n] < s.count[n]
    BY <1>1, <1>4, <2>1
  <2> QED BY <2>1, <2>2
<1>6. /\ Linear(s.count, Offset(s, c)) \in Nat /\ Linear(s.count, Offset(s, c)) + 1 <= Volume(s.count)
      /\ Volume(s.count) \in Nat
  BY <1>1, <1>4, <1>5, LinearInside, 1 \in Nat
<1> QED BY <1>2, <1>4, <1>6

\* The elements of a block come in the order of their places.
LEMMA CellPlaces ==
  ASSUME NEW n \in Nat \ {0}, NEW s \in Sels(n)
  PROVE  /\ CellsOf(s) \in [1 .. Volume(s.count) -> BoxOfSel(n, s)]
         /\ Volume(s.count) \in Nat
         /\ \A k \in 1 .. Volume(s.count) : Linear(s.count, Offset(s, CellsOf(s)[k])) = k - 1
         /\ \A c \in BoxOfSel(n, s) : CellsOf(s)[Linear(s.count, Offset(s, c)) + 1] = c
<1> DEFINE B == BoxOfSel(n, s)
<1> DEFINE N == Volume(s.count)
<1> DEFINE t == CellsOf(s)
<1> DEFINE f == [k \in 1 .. N |-> Linear(s.count, Offset(s, t[k]))]
<1>1. s.start \in [1 .. n -> Nat] /\ s.count \in [1 .. n -> Nat]
  BY SelFields
<1>2. B \in SUBSET Vectors(n) /\ BoxOf(s.start, s.count) = B
  BY <1>1, BoxIsCuboid DEF BoxOfSel, Cuboid
<1>3. IsFiniteSet(B) /\ Cardinality(B) = Product(s.count, 1 .. n)
  BY <1>1, CuboidSize, n \in 0 .. n DEF BoxOfSel
<1>4. Cardinality(B) = N /\ N \in Nat
  <2>1. Stride(s.count, n, 0) = N
    BY <1>1, Strides
  <2>2. 0 + 1 = 1
    OBVIOUS
  <2> QED BY <1>3, <2>1, <2>2, FS_CardinalityType DEF Stride
<1>5. Lists(t, B, Lex(B))
  BY <1>2, <1>3, VectorsInOrder DEF CellsOf
<1>6. /\ t \in [1 .. N -> B]
      /\ \A k, l \in 1 .. N : <<t[k], t[l]>> \in Lex(B) <=> k < l
      /\ \A x \in B : \E k \in 1 .. N : t[k] = x
  BY <1>4, <1>5 DEF Lists
<1> HIDE DEF t, N, B
<1>7. \A k \in 1 .. N : f[k] \in 0 .. N - 1
  <2> SUFFICES ASSUME NEW k \in 1 .. N
               PROVE  Linear(s.count, Offset(s, t[k])) \in 0 .. N - 1
    OBVIOUS
  <2>1. t[k] \in BoxOfSel(n, s)
    BY <1>6 DEF B
  <2>2. /\ Linear(s.count, Offset(s, t[k])) \in Nat
        /\ Linear(s.count, Offset(s, t[k])) < N
    BY <2>1, OffsetInside DEF N
  <2> QED BY <2>2, <1>4
<1>8. \A k, l \in 1 .. N : k < l => f[k] < f[l]
  <2> SUFFICES ASSUME NEW k \in 1 .. N, NEW l \in 1 .. N, k < l
               PROVE  Linear(s.count, Offset(s, t[k])) < Linear(s.count, Offset(s, t[l]))
    OBVIOUS
  <2> DEFINE x == Offset(s, t[k])
  <2> DEFINE y == Offset(s, t[l])
  <2>1. t[k] \in BoxOfSel(n, s) /\ t[l] \in BoxOfSel(n, s)
    BY <1>6 DEF B
  <2>2. /\ x \in [1 .. n -> Nat] /\ \A i \in 1 .. n : x[i] = t[k][i] - s.start[i] /\ x[i] < s.count[i]
        /\ Linear(s.count, x) \in Nat /\ t[k] \in [1 .. n -> Int]
    BY <2>1, OffsetInside
  <2>3. /\ y \in [1 .. n -> Nat] /\ \A i \in 1 .. n : y[i] = t[l][i] - s.start[i] /\ y[i] < s.count[i]
        /\ Linear(s.count, y) \in Nat /\ t[l] \in [1 .. n -> Int]
    BY <2>1, OffsetInside
  <2> HIDE DEF x, y
  <2>4. LessThan(t[k], t[l])
    BY <1>6 DEF Lex
  <2>5. PICK i \in 1 .. n : t[k][i] < t[l][i] /\ \A j \in 1 .. i - 1 : t[k][j] = t[l][j]
    BY <2>2, <2>4 DEF LessThan
  <2>6. x[i] < y[i] /\ \A j \in 1 .. i - 1 : x[j] = y[j]
    <3>1. x[i] < y[i]
      <4>1. /\ x[i] = t[k][i] - s.start[i] /\ y[i] = t[l][i] - s.start[i]
            /\ t[k][i] \in Int /\ t[l][i] \in Int /\ s.start[i] \in Nat
        BY <1>1, <2>2, <2>3
      <4> QED BY <2>5, <4>1
    <3>2. \A j \in 1 .. i - 1 : j \in 1 .. n
      OBVIOUS
    <3> QED BY <2>2, <2>3, <2>5, <3>1, <3>2
  <2>7. x[n] + 1 <= IF i = n THEN y[n] ELSE s.count[n]
    <3>1. n \in 1 .. n
      OBVIOUS
    <3>2. x[n] \in Nat /\ y[n] \in Nat /\ s.count[n] \in Nat /\ x[n] < s.count[n]
      BY <1>1, <2>2, <2>3, <3>1
    <3> QED BY <2>6, <3>2
  <2>8. Linear(s.count, x) + 1 <= Linear(s.count, y)
    BY <1>1, <2>2, <2>3, <2>6, <2>7, LinearGrows, 1 \in Nat
  <2> QED BY <2>2, <2>3, <2>8 DEF x, y
<1>9. f \in [1 .. N -> 0 .. N - 1]
  BY <1>7
<1>10. \A k \in 1 .. N : f[k] = k - 1
  <2> HIDE DEF f
  <2> QED BY <1>4, <1>8, <1>9, Ranks
<1>11. \A k \in 1 .. N : Linear(s.count, Offset(s, t[k])) = k - 1
  BY <1>10
<1>12. ASSUME NEW c \in B PROVE t[Linear(s.count, Offset(s, c)) + 1] = c
  <2>1. PICK k \in 1 .. N : t[k] = c
    BY <1>6
  <2>2. Linear(s.count, Offset(s, c)) = k - 1
    BY <1>11, <2>1
  <2>3. k - 1 + 1 = k
    OBVIOUS
  <2> QED BY <2>1, <2>2, <2>3
<1> QED BY <1>4, <1>6, <1>11, <1>12 DEF t, N, B

\* The elements of the blocks of a selection, block by block.
Pieces(sels) == [i \in DOMAIN sels |-> CellsOf(sels[i])]
\* How many elements are in the blocks before one.
Ahead(sels, i) == SelSize(SubSeq(sels, 1, i - 1))

\* The blocks are listed each on its own, and their lengths add up to the size of
\* the selection.
LEMMA PiecesShape ==
  ASSUME NEW n \in Nat \ {0}, NEW sels \in Seq(Sels(n))
  PROVE  /\ Len(sels) \in Nat /\ DOMAIN sels = 1 .. Len(sels)
         /\ Pieces(sels) \in Seq(Seq(Vectors(n))) /\ Len(Pieces(sels)) = Len(sels)
         /\ \A i \in 1 .. Len(sels) :
              /\ sels[i] \in Sels(n) /\ Pieces(sels)[i] = CellsOf(sels[i])
              /\ Volume(sels[i].count) \in Nat
              /\ Len(Pieces(sels)[i]) = Volume(sels[i].count)
         /\ \A i \in 0 .. Len(sels) : EndOf(Pieces(sels), i) = SelSize(SubSeq(sels, 1, i))
         /\ EndOf(Pieces(sels), Len(sels)) = SelSize(sels)
<1> DEFINE N == Len(sels)
           p == Pieces(sels)
           f == [i \in DOMAIN sels |-> Volume(sels[i].count)]
<1>1. N \in Nat /\ DOMAIN sels = 1 .. N /\ \A i \in 1 .. N : sels[i] \in Sels(n)
  BY LenProperties, ElementOfSeq
<1>2. ASSUME NEW i \in 1 .. N
      PROVE  /\ p[i] = CellsOf(sels[i]) /\ p[i] \in Seq(Vectors(n))
             /\ Volume(sels[i].count) \in Nat /\ Len(p[i]) = Volume(sels[i].count)
  <2>1. /\ CellsOf(sels[i]) \in [1 .. Volume(sels[i].count) -> BoxOfSel(n, sels[i])]
        /\ Volume(sels[i].count) \in Nat
    BY <1>1, CellPlaces
  <2>2. BoxOfSel(n, sels[i]) \in SUBSET Vectors(n)
    BY DEF BoxOfSel, Cuboid
  <2>3. CellsOf(sels[i]) \in [1 .. Volume(sels[i].count) -> Vectors(n)]
    BY <2>1, <2>2
  <2>4. p[i] = CellsOf(sels[i])
    BY <1>1 DEF Pieces
  <2> HIDE DEF p
  <2> QED BY <2>1, <2>3, <2>4, LenProperties
<1>3. p \in [1 .. N -> Seq(Vectors(n))]
  <2>1. p = [i \in 1 .. N |-> p[i]]
    BY <1>1 DEF Pieces
  <2> HIDE DEF p, N
  <2> QED BY <1>2, <2>1
<1>4. p \in Seq(Seq(Vectors(n))) /\ Len(p) = N
  <2> HIDE DEF p, N
  <2> QED BY <1>1, <1>3, LenProperties
<1>5. ASSUME NEW i \in 0 .. N
      PROVE  EndOf(p, i) = SelSize(SubSeq(sels, 1, i))
  <2> DEFINE t == SubSeq(sels, 1, i)
             g == [j \in DOMAIN t |-> Volume(t[j].count)]
  <2>0. sels \in [1 .. N -> Sels(n)] /\ 1 .. i \subseteq 1 .. N /\ i \in Nat
    <3>1. sels = [k \in 1 .. N |-> sels[k]]
      BY <1>1
    <3> HIDE DEF N
    <3> QED BY <1>1, <3>1
  <2>1. DOMAIN t = 1 .. i /\ \A j \in 1 .. i : t[j] = sels[j]
    <3> HIDE DEF N
    <3>1. t \in [1 .. i -> Sels(n)] /\ \A j \in 1 .. i : t[j] = sels[j]
      BY <1>1, <2>0, Prefix
    <3> QED BY <3>1
  <2>2. SelSize(t) = SumFunctionOnSet(g, 1 .. i)
    BY <2>1 DEF SelSize, SumFunction
  <2>3. \A j \in 1 .. i : g[j] = LengthsOf(p)[j] /\ g[j] \in Int
    <3> SUFFICES ASSUME NEW j \in 1 .. i PROVE g[j] = LengthsOf(p)[j] /\ g[j] \in Int
      OBVIOUS
    <3>1. j \in 1 .. N /\ j \in DOMAIN p
      BY <1>3, <2>0
    <3>2. g[j] = Volume(sels[j].count)
      BY <2>1
    <3>3. LengthsOf(p)[j] = Len(p[j])
      BY <3>1 DEF LengthsOf
    <3> HIDE DEF p, g, N
    <3> QED BY <1>2, <3>1, <3>2, <3>3
  <2>4. IsFiniteSet(1 .. i)
    BY FS_Interval
  <2> HIDE DEF g, t
  <2>5. SumFunctionOnSet(LengthsOf(p), 1 .. i) = SumFunctionOnSet(g, 1 .. i)
    BY <2>3, <2>4, SumSame
  <2> QED BY <2>2, <2>5 DEF EndOf, t
<1>6. SubSeq(sels, 1, N) = sels
  BY SubSeqFull
<1>7. N \in 0 .. N
  BY <1>1
<1> QED BY <1>1, <1>2, <1>4, <1>5, <1>6, <1>7

\* Every place in the list of elements is that of one element of one block, and
\* an element of a block has its place behind the blocks before.
LEMMA ElementPlaces ==
  ASSUME NEW n \in Nat \ {0}, NEW sels \in Seq(Sels(n))
  PROVE  /\ FlattenSeq(Pieces(sels)) \in Seq(Vectors(n))
         /\ Len(FlattenSeq(Pieces(sels))) = SelSize(sels) /\ SelSize(sels) \in Nat
         /\ \A i \in 1 .. Len(sels) : \A c \in BoxOfSel(n, sels[i]) :
              LET k == Ahead(sels, i) + Linear(sels[i].count, Offset(sels[i], c))
              IN  /\ k \in 0 .. SelSize(sels) - 1
                  /\ FlattenSeq(Pieces(sels))[k + 1] = c
         /\ \A k \in 1 .. SelSize(sels) :
              \E i \in 1 .. Len(sels) :
                /\ FlattenSeq(Pieces(sels))[k] \in BoxOfSel(n, sels[i])
                /\ k - 1 = Ahead(sels, i)
                     + Linear(sels[i].count, Offset(sels[i], FlattenSeq(Pieces(sels))[k]))
         /\ \A i \in 1 .. Len(sels) : Ahead(sels, i) \in Nat
<1> DEFINE N == Len(sels)
           p == Pieces(sels)
           V == Vectors(n)
           t == FlattenSeq(p)
<1>1. /\ N \in Nat /\ p \in Seq(Seq(V)) /\ Len(p) = N
      /\ \A i \in 1 .. N : /\ sels[i] \in Sels(n) /\ p[i] = CellsOf(sels[i])
                           /\ Volume(sels[i].count) \in Nat
                           /\ Len(p[i]) = Volume(sels[i].count)
      /\ \A i \in 0 .. N : EndOf(p, i) = SelSize(SubSeq(sels, 1, i))
      /\ EndOf(p, N) = SelSize(sels)
  BY PiecesShape
<1> HIDE DEF N, p, V
<1>2. /\ t \in Seq(V) /\ Len(t) = EndOf(p, N)
      /\ \A i \in 1 .. N : \A j \in 1 .. Len(p[i]) : t[EndOf(p, i - 1) + j] = p[i][j]
  BY <1>1, Flatten
<1>3. /\ \A i \in 0 .. N : EndOf(p, i) \in Nat
      /\ \A i \in 1 .. N : EndOf(p, i) = EndOf(p, i - 1) + Len(p[i])
      /\ \A i, j \in 0 .. N : i <= j => EndOf(p, i) <= EndOf(p, j)
  BY <1>1, Ends
<1> HIDE DEF t
<1>4. ASSUME NEW i \in 1 .. N
      PROVE  /\ i - 1 \in 0 .. N /\ Ahead(sels, i) = EndOf(p, i - 1) /\ Ahead(sels, i) \in Nat
             /\ Ahead(sels, i) + Volume(sels[i].count) <= SelSize(sels)
  <2>1. i - 1 \in 0 .. N /\ i \in 0 .. N /\ N \in 0 .. N /\ i <= N
    BY <1>1
  <2>2. Ahead(sels, i) = EndOf(p, i - 1)
    BY <1>1, <2>1 DEF Ahead
  <2>3. EndOf(p, i) = EndOf(p, i - 1) + Volume(sels[i].count) /\ EndOf(p, i) <= EndOf(p, N)
    BY <1>1, <1>3, <2>1
  <2> QED BY <1>1, <1>3, <2>1, <2>2, <2>3
<1>5. ASSUME NEW i \in 1 .. N, NEW c \in BoxOfSel(n, sels[i])
      PROVE  LET k == Ahead(sels, i) + Linear(sels[i].count, Offset(sels[i], c))
             IN  k \in 0 .. SelSize(sels) - 1 /\ t[k + 1] = c
  <2> DEFINE L == Linear(sels[i].count, Offset(sels[i], c))
  <2>1. L \in Nat /\ L < Volume(sels[i].count)
    BY <1>1, OffsetInside
  <2>2. CellsOf(sels[i])[L + 1] = c
    BY <1>1, CellPlaces
  <2> HIDE DEF L
  <2>3. L + 1 \in 1 .. Len(p[i])
    BY <1>1, <2>1
  <2>4. t[EndOf(p, i - 1) + (L + 1)] = c
    BY <1>1, <1>2, <2>2, <2>3
  <2>5. EndOf(p, i - 1) + (L + 1) = Ahead(sels, i) + L + 1
    BY <1>3, <1>4, <2>1
  <2>6. Ahead(sels, i) + L \in 0 .. SelSize(sels) - 1
    <3>1. /\ Ahead(sels, i) \in Nat /\ Volume(sels[i].count) \in Nat /\ SelSize(sels) \in Nat
          /\ Ahead(sels, i) + Volume(sels[i].count) <= SelSize(sels)
      BY <1>1, <1>3, <1>4, N \in 0 .. N
    <3> QED BY <2>1, <3>1
  <2> QED BY <2>4, <2>5, <2>6 DEF L
<1>6. ASSUME NEW k \in 1 .. SelSize(sels)
      PROVE  \E i \in 1 .. N :
               /\ t[k] \in BoxOfSel(n, sels[i])
               /\ k - 1 = Ahead(sels, i) + Linear(sels[i].count, Offset(sels[i], t[k]))
  <2>1. PICK i \in 1 .. N : \E j \in 1 .. Len(p[i]) : k = EndOf(p, i - 1) + j
    BY <1>1, PieceOf
  <2>2. PICK j \in 1 .. Len(p[i]) : k = EndOf(p, i - 1) + j
    BY <2>1
  <2>3. j \in 1 .. Volume(sels[i].count) /\ t[k] = CellsOf(sels[i])[j]
    BY <1>1, <1>2, <2>2
  <2>4. t[k] \in BoxOfSel(n, sels[i]) /\ Linear(sels[i].count, Offset(sels[i], t[k])) = j - 1
    <3>1. sels[i] \in Sels(n)
      BY <1>1
    <3>2. /\ CellsOf(sels[i]) \in [1 .. Volume(sels[i].count) -> BoxOfSel(n, sels[i])]
          /\ \A x \in 1 .. Volume(sels[i].count) :
               Linear(sels[i].count, Offset(sels[i], CellsOf(sels[i])[x])) = x - 1
      BY <3>1, CellPlaces
    <3> QED BY <2>3, <3>2
  <2>5. k - 1 = Ahead(sels, i) + (j - 1)
    BY <1>4, <2>2
  <2> QED BY <2>4, <2>5
<1>7. SelSize(sels) \in Nat
  BY <1>1, <1>3, N \in 0 .. N
<1> QED BY <1>1, <1>2, <1>4, <1>5, <1>6, <1>7 DEF t, p, N, V

\* A sequence of one sequence is flattened to it.
LEMMA FlattenOne ==
  ASSUME NEW V, NEW t \in Seq(V)
  PROVE  FlattenSeq(<<t>>) = t
<1> DEFINE p == <<t>>
<1>1. p \in Seq(Seq(V)) /\ Len(p) = 1 /\ p[1] = t
  OBVIOUS
<1> HIDE DEF p
<1>2. /\ FlattenSeq(p) \in Seq(V) /\ Len(FlattenSeq(p)) = EndOf(p, 1)
      /\ \A j \in 1 .. Len(t) : FlattenSeq(p)[EndOf(p, 1 - 1) + j] = t[j]
  <2>1. 1 \in 1 .. Len(p)
    BY <1>1
  <2> QED BY <1>1, <2>1, Flatten
<1>3. EndOf(p, 0) = 0 /\ EndOf(p, 1) = EndOf(p, 0) + Len(t)
  <2>1. 1 \in 1 .. Len(p) /\ 1 - 1 = 0
    BY <1>1
  <2> QED BY <1>1, <2>1, Ends
<1>4. Len(t) \in Nat /\ Len(FlattenSeq(p)) = Len(t)
  BY <1>2, <1>3, LenProperties
<1>5. \A j \in 1 .. Len(t) : FlattenSeq(p)[j] = t[j]
  BY <1>2, <1>3, <1>4
<1>6. FlattenSeq(p) = t
  BY <1>2, <1>4, <1>5, SeqEqual
<1> QED BY <1>6 DEF p

\* A block of one element has that element.
LEMMA PointCells ==
  ASSUME NEW n \in Nat \ {0}, NEW c \in [1 .. n -> Nat]
  PROVE  CellsOf([start |-> c, count |-> Ones(c)]) = <<c>>
<1> DEFINE s == [start |-> c, count |-> Ones(c)]
           N == Volume(s.count)
           t == CellsOf(s)
<1>1. s \in Sels(n) /\ s.start = c /\ \A i \in 1 .. n : s.count[i] = 1
  <2>1. Ones(c) \in [1 .. n -> Nat] /\ \A i \in 1 .. n : Ones(c)[i] = 1
    BY DEF Ones
  <2> QED BY <2>1, SelShape
<1> HIDE DEF s
<1>2. c \in BoxOfSel(n, s)
  <2>1. c \in Vectors(n)
    BY DEF Vectors
  <2>2. \A i \in 1 .. n : s.start[i] <= c[i] /\ c[i] < s.start[i] + s.count[i]
    BY <1>1
  <2> QED BY <2>1, <2>2 DEF BoxOfSel, Cuboid
<1>3. ASSUME NEW x \in BoxOfSel(n, s) PROVE x = c
  <2>1. x \in [1 .. n -> Int] /\ \A i \in 1 .. n : c[i] <= x[i] /\ x[i] < c[i] + 1
    BY <1>1 DEF BoxOfSel, Cuboid, Vectors
  <2>2. \A i \in 1 .. n : x[i] = c[i]
    BY <2>1
  <2>3. c \in [1 .. n -> Int]
    OBVIOUS
  <2> QED BY <2>1, <2>2, <2>3
<1>4. /\ t \in [1 .. N -> BoxOfSel(n, s)] /\ N \in Nat
      /\ \A k \in 1 .. N : Linear(s.count, Offset(s, t[k])) = k - 1
  BY <1>1, CellPlaces
<1>5. 0 < N
  <2>1. /\ Linear(s.count, Offset(s, c)) \in Nat
        /\ Linear(s.count, Offset(s, c)) < Volume(s.count)
    BY <1>1, <1>2, OffsetInside
  <2> QED BY <1>4, <2>1
<1> HIDE DEF t, N
<1>6. N = 1
  <2> SUFFICES ASSUME N # 1 PROVE FALSE
    OBVIOUS
  <2>1. 1 \in 1 .. N /\ 2 \in 1 .. N
    BY <1>4, <1>5
  <2>2. t[1] = c /\ t[2] = c
    BY <1>3, <1>4, <2>1
  <2>3. 1 - 1 = 2 - 1
    BY <1>4, <2>1, <2>2
  <2> QED BY <2>3
<1>7. t = [k \in 1 .. 1 |-> c]
  <2>1. \A k \in 1 .. 1 : t[k] = c
    BY <1>3, <1>4, <1>6
  <2>2. t = [k \in 1 .. 1 |-> t[k]]
    BY <1>4, <1>6
  <2> QED BY <2>1, <2>2
<1> QED BY <1>7 DEF t, s

\* Dataspaces whose elements are those of the blocks they become, in order.
Plain(ds) ==
  \/ ds.type = "hyperslabs" /\ Len(ds.blocks) = 1
  \/ ds.type \in {"points", "list", "none"}

\* The elements of such a dataspace, block by block.
LEMMA ElementsAreCells ==
  ASSUME NEW dims \in Seq(Nat \ {0}), Len(dims) # 0, NEW ds, Fits(ds, dims), Plain(ds)
  PROVE  Elements(ds, dims) = FlattenSeq(Pieces(ArraysOf(ds, dims)))
<1> DEFINE n == Len(dims)
           sels == ArraysOf(ds, dims)
<1>1. n \in Nat \ {0} /\ sels \in Seq(Sels(n))
  BY ArraysShape, LenProperties
<1>2. /\ Pieces(sels) \in Seq(Seq(Vectors(n))) /\ Len(Pieces(sels)) = Len(sels)
      /\ DOMAIN sels = 1 .. Len(sels) /\ Len(sels) \in Nat
      /\ \A i \in 1 .. Len(sels) : Pieces(sels)[i] = CellsOf(sels[i])
  <2> HIDE DEF n, sels
  <2> QED BY <1>1, PiecesShape
<1>3. CASE ds.type = "hyperslabs"
  <2> DEFINE b == ds.blocks[1]
  <2>1. Len(ds.blocks) = 1 /\ ds.blocks \in Seq([start : Coordinates, end : Coordinates])
    BY <1>3 DEF Plain, Fits, IsDataspace
  <2>2. ToSet(ds.blocks) = {b}
    <3> DEFINE bs == ds.blocks
    <3>1. DOMAIN bs = {1}
      <4>1. DOMAIN bs = 1 .. 1
        BY <2>1, LenProperties
      <4> HIDE DEF bs
      <4> QED BY <4>1
    <3> HIDE DEF bs
    <3>2. ToSet(bs) = {bs[1]}
      BY <3>1 DEF ToSet
    <3> QED BY <3>2 DEF bs
  <2>3. UNION {BoxOf(x.start, Whole(x).count) : x \in ToSet(ds.blocks)} = BoxOf(b.start, Whole(b).count)
    BY <2>2
  <2>4. sels = <<Whole(b)>>
    BY <1>3, <2>1 DEF ArraysOf, Multiple
  <2>5. Whole(b).start = b.start
    BY DEF Whole
  <2>6. Elements(ds, dims) = CellsOf(Whole(b))
    <3>1. Elements(ds, dims)
            = InOrder(UNION {BoxOf(x.start, Whole(x).count) : x \in ToSet(ds.blocks)}, LessThan)
      BY <1>3 DEF Elements
    <3> QED BY <2>3, <2>5, <3>1 DEF CellsOf
  <2> HIDE DEF b, n
  <2>7. Len(sels) = 1 /\ sels[1] = Whole(b)
    BY <2>4
  <2> HIDE DEF sels
  <2>8. CellsOf(Whole(b)) \in Seq(Vectors(n))
    <3>1. Pieces(sels)[1] = CellsOf(Whole(b)) /\ 1 \in 1 .. Len(Pieces(sels))
      BY <1>2, <2>7
    <3>2. Pieces(sels)[1] \in Seq(Vectors(n))
      BY <1>2, <3>1, ElementOfSeq
    <3> QED BY <3>1, <3>2
  <2>9. Pieces(sels) = <<CellsOf(Whole(b))>>
    BY <1>2, <2>7 DEF Pieces
  <2> QED BY <2>6, <2>8, <2>9, FlattenOne DEF sels
<1>4. CASE ds.type = "points"
  <2> DEFINE ps == ds.points
             N == Len(ps)
             V == Vectors(n)
             p == Pieces(sels)
  <2>1. sels = [i \in DOMAIN ps |-> [start |-> ps[i], count |-> Ones(ps[i])]]
    BY <1>4 DEF ArraysOf, Multiple
  <2>2. ps \in Seq(Coordinates) /\ N \in Nat /\ DOMAIN ps = 1 .. N
    BY <1>4, LenProperties DEF Fits, IsDataspace
  <2>3. ASSUME NEW i \in 1 .. N
        PROVE  sels[i] = [start |-> ps[i], count |-> Ones(ps[i])] /\ sels[i].start = ps[i]
    <3>1. sels[i] = [start |-> ps[i], count |-> Ones(ps[i])]
      BY <2>1, <2>2
    <3> QED BY <3>1
  <2>4. Len(sels) = N
    <3>1. DOMAIN sels = 1 .. N
      BY <2>1, <2>2
    <3> HIDE DEF sels, N
    <3> QED BY <1>1, <2>2, <3>1, LenProperties
  <2>5. Elements(ds, dims) = ps
    BY <1>4 DEF Elements
  <2> HIDE DEF sels, n, ps, N
  <2>6. ASSUME NEW i \in 1 .. N PROVE ps[i] \in [1 .. n -> Nat] /\ p[i] = <<ps[i]>> /\ ps[i] \in V
    <3>1. sels[i] \in Sels(n)
      BY <1>1, <2>4, ElementOfSeq
    <3>2. sels[i].start \in [1 .. n -> Nat] /\ sels[i].start = ps[i] /\ ps[i] \in Vectors(n)
      <4>1. sels[i].start = ps[i]
        BY <2>3
      <4>2. sels[i].start \in [1 .. n -> Nat] /\ sels[i].start \in Vectors(n)
        BY <1>1, <3>1, SelFields
      <4> QED BY <4>1, <4>2
    <3>3. CellsOf(sels[i]) = <<ps[i]>>
      BY <1>1, <2>3, <3>2, PointCells
    <3> QED BY <1>2, <2>4, <3>2, <3>3
  <2> HIDE DEF p, V
  <2>7. p \in Seq(Seq(V)) /\ Len(p) = N /\ \A i \in 1 .. Len(p) : Len(p[i]) = 1
    <3>1. p \in Seq(Seq(V)) /\ Len(p) = N
      BY <1>2, <2>4 DEF p, V
    <3>2. ASSUME NEW i \in 1 .. N PROVE Len(p[i]) = 1
      <4>1. p[i] = <<ps[i]>>
        BY <2>6
      <4> QED BY <4>1
    <3> QED BY <3>1, <3>2
  <2>8. /\ FlattenSeq(p) \in Seq(V) /\ Len(FlattenSeq(p)) = Len(p) * 1
        /\ \A i \in 1 .. Len(p), j \in 1 .. 1 : FlattenSeq(p)[(i - 1) * 1 + j] = p[i][j]
    BY <2>7, FlattenEqual, 1 \in Nat
  <2>9. \A i \in 1 .. N : FlattenSeq(p)[i] = ps[i]
    <3> SUFFICES ASSUME NEW i \in 1 .. N PROVE FlattenSeq(p)[i] = ps[i]
      OBVIOUS
    <3>1. FlattenSeq(p)[(i - 1) * 1 + 1] = p[i][1]
      BY <2>7, <2>8
    <3>2. (i - 1) * 1 + 1 = i
      BY <2>2
    <3>3. p[i][1] = ps[i]
      BY <2>6
    <3> QED BY <3>1, <3>2, <3>3
  <2>10. ps \in Seq(V)
    <3>1. ps = [i \in 1 .. N |-> ps[i]]
      BY <2>2
    <3>2. ps \in [1 .. N -> V]
      BY <2>6, <3>1
    <3> QED BY <2>2, <3>2, LenProperties
  <2>11. Len(FlattenSeq(p)) = N /\ Len(ps) = N
    <3>1. N * 1 = N
      BY <2>2
    <3> QED BY <2>7, <2>8, <3>1 DEF N
  <2>12. FlattenSeq(p) = ps
    BY <2>8, <2>9, <2>10, <2>11, SeqEqual
  <2> QED BY <2>5, <2>12 DEF p, sels
<1>5. CASE ds.type = "list"
  <2>1. sels = ds.blocks
    BY <1>5 DEF ArraysOf, Multiple
  <2>2. Elements(ds, dims) = FlattenSeq([i \in DOMAIN ds.blocks |-> CellsOf(ds.blocks[i])])
    BY <1>5 DEF Elements
  <2> QED BY <2>1, <2>2 DEF Pieces
<1>6. CASE ds.type = "none"
  <2>1. sels = <<>> /\ Elements(ds, dims) = <<>>
    BY <1>6 DEF ArraysOf, Multiple, Elements
  <2> HIDE DEF sels, n
  <2>2. Len(Pieces(sels)) = 0
    BY <1>2, <2>1
  <2>3. Pieces(sels) = <<>>
    BY <1>2, <2>1, <2>2 DEF Pieces
  <2>4. FlattenSeq(Pieces(sels)) = <<>>
    <3>1. SelSize(sels) = EndOf(Pieces(sels), 0)
      BY <1>1, <1>2, <2>1, PiecesShape
    <3>2. EndOf(Pieces(sels), 0) = 0
      BY <1>2, Ends
    <3>3. FlattenSeq(Pieces(sels)) \in Seq(Vectors(n)) /\ Len(FlattenSeq(Pieces(sels))) = SelSize(sels)
      BY <1>1, ElementPlaces
    <3> QED BY <3>1, <3>2, <3>3, EmptySeq
  <2> QED BY <2>1, <2>4 DEF sels
<1> QED BY <1>3, <1>4, <1>5, <1>6 DEF Plain

-----------------------------------------------------------------------------
(* Trimming overlapping runs *)

Runs == [f : Int, m : Int, len : Nat]
Copies == [dst : Int, src : Int, size : Int]
Plans(M) == [runs : [1 .. M -> Runs], copies : Seq(Copies)]
EndOfRun(r) == r.f + r.len

\* A cut replaces one run.
LEMMA CutIs ==
  ASSUME NEW M \in Nat, NEW runs \in [1 .. M -> Runs], NEW l \in 1 .. M, NEW size \in Int,
         size <= runs[l].len
  PROVE  /\ Cut(runs, l, size) \in [1 .. M -> Runs]
         /\ \A i \in 1 .. M : i # l => Cut(runs, l, size)[i] = runs[i]
         /\ Cut(runs, l, size)[l]
              = [f |-> runs[l].f + size, m |-> runs[l].m + size, len |-> runs[l].len - size]
<1> DEFINE front == SubSeq(runs, 1, l - 1)
           cut == [f |-> runs[l].f + size, m |-> runs[l].m + size, len |-> runs[l].len - size]
           back == SubSeq(runs, l + 1, M)
           k == l - 1
<1>1. /\ runs \in Seq(Runs) /\ Len(runs) = M /\ l \in Nat /\ l <= M /\ 1 <= l
      /\ k \in Nat /\ 1 .. k \subseteq 1 .. M /\ k + 1 = l
  BY LenProperties
<1>2. cut \in Runs
  <2>1. runs[l] \in Runs
    OBVIOUS
  <2> QED BY <2>1 DEF Runs
<1>3. front \in Seq(Runs) /\ Len(front) = k /\ \A i \in 1 .. k : front[i] = runs[i]
  <2> HIDE DEF k
  <2> SUFFICES /\ SubSeq(runs, 1, k) \in Seq(Runs) /\ Len(SubSeq(runs, 1, k)) = k
               /\ \A i \in 1 .. k : SubSeq(runs, 1, k)[i] = runs[i]
    BY DEF k
  <2>1. SubSeq(runs, 1, k) \in Seq(Runs)
    BY <1>1, Prefix
  <2>2. Len(SubSeq(runs, 1, k)) = k
    BY <1>1, Prefix
  <2>3. \A i \in 1 .. k : SubSeq(runs, 1, k)[i] = runs[i]
    BY <1>1, Prefix
  <2> QED BY <2>1, <2>2, <2>3
<1>4. back \in Seq(Runs) /\ Len(back) = M - l /\ \A i \in 1 .. M - l : back[i] = runs[l + i]
  <2>1. \A i \in l + 1 .. M : runs[i] \in Runs
    BY <1>1
  <2>2. /\ back \in Seq(Runs) /\ Len(back) = IF l + 1 <= M THEN M - (l + 1) + 1 ELSE 0
        /\ \A i \in 1 .. M - (l + 1) + 1 : back[i] = runs[l + 1 + i - 1]
    BY <1>1, <2>1, SubSeqProperties
  <2> QED BY <1>1, <2>2
<1> HIDE DEF front, cut, back
<1>5. Cut(runs, l, size) = front \o <<cut>> \o back
  BY <1>1 DEF Cut, front, cut, back
<1> DEFINE fc == front \o <<cut>>
           all == fc \o back
<1>6. /\ fc \in Seq(Runs) /\ Len(fc) = l
      /\ \A i \in 1 .. k : fc[i] = runs[i]
      /\ fc[l] = cut
  <2>1. <<cut>> \in Seq(Runs) /\ Len(<<cut>>) = 1 /\ <<cut>>[1] = cut
    BY <1>2
  <2> DEFINE one == <<cut>>
  <2> HIDE DEF one
  <2>2. one \in Seq(Runs) /\ Len(one) = 1 /\ one[1] = cut
    BY <2>1 DEF one
  <2>3. /\ front \o one \in Seq(Runs) /\ Len(front \o one) = Len(front) + Len(one)
        /\ \A i \in 1 .. Len(front) + Len(one) : (front \o one)[i]
             = IF i <= Len(front) THEN front[i] ELSE one[i - Len(front)]
    BY <1>3, <2>2, ConcatProperties
  <2>4. \A i \in 1 .. l : (front \o one)[i] = IF i <= k THEN front[i] ELSE one[i - k]
    BY <1>1, <1>3, <2>2, <2>3
  <2>5. l \in 1 .. l /\ ~(l <= k) /\ l - k = 1 /\ \A i \in 1 .. k : i \in 1 .. l /\ i <= k
    BY <1>1
  <2>6. fc = front \o one
    BY DEF one
  <2> HIDE DEF fc, k
  <2> QED BY <1>1, <1>3, <2>2, <2>3, <2>4, <2>5, <2>6
<1> HIDE DEF fc
<1>7. /\ all \in Seq(Runs) /\ Len(all) = M
      /\ \A i \in 1 .. l : all[i] = fc[i]
      /\ \A i \in l + 1 .. M : all[i] = runs[i]
  <2>1. /\ all \in Seq(Runs) /\ Len(all) = Len(fc) + Len(back)
        /\ \A i \in 1 .. Len(fc) + Len(back) : all[i]
             = IF i <= Len(fc) THEN fc[i] ELSE back[i - Len(fc)]
    BY <1>4, <1>6, ConcatProperties
  <2> HIDE DEF all
  <2>2. Len(all) = M /\ \A i \in 1 .. M : all[i] = IF i <= l THEN fc[i] ELSE back[i - l]
    <3>1. Len(fc) = l /\ Len(back) = M - l /\ l + (M - l) = M
      BY <1>1, <1>4, <1>6
    <3> QED BY <2>1, <3>1
  <2>3. \A i \in l + 1 .. M : i \in 1 .. M /\ ~(i <= l) /\ i - l \in 1 .. M - l /\ l + (i - l) = i
    BY <1>1
  <2>4. \A i \in 1 .. l : i \in 1 .. M /\ i <= l
    BY <1>1
  <2>5. \A i \in l + 1 .. M : all[i] = runs[i]
    <3> TAKE i \in l + 1 .. M
    <3>1. all[i] = back[i - l] /\ back[i - l] = runs[l + (i - l)]
      BY <1>4, <2>2, <2>3
    <3> QED BY <2>3, <3>1
  <2> QED BY <2>1, <2>2, <2>4, <2>5
<1> HIDE DEF all
<1>8. all \in [1 .. M -> Runs]
  BY <1>1, <1>7, LenProperties
<1>9. \A i \in 1 .. M : i # l => all[i] = runs[i]
  <2> TAKE i \in 1 .. M
  <2> HAVE i # l
  <2>1. i \in 1 .. k \/ i \in l + 1 .. M
    BY <1>1
  <2>2. CASE i \in 1 .. k
    BY <1>1, <1>6, <1>7, <2>2
  <2>3. CASE i \in l + 1 .. M
    BY <1>7, <2>3
  <2> QED BY <2>1, <2>2, <2>3
<1>10. all[l] = cut
  BY <1>1, <1>6, <1>7
<1> QED BY <1>5, <1>8, <1>9, <1>10 DEF all, fc, cut

\* A pair: the later run may lose its front, up to the end of the earlier one.
LEMMA PairTrimmed ==
  ASSUME NEW M \in Nat, NEW plan \in Plans(M), NEW k \in 1 .. M, NEW l \in 1 .. M, k # l
  PROVE  LET t == TrimPair(plan, k, l)
         IN  /\ t \in Plans(M)
             /\ \A i \in 1 .. M : i # l => t.runs[i] = plan.runs[i]
             /\ t.runs[l].f >= plan.runs[l].f
             /\ EndOfRun(t.runs[l]) = EndOfRun(plan.runs[l])
             /\ \/ t.runs[l].f >= EndOfRun(plan.runs[l])
                \/ t.runs[l].f >= EndOfRun(plan.runs[k])
<1> DEFINE a == plan.runs[k]
           b == plan.runs[l]
           size == Covered(a, b)
           t == TrimPair(plan, k, l)
           copy == [dst |-> b.m, src |-> a.m - size + a.len, size |-> size]
<1>1. /\ plan.runs \in [1 .. M -> Runs] /\ plan.copies \in Seq(Copies)
      /\ a \in Runs /\ b \in Runs
  BY DEF Plans
<1>2. /\ a.f \in Int /\ a.m \in Int /\ a.len \in Nat
      /\ b.f \in Int /\ b.m \in Int /\ b.len \in Nat
  BY <1>1 DEF Runs
<1>3. CASE a.f + a.len <= b.f
  <2>1. t = plan
    BY <1>3 DEF TrimPair
  <2>2. EndOfRun(b) = b.f + b.len /\ EndOfRun(a) = a.f + a.len
    BY DEF EndOfRun
  <2> HIDE DEF a, b
  <2>3. b.f >= b.f /\ b.f >= EndOfRun(a)
    BY <1>2, <1>3, <2>2
  <2> QED BY <2>1, <2>3 DEF a, b, t
<1>4. CASE ~(a.f + a.len <= b.f)
  <2>1. size \in Nat /\ size <= b.len /\ (b.f + size = b.f + b.len \/ b.f + size = a.f + a.len)
    <3> HIDE DEF a, b
    <3>1. size = IF b.len < a.f + a.len - b.f THEN b.len ELSE a.f + a.len - b.f
      BY DEF Covered
    <3> QED BY <1>2, <1>4, <3>1
  <2>2. t = [runs |-> Cut(plan.runs, l, size), copies |-> Append(plan.copies, copy)]
    BY <1>4 DEF TrimPair
  <2> HIDE DEF size
  <2> DEFINE cut == Cut(plan.runs, l, size)
  <2>3. /\ cut \in [1 .. M -> Runs]
        /\ \A i \in 1 .. M : i # l => cut[i] = plan.runs[i]
        /\ cut[l] = [f |-> b.f + size, m |-> b.m + size, len |-> b.len - size]
    <3>1. size \in Int /\ size <= plan.runs[l].len
      BY <2>1
    <3> QED BY <1>1, <3>1, CutIs
  <2>4. copy \in Copies
    <3> HIDE DEF a, b
    <3>1. b.m \in Int /\ a.m - size + a.len \in Int /\ size \in Int
      BY <1>2, <2>1
    <3> QED BY <3>1 DEF Copies
  <2> HIDE DEF cut, copy
  <2>5. Append(plan.copies, copy) \in Seq(Copies)
    BY <1>1, <2>4, AppendProperties
  <2>6. t.runs = cut /\ t.copies = Append(plan.copies, copy) /\ t \in Plans(M)
    BY <2>2, <2>3, <2>5 DEF Plans, cut
  <2>7. cut[l].f = b.f + size /\ EndOfRun(cut[l]) = b.f + size + (b.len - size)
    BY <2>3 DEF EndOfRun
  <2>8. EndOfRun(b) = b.f + b.len /\ EndOfRun(a) = a.f + a.len
    BY DEF EndOfRun
  <2> HIDE DEF a, b, t
  <2>9. /\ cut[l].f >= b.f /\ EndOfRun(cut[l]) = EndOfRun(b)
        /\ cut[l].f >= EndOfRun(b) \/ cut[l].f >= EndOfRun(a)
    BY <1>2, <2>1, <2>7, <2>8
  <2> QED BY <2>3, <2>6, <2>9 DEF a, b, t
<1> QED BY <1>3, <1>4

\* What trimming leaves of runs: they end where they did, none starts earlier, and
\* if a later one starts before the end of an earlier one, it is empty.
TrimOf(M, runs, plan) ==
  /\ plan \in Plans(M)
  /\ \A i \in 1 .. M : /\ plan.runs[i].f >= runs[i].f
                       /\ EndOfRun(plan.runs[i]) = EndOfRun(runs[i])
Parted(runs, got, k, l) == got[l].f >= EndOfRun(runs[l]) \/ got[l].f >= EndOfRun(runs[k])

\* A further pair is trimmed apart, and the pairs before it stay so.
LEMMA TrimMore ==
  ASSUME NEW M \in Nat, NEW runs \in [1 .. M -> Runs], NEW plan, TrimOf(M, runs, plan),
         NEW k \in 1 .. M, NEW l \in 1 .. M, k # l
  PROVE  /\ TrimOf(M, runs, TrimPair(plan, k, l))
         /\ Parted(runs, TrimPair(plan, k, l).runs, k, l)
         /\ \A i, j \in 1 .. M : Parted(runs, plan.runs, i, j)
              => Parted(runs, TrimPair(plan, k, l).runs, i, j)
<1> DEFINE t == TrimPair(plan, k, l)
<1>1. /\ t \in Plans(M)
      /\ \A i \in 1 .. M : i # l => t.runs[i] = plan.runs[i]
      /\ t.runs[l].f >= plan.runs[l].f
      /\ EndOfRun(t.runs[l]) = EndOfRun(plan.runs[l])
      /\ t.runs[l].f >= EndOfRun(plan.runs[l]) \/ t.runs[l].f >= EndOfRun(plan.runs[k])
  BY PairTrimmed DEF TrimOf
<1> HIDE DEF t
<1>2. \A i \in 1 .. M : /\ plan.runs[i].f >= runs[i].f
                        /\ EndOfRun(plan.runs[i]) = EndOfRun(runs[i])
  BY DEF TrimOf
<1>3. \A i \in 1 .. M : /\ runs[i].f \in Int /\ plan.runs[i].f \in Int /\ t.runs[i].f \in Int
                        /\ runs[i].len \in Nat
  BY <1>1 DEF Plans, Runs, TrimOf
<1>4. \A i \in 1 .. M : t.runs[i].f >= plan.runs[i].f /\ EndOfRun(runs[i]) \in Int
  <2> TAKE i \in 1 .. M
  <2>1. plan.runs[i].f \in Int /\ runs[i].f \in Int /\ runs[i].len \in Nat
    BY <1>3
  <2> QED BY <1>1, <2>1 DEF EndOfRun
<1>5. TrimOf(M, runs, t)
  <2>1. \A i \in 1 .. M : t.runs[i].f >= runs[i].f
    <3>1. \A a, b, c \in Int : a >= b /\ b >= c => a >= c
      OBVIOUS
    <3> QED BY <1>2, <1>3, <1>4, <3>1, Zenon
  <2>2. \A i \in 1 .. M : EndOfRun(t.runs[i]) = EndOfRun(runs[i])
    BY <1>1, <1>2
  <2> QED BY <1>1, <2>1, <2>2 DEF TrimOf
<1>6. Parted(runs, t.runs, k, l)
  BY <1>1, <1>2 DEF Parted
<1>7. ASSUME NEW i \in 1 .. M, NEW j \in 1 .. M, Parted(runs, plan.runs, i, j)
      PROVE  Parted(runs, t.runs, i, j)
  <2>1. \A e \in Int : plan.runs[j].f >= e => t.runs[j].f >= e
    BY <1>3, <1>4
  <2> QED BY <1>4, <1>7, <2>1 DEF Parted
<1> QED BY <1>5, <1>6, <1>7 DEF t

\* The pairs of positions, the smaller one first.
PairsOf(M) == {p \in (1 .. M) \X (1 .. M) : p[1] < p[2]}

\* The pairs are listed, each of them at some place.
LEMMA PairsInOrder ==
  ASSUME NEW M \in Nat
  PROVE  /\ Cardinality(PairsOf(M)) \in Nat
         /\ InOrder(PairsOf(M), LessThan) \in [1 .. Cardinality(PairsOf(M)) -> PairsOf(M)]
         /\ \A p \in PairsOf(M) : \E j \in 1 .. Cardinality(PairsOf(M)) :
              InOrder(PairsOf(M), LessThan)[j] = p
<1> DEFINE S == PairsOf(M)
<1>1. IsFiniteSet(1 .. M)
  BY FS_Interval
<1>2. IsFiniteSet((1 .. M) \X (1 .. M))
  BY <1>1, FS_Product
<1>3. S \in SUBSET ((1 .. M) \X (1 .. M))
  BY DEF PairsOf
<1>4. IsFiniteSet(S) /\ Cardinality(S) \in Nat
  BY <1>2, <1>3, FS_Subset, FS_CardinalityType
<1>5. S \in SUBSET Vectors(2)
  <2>1. \A a, b \in Int : <<a, b>> \in [1 .. 2 -> Int]
    OBVIOUS
  <2>2. \A p \in (1 .. M) \X (1 .. M) : p = <<p[1], p[2]>> /\ p[1] \in Int /\ p[2] \in Int
    OBVIOUS
  <2>3. \A p \in (1 .. M) \X (1 .. M) : p \in [1 .. 2 -> Int]
    BY <2>1, <2>2
  <2> QED BY <1>3, <2>3 DEF Vectors
<1>6. Lists(InOrder(S, LessThan), S, Lex(S))
  <2>1. 2 \in Nat
    OBVIOUS
  <2> HIDE DEF S
  <2> QED BY <1>4, <1>5, <2>1, VectorsInOrder
<1> QED BY <1>4, <1>6 DEF Lists

\* The steps of trimming: the pairs in the order they are taken, those of an
\* earlier run first, and the plan after each.
TrimsBy(M, runs, P, pairs, plan) ==
  /\ P \in Nat /\ pairs \in [1 .. P -> PairsOf(M)] /\ plan \in [0 .. P -> Plans(M)]
  /\ \A i, j \in 1 .. P : i < j => pairs[i][1] <= pairs[j][1]
  /\ \A j \in 1 .. P, p \in PairsOf(M) : p[1] < pairs[j][1] => \E i \in 1 .. j - 1 : pairs[i] = p
  /\ \A p \in PairsOf(M) : \E j \in 1 .. P : pairs[j] = p
  /\ plan[0] = [runs |-> runs, copies |-> <<>>] /\ plan[P] = Trimmed(runs)
  /\ \A j \in 1 .. P : plan[j] = TrimPair(plan[j - 1], pairs[j][1], pairs[j][2])

\* The pairs come by their first position, all of an earlier one before those of a
\* later one.
LEMMA PairsByFirst ==
  ASSUME NEW M \in Nat
  PROVE  LET pairs == InOrder(PairsOf(M), LessThan)
             P == Cardinality(PairsOf(M))
         IN  /\ \A i, j \in 1 .. P : i < j => pairs[i][1] <= pairs[j][1]
             /\ \A j \in 1 .. P, p \in PairsOf(M) :
                  p[1] < pairs[j][1] => \E i \in 1 .. j - 1 : pairs[i] = p
<1> DEFINE S == PairsOf(M)
           pairs == InOrder(PairsOf(M), LessThan)
           P == Cardinality(PairsOf(M))
<1>1. IsFiniteSet(1 .. M)
  BY FS_Interval
<1>2. IsFiniteSet((1 .. M) \X (1 .. M))
  BY <1>1, FS_Product
<1>3. S \in SUBSET ((1 .. M) \X (1 .. M))
  BY DEF PairsOf
<1>4. IsFiniteSet(S) /\ Cardinality(S) \in Nat
  BY <1>2, <1>3, FS_Subset, FS_CardinalityType
<1>5. S \in SUBSET Vectors(2)
  <2>1. \A a, b \in Int : <<a, b>> \in [1 .. 2 -> Int]
    OBVIOUS
  <2>2. \A p \in (1 .. M) \X (1 .. M) : p = <<p[1], p[2]>> /\ p[1] \in Int /\ p[2] \in Int
    OBVIOUS
  <2>3. \A p \in (1 .. M) \X (1 .. M) : p \in [1 .. 2 -> Int]
    BY <2>1, <2>2
  <2> QED BY <1>3, <2>3 DEF Vectors
<1>6. Lists(pairs, S, Lex(S)) /\ \A x, y \in S : <<x, y>> \in Lex(S) <=> LessThan(x, y)
  <2>1. 2 \in Nat
    OBVIOUS
  <2> HIDE DEF S
  <2>2. Lists(InOrder(S, LessThan), S, Lex(S))
    BY <1>4, <1>5, <2>1, VectorsInOrder
  <2>3. \A x, y \in S : <<x, y>> \in Lex(S) <=> LessThan(x, y)
    BY <1>5, <2>1, LexStrict
  <2> QED BY <2>2, <2>3 DEF S
<1>7. \A p \in S : DOMAIN p = 1 .. 2 /\ p[1] \in Int
  BY <1>5 DEF Vectors
<1>8. /\ P \in Nat /\ pairs \in [1 .. P -> S]
      /\ \A k, l \in 1 .. P : LessThan(pairs[k], pairs[l]) <=> k < l
      /\ \A x \in S : \E k \in 1 .. P : pairs[k] = x
  <2> HIDE DEF S, pairs
  <2> SUFFICES ASSUME P = Cardinality(S) PROVE
      /\ P \in Nat /\ pairs \in [1 .. P -> S]
      /\ \A k, l \in 1 .. P : LessThan(pairs[k], pairs[l]) <=> k < l
      /\ \A x \in S : \E k \in 1 .. P : pairs[k] = x
    BY DEF S
  <2> HIDE DEF P
  <2>1. /\ P \in Nat /\ pairs \in [1 .. P -> S]
        /\ \A k, l \in 1 .. P : <<pairs[k], pairs[l]>> \in Lex(S) <=> k < l
        /\ \A x \in S : \E k \in 1 .. P : pairs[k] = x
    BY <1>4, <1>6 DEF Lists
  <2> QED BY <1>6, <2>1
<1> HIDE DEF pairs, P
<1>9. ASSUME NEW i \in 1 .. P, NEW j \in 1 .. P, i < j PROVE pairs[i][1] <= pairs[j][1]
  <2>1. pairs[i] \in S /\ pairs[j] \in S /\ LessThan(pairs[i], pairs[j])
    BY <1>8, <1>9
  <2>2. DOMAIN pairs[i] = 1 .. 2 /\ pairs[i][1] \in Int /\ pairs[j][1] \in Int
    BY <1>7, <2>1
  <2>3. PICK m \in 1 .. 2 : pairs[i][m] < pairs[j][m] /\ \A q \in 1 .. m - 1 : pairs[i][q] = pairs[j][q]
    BY <2>1, <2>2 DEF LessThan
  <2>4. CASE m = 1
    BY <2>2, <2>3, <2>4
  <2>5. CASE m = 2
    <3>1. 1 \in 1 .. m - 1
      BY <2>5
    <3> QED BY <2>2, <2>3, <3>1
  <2> QED BY <2>4, <2>5
<1>10. ASSUME NEW j \in 1 .. P, NEW p \in S, p[1] < pairs[j][1]
       PROVE  \E i \in 1 .. j - 1 : pairs[i] = p
  <2>1. PICK i \in 1 .. P : pairs[i] = p
    BY <1>8
  <2>2. DOMAIN p = 1 .. 2 /\ 1 \in 1 .. 2 /\ 1 .. 1 - 1 = {}
    BY <1>7
  <2>3. LessThan(p, pairs[j])
    BY <1>10, <2>2 DEF LessThan
  <2>4. i < j
    BY <1>8, <2>1, <2>3
  <2>5. i \in 1 .. j - 1
    BY <1>8, <2>4
  <2> QED BY <2>1, <2>5
<1> QED BY <1>9, <1>10 DEF pairs, P
\* Trimming takes the pairs one after another.
LEMMA TrimSteps ==
  ASSUME NEW M \in Nat, NEW runs \in [1 .. M -> Runs]
  PROVE  \E P, pairs, plan : TrimsBy(M, runs, P, pairs, plan)
<1> DEFINE pairs == InOrder(PairsOf(M), LessThan)
           P == Cardinality(PairsOf(M))
           base == [runs |-> runs, copies |-> <<>>]
           Eq(iter) == iter = [s \in SUBSET (1 .. P) |-> IF s = {} THEN base
                         ELSE TrimPair(iter[s \ {Max(s)}], pairs[Max(s)][1], pairs[Max(s)][2])]
           W == Plans(M)
<1>1. P \in Nat /\ pairs \in [1 .. P -> PairsOf(M)] /\ DOMAIN pairs = 1 .. P
      /\ \A p \in PairsOf(M) : \E j \in 1 .. P : pairs[j] = p
  BY PairsInOrder
<1>2. \A j \in 1 .. P : /\ pairs[j][1] \in 1 .. M /\ pairs[j][2] \in 1 .. M
                        /\ pairs[j][1] # pairs[j][2]
  BY <1>1 DEF PairsOf
<1>3. base \in W /\ base.runs = runs
  BY DEF Plans
<1> HIDE DEF P, pairs, base
<1>4. \E iter : Eq(iter)
  <2> DEFINE step == [q \in (1 .. P) \X W |-> TrimPair(q[2], pairs[q[1]][1], pairs[q[1]][2])]
  <2>1. \A q \in (1 .. P) \X W : TrimPair(q[2], pairs[q[1]][1], pairs[q[1]][2]) \in W
    <3> TAKE q \in (1 .. P) \X W
    <3>1. q[1] \in 1 .. P /\ q[2] \in Plans(M)
      OBVIOUS
    <3> QED BY <1>2, <3>1, PairTrimmed
  <2>2. step \in [(1 .. P) \X W -> W]
        /\ \A j \in 1 .. P, w \in W : step[<<j, w>>] = TrimPair(w, pairs[j][1], pairs[j][2])
    BY <2>1
  <2> HIDE DEF step
  <2>3. PICK h : h \in LeftFoldsOf(W, P, step, base)
    <3> HIDE DEF W
    <3>1. P \in Nat /\ step \in [(1 .. P) \X W -> W] /\ base \in W
      BY <1>1, <1>3, <2>2
    <3>2. LeftFoldsOf(W, P, step, base) # {}
      BY <3>1, LeftFolds
    <3> QED BY <3>2
  <2>4. /\ h = [s \in SUBSET (1 .. P) |-> h[s]]
        /\ \A s \in SUBSET (1 .. P) : h[s] \in W
        /\ \A s \in SUBSET (1 .. P) :
             h[s] = IF s = {} THEN base ELSE step[<<Max(s), h[s \ {Max(s)}]>>]
    <3> HIDE DEF W
    <3> QED BY <2>3 DEF LeftFoldsOf
  <2>5. ASSUME NEW s \in SUBSET (1 .. P), s # {}
        PROVE  Max(s) \in 1 .. P /\ s \ {Max(s)} \in SUBSET (1 .. P)
    <3>1. s \in SUBSET Int /\ IsFiniteSet(s)
      <4>1. IsFiniteSet(1 .. P) /\ P \in Int
        BY <1>1, FS_Interval
      <4>2. IsFiniteSet(s)
        BY <4>1, FS_Subset
      <4> QED BY <4>2
    <3>2. Max(s) \in s
      BY <2>5, <3>1, MaxOfSet
    <3> QED BY <3>2
  <2>6. \A s \in SUBSET (1 .. P) : h[s] = IF s = {} THEN base
          ELSE TrimPair(h[s \ {Max(s)}], pairs[Max(s)][1], pairs[Max(s)][2])
    <3> TAKE s \in SUBSET (1 .. P)
    <3>1. CASE s = {}
      BY <2>4, <3>1
    <3>2. CASE s # {}
      <4>1. h[s \ {Max(s)}] \in W /\ Max(s) \in 1 .. P
        BY <2>4, <2>5, <3>2
      <4>2. step[<<Max(s), h[s \ {Max(s)}]>>]
              = TrimPair(h[s \ {Max(s)}], pairs[Max(s)][1], pairs[Max(s)][2])
        BY <2>2, <4>1
      <4> QED BY <2>4, <3>2, <4>2
    <3> QED BY <3>1, <3>2
  <2>7. Eq(h)
    BY <2>4, <2>6
  <2> HIDE DEF Eq
  <2> QED BY <2>7
<1>5. \E iter : Eq(iter) /\ Trimmed(runs) = iter[1 .. P]
  <2>1. DOMAIN runs = 1 .. M
    OBVIOUS
  <2>2. Trimmed(runs) = FoldLeft(LAMBDA plan, p : TrimPair(plan, p[1], p[2]), base, pairs)
    BY <2>1 DEF Trimmed, pairs, base, PairsOf
  <2>3. FoldLeft(LAMBDA plan, p : TrimPair(plan, p[1], p[2]), base, pairs)
          = (CHOOSE iter : Eq(iter))[1 .. P]
    BY <1>1 DEF FoldLeft, MapThenFoldSet
  <2> HIDE DEF Eq
  <2> QED BY <1>4, <2>2, <2>3
<1>6. PICK iter : Eq(iter) /\ Trimmed(runs) = iter[1 .. P]
  BY <1>5
<1>7. \A s \in SUBSET (1 .. P) : iter[s] = IF s = {} THEN base
        ELSE TrimPair(iter[s \ {Max(s)}], pairs[Max(s)][1], pairs[Max(s)][2])
  BY <1>6
<1> DEFINE G(j) == iter[1 .. j]
           T == {j \in Nat : j <= P => G(j) \in W}
<1>8. ASSUME NEW j \in Nat, j + 1 <= P
      PROVE  G(j + 1) = TrimPair(G(j), pairs[j + 1][1], pairs[j + 1][2])
  <2>1. Max(1 .. j + 1) = j + 1 /\ (1 .. j + 1) \ {Max(1 .. j + 1)} = 1 .. j
        /\ 1 .. j + 1 # {}
    <3>1. j + 1 \in Nat \ {0} /\ (j + 1) - 1 = j
      OBVIOUS
    <3> QED BY <3>1, UpTo
  <2>2. 1 .. j + 1 \in SUBSET (1 .. P)
    BY <1>1, <1>8
  <2> QED BY <1>7, <2>1, <2>2
<1>9. G(0) = base
  <2>1. 1 .. 0 = {} /\ 1 .. 0 \in SUBSET (1 .. P)
    OBVIOUS
  <2> QED BY <1>7, <2>1
<1>10. \A j \in 0 .. P : G(j) \in W
  <2>1. 0 \in T
    BY <1>3, <1>9
  <2>2. ASSUME NEW j \in T PROVE j + 1 \in T
    <3> SUFFICES ASSUME j + 1 <= P PROVE G(j + 1) \in W
      BY <2>2
    <3>1. j \in Nat /\ j + 1 \in 1 .. P /\ G(j) \in Plans(M)
      BY <1>1, <2>2
    <3> HIDE DEF G
    <3> QED BY <1>2, <1>8, <3>1, PairTrimmed
  <2>3. T \in SUBSET Nat
    OBVIOUS
  <2>4. T = Nat
    <3> HIDE DEF T
    <3> QED BY <2>1, <2>2, <2>3, AllNat
  <2> QED BY <1>1, <2>4
<1> DEFINE plan == [j \in 0 .. P |-> G(j)]
<1>11. plan \in [0 .. P -> Plans(M)] /\ plan[0] = base /\ plan[P] = Trimmed(runs)
  <2>1. 0 \in 0 .. P /\ P \in 0 .. P
    BY <1>1
  <2>2. plan[0] = G(0) /\ plan[P] = G(P)
    BY <2>1
  <2>3. plan \in [0 .. P -> W]
    <3> HIDE DEF G, W
    <3> QED BY <1>10
  <2>4. G(P) = Trimmed(runs)
    BY <1>6
  <2> HIDE DEF plan, G
  <2> QED BY <1>9, <2>2, <2>3, <2>4
<1>12. ASSUME NEW j \in 1 .. P
       PROVE  plan[j] = TrimPair(plan[j - 1], pairs[j][1], pairs[j][2])
  <2>1. j - 1 \in Nat /\ (j - 1) + 1 = j /\ j - 1 \in 0 .. P /\ j \in 0 .. P /\ j <= P
    BY <1>1
  <2>2. plan[j] = G(j) /\ plan[j - 1] = G(j - 1)
    BY <2>1
  <2>3. G((j - 1) + 1) = TrimPair(G(j - 1), pairs[(j - 1) + 1][1], pairs[(j - 1) + 1][2])
    <3> HIDE DEF G
    <3> QED BY <1>8, <2>1
  <2> HIDE DEF G, plan
  <2> QED BY <2>1, <2>2, <2>3
<1>13. /\ \A i, j \in 1 .. P : i < j => pairs[i][1] <= pairs[j][1]
       /\ \A j \in 1 .. P, p \in PairsOf(M) :
            p[1] < pairs[j][1] => \E i \in 1 .. j - 1 : pairs[i] = p
  BY PairsByFirst DEF pairs, P
<1> HIDE DEF plan
<1>14. TrimsBy(M, runs, P, pairs, plan)
  BY <1>1, <1>11, <1>12, <1>13 DEF TrimsBy, base
<1> QED BY <1>14

\* Trimming every pair, in whatever order the runs come.
LEMMA Trims ==
  ASSUME NEW M \in Nat, NEW runs \in [1 .. M -> Runs]
  PROVE  /\ TrimOf(M, runs, Trimmed(runs))
         /\ \A k, l \in 1 .. M : k < l => Parted(runs, Trimmed(runs).runs, k, l)
<1>1. PICK P, pairs, plan : TrimsBy(M, runs, P, pairs, plan)
  BY TrimSteps
<1>0. P \in Nat /\ pairs \in [1 .. P -> PairsOf(M)]
  BY <1>1 DEF TrimsBy
<1>2. /\ \A p \in PairsOf(M) : \E j \in 1 .. P : pairs[j] = p
      /\ plan[0] = [runs |-> runs, copies |-> <<>>] /\ plan[P] = Trimmed(runs)
      /\ \A j \in 1 .. P : plan[j] = TrimPair(plan[j - 1], pairs[j][1], pairs[j][2])
  BY <1>1 DEF TrimsBy
<1>3. \A j \in 1 .. P : /\ pairs[j][1] \in 1 .. M /\ pairs[j][2] \in 1 .. M
                        /\ pairs[j][1] # pairs[j][2]
  BY <1>0 DEF PairsOf
<1> DEFINE Kept(j) == /\ TrimOf(M, runs, plan[j])
                      /\ \A i \in 1 .. j : Parted(runs, plan[j].runs, pairs[i][1], pairs[i][2])
           T == {j \in Nat : j <= P => Kept(j)}
<1>4. 0 \in T
  <2>1. 1 .. 0 = {}
    OBVIOUS
  <2>2. \A i \in 1 .. M : runs[i].f >= runs[i].f
    <3>1. \A i \in 1 .. M : runs[i].f \in Int
      BY DEF Runs
    <3> QED BY <3>1
  <2>3. TrimOf(M, runs, [runs |-> runs, copies |-> <<>>])
    <3>1. [runs |-> runs, copies |-> <<>>] \in Plans(M)
      BY DEF Plans
    <3> QED BY <2>2, <3>1 DEF TrimOf
  <2> QED BY <1>2, <2>1, <2>3
<1>5. ASSUME NEW j \in T PROVE j + 1 \in T
  <2> SUFFICES ASSUME j + 1 <= P PROVE Kept(j + 1)
    BY <1>5
  <2>1. j \in Nat /\ j + 1 \in 1 .. P /\ (j + 1) - 1 = j /\ Kept(j)
    BY <1>0, <1>5
  <2> DEFINE k == pairs[j + 1][1]
             l == pairs[j + 1][2]
  <2>2. k \in 1 .. M /\ l \in 1 .. M /\ k # l
    BY <1>3, <2>1
  <2>3. plan[j + 1] = TrimPair(plan[j], k, l)
    BY <1>2, <2>1
  <2>4. /\ TrimOf(M, runs, TrimPair(plan[j], k, l))
        /\ Parted(runs, TrimPair(plan[j], k, l).runs, k, l)
        /\ \A i, h \in 1 .. M : Parted(runs, plan[j].runs, i, h)
              => Parted(runs, TrimPair(plan[j], k, l).runs, i, h)
    <3>1. TrimOf(M, runs, plan[j])
      BY <2>1
    <3> HIDE DEF k, l, Kept
    <3> QED BY <2>2, <3>1, TrimMore
  <2>5. ASSUME NEW i \in 1 .. j + 1 PROVE Parted(runs, plan[j + 1].runs, pairs[i][1], pairs[i][2])
    <3>1. CASE i = j + 1
      BY <2>3, <2>4, <3>1
    <3>2. CASE i # j + 1
      <4>1. i \in 1 .. j /\ i \in 1 .. P
        BY <1>0, <2>1, <3>2
      <4>2. Parted(runs, plan[j].runs, pairs[i][1], pairs[i][2])
        BY <2>1, <4>1
      <4> QED BY <1>3, <2>3, <2>4, <4>1, <4>2
    <3> QED BY <3>1, <3>2
  <2>6. TrimOf(M, runs, plan[j + 1])
    BY <2>3, <2>4
  <2> QED BY <2>5, <2>6
<1>6. Kept(P)
  <2>1. T \in SUBSET Nat
    OBVIOUS
  <2>2. T = Nat
    <3> HIDE DEF T
    <3> QED BY <1>4, <1>5, <2>1, AllNat
  <2>3. P \in T /\ P <= P
    BY <1>0, <2>2
  <2> HIDE DEF Kept
  <2> QED BY <2>3
<1>7. ASSUME NEW k \in 1 .. M, NEW l \in 1 .. M, k < l
      PROVE  Parted(runs, Trimmed(runs).runs, k, l)
  <2>1. <<k, l>> \in PairsOf(M)
    BY <1>7 DEF PairsOf
  <2>2. PICK j \in 1 .. P : pairs[j] = <<k, l>>
    BY <1>2, <2>1
  <2>3. pairs[j][1] = k /\ pairs[j][2] = l
    BY <2>2
  <2> QED BY <1>2, <1>6, <2>3
<1> QED BY <1>2, <1>6, <1>7

\* The rows of a group, sorted: the same runs.
OffsetOrder(runs) ==
  {p \in (DOMAIN runs) \X (DOMAIN runs) :
     \/ runs[p[1]].f < runs[p[2]].f
     \/ (runs[p[1]].f = runs[p[2]].f /\ p[1] < p[2])}

\* sortoffsets lists the runs by their offset, each once.
LEMMA OffsetsSorted ==
  ASSUME NEW N \in Nat, NEW runs \in [1 .. N -> Runs]
  PROVE  \E idx : /\ IsOrder(N, idx, OffsetOrder(runs))
                  /\ SortOffsets(runs) = [i \in 1 .. N |-> runs[idx[i]]]
<1> DEFINE S == 1 .. N
           R == OffsetOrder(runs)
           before(l, r) == \/ runs[l].f < runs[r].f
                           \/ (runs[l].f = runs[r].f /\ l < r)
           idx == [k \in 1 .. Cardinality(S) |->
                     CHOOSE x \in S : Cardinality({y \in S : before(y, x)}) = k - 1]
<1>1. \A x, y \in S : <<x, y>> \in R <=> before(x, y)
  BY DEF OffsetOrder
<1>2. IsFiniteSet(S)
  BY FS_Interval
<1>3. StrictOrder(R, S)
  <2>0. \A x \in S : runs[x].f \in Int /\ x \in Int
    BY DEF Runs
  <2>1. ASSUME NEW x \in S PROVE ~before(x, x)
    BY <2>0
  <2>2. ASSUME NEW x \in S, NEW y \in S, NEW z \in S, before(x, y), before(y, z)
        PROVE  before(x, z)
    <3>1. /\ runs[x].f \in Int /\ runs[y].f \in Int /\ runs[z].f \in Int
          /\ x \in Int /\ y \in Int /\ z \in Int
      BY <2>0
    <3> QED BY <2>2, <3>1
  <2>3. ASSUME NEW x \in S, NEW y \in S PROVE x = y \/ before(x, y) \/ before(y, x)
    <3>1. runs[x].f \in Int /\ runs[y].f \in Int /\ x \in Int /\ y \in Int
      BY <2>0
    <3> QED BY <3>1
  <2> HIDE DEF before
  <2> QED BY <1>1, <2>1, <2>2, <2>3 DEF StrictOrder
<1>4. SortOffsets(runs) = [i \in 1 .. N |-> runs[idx[i]]]
  <2>1. DOMAIN runs = 1 .. N
    OBVIOUS
  <2> QED BY <2>1 DEF SortOffsets, InOrder
<1>5. \A x \in S : {y \in S : before(y, x)} = Below(R, S, x)
  <2> HIDE DEF before, R, S
  <2> QED BY <1>1 DEF Below
<1> HIDE DEF R, before
<1>6. ASSUME NEW k \in 1 .. Cardinality(S)
      PROVE  idx[k] \in S /\ Cardinality(Below(R, S, idx[k])) = k - 1
  <2>0. idx[k] = CHOOSE x \in S : Cardinality({y \in S : before(y, x)}) = k - 1
    OBVIOUS
  <2> HIDE DEF S, idx
  <2>1. \E x \in S : Cardinality({y \in S : before(y, x)}) = k - 1
    <3>1. PICK x \in S : Cardinality(Below(R, S, x)) = k - 1
      BY <1>2, <1>3, EveryRank
    <3>2. Cardinality({y \in S : before(y, x)}) = k - 1
      BY <3>1, <1>5
    <3> QED BY <3>2
  <2>2. idx[k] \in S /\ Cardinality({y \in S : before(y, idx[k])}) = k - 1
    BY <2>0, <2>1
  <2> QED BY <2>2, <1>5
<1>7. idx = [k \in 1 .. Cardinality(S) |-> idx[k]]
  <2> DEFINE D == 1 .. Cardinality(S)
             e(k) == CHOOSE x \in S : Cardinality({y \in S : before(y, x)}) = k - 1
  <2>1. idx = [k \in D |-> e(k)]
    OBVIOUS
  <2> HIDE DEF D, e, idx
  <2>2. idx = [k \in D |-> idx[k]]
    BY <2>1
  <2> QED BY <2>2 DEF D
<1> HIDE DEF idx
<1>8. Lists(idx, S, R)
  <2> HIDE DEF S
  <2> QED BY <1>2, <1>3, <1>6, <1>7, MakesList
<1>9. IsOrder(N, idx, R)
  BY <1>3, <1>8, PositionsInOrder
<1> QED BY <1>4, <1>9 DEF R

-----------------------------------------------------------------------------
(* Sorting and grouping the hits *)

\* Hits of a dataset of rank n, as the search returns them.
Hits(n) ==
  [foff : Nat, dstart : [1 .. n -> Int], dsize : [1 .. n -> Nat],
   mstart : [1 .. n -> Int], msize : [1 .. n -> Nat], count : [1 .. n -> Int], xbuf : Nat]

\* Sorted hits are the hits found, none precedes an earlier one.
HitOrder(hits) ==
  {p \in (DOMAIN hits) \X (DOMAIN hits) :
     \/ Precedes(hits[p[1]], hits[p[2]])
     \/ (~Precedes(hits[p[2]], hits[p[1]]) /\ p[1] < p[2])}

\* Precedes is a strict order, and so is not being preceded, up to ties.
LEMMA PrecedesOrders ==
  ASSUME NEW n \in Nat, NEW a \in Hits(n), NEW b \in Hits(n), NEW c \in Hits(n)
  PROVE  /\ ~Precedes(a, a)
         /\ Precedes(a, b) => ~Precedes(b, a)
         /\ Precedes(a, b) /\ ~Precedes(c, b) => Precedes(a, c)
         /\ ~Precedes(b, a) /\ Precedes(b, c) => Precedes(a, c)
         /\ ~Precedes(b, a) /\ ~Precedes(c, b) => ~Precedes(c, a)
<1>1. /\ a.foff \in Nat /\ b.foff \in Nat /\ c.foff \in Nat
      /\ a.dstart \in Vectors(n) /\ b.dstart \in Vectors(n) /\ c.dstart \in Vectors(n)
  BY DEF Hits, Vectors
<1> DEFINE x == a.dstart
           y == b.dstart
           z == c.dstart
<1> HIDE DEF x, y, z
<1>2. /\ ~LessThan(x, x) /\ ~LessThan(y, y) /\ ~LessThan(z, z)
      /\ x = y \/ LessThan(x, y) \/ LessThan(y, x)
      /\ x = z \/ LessThan(x, z) \/ LessThan(z, x)
      /\ y = z \/ LessThan(y, z) \/ LessThan(z, y)
      /\ LessThan(x, y) /\ LessThan(y, z) => LessThan(x, z)
      /\ LessThan(y, z) /\ LessThan(z, x) => LessThan(y, x)
      /\ LessThan(z, x) /\ LessThan(x, y) => LessThan(z, y)
      /\ LessThan(y, x) /\ LessThan(x, z) => LessThan(y, z)
      /\ LessThan(x, z) /\ LessThan(z, y) => LessThan(x, y)
      /\ LessThan(z, y) /\ LessThan(y, x) => LessThan(z, x)
      /\ LessThan(x, y) /\ LessThan(y, x) => LessThan(x, x)
      /\ LessThan(x, z) /\ LessThan(z, x) => LessThan(x, x)
      /\ LessThan(y, z) /\ LessThan(z, y) => LessThan(y, y)
  <2>1. x \in Vectors(n) /\ y \in Vectors(n) /\ z \in Vectors(n)
    BY <1>1 DEF x, y, z
  <2> QED BY <2>1, LexOrder
<1>3. /\ Precedes(a, a) <=> a.foff < a.foff \/ (a.foff = a.foff /\ LessThan(x, x))
      /\ Precedes(a, b) <=> a.foff < b.foff \/ (a.foff = b.foff /\ LessThan(x, y))
      /\ Precedes(b, a) <=> b.foff < a.foff \/ (b.foff = a.foff /\ LessThan(y, x))
      /\ Precedes(a, c) <=> a.foff < c.foff \/ (a.foff = c.foff /\ LessThan(x, z))
      /\ Precedes(c, a) <=> c.foff < a.foff \/ (c.foff = a.foff /\ LessThan(z, x))
      /\ Precedes(b, c) <=> b.foff < c.foff \/ (b.foff = c.foff /\ LessThan(y, z))
      /\ Precedes(c, b) <=> c.foff < b.foff \/ (c.foff = b.foff /\ LessThan(z, y))
  BY DEF Precedes, x, y, z
<1> DEFINE i == a.foff
           j == b.foff
           k == c.foff
<1>4. i \in Nat /\ j \in Nat /\ k \in Nat
  BY <1>1
<1> HIDE DEF i, j, k
<1> QED BY <1>2, <1>3, <1>4 DEF i, j, k

\* The sort lists the hits by data block and place in it, each once.
LEMMA HitsSorted ==
  ASSUME NEW n \in Nat, NEW N \in Nat, NEW hits \in [1 .. N -> Hits(n)]
  PROVE  \E idx : /\ IsOrder(N, idx, HitOrder(hits))
                  /\ SortHits(hits) = [i \in 1 .. N |-> hits[idx[i]]]
                  /\ \A k, l \in 1 .. N : k < l => ~Precedes(hits[idx[l]], hits[idx[k]])
<1> DEFINE S == 1 .. N
           R == HitOrder(hits)
           before(l, r) == \/ Precedes(hits[l], hits[r])
                           \/ (~Precedes(hits[r], hits[l]) /\ l < r)
           idx == [k \in 1 .. Cardinality(S) |->
                     CHOOSE x \in S : Cardinality({y \in S : before(y, x)}) = k - 1]
<1>1. \A x, y \in S : <<x, y>> \in R <=> before(x, y)
  BY DEF HitOrder
<1>2. IsFiniteSet(S)
  BY FS_Interval
<1>3. StrictOrder(R, S)
  <2>1. ASSUME NEW x \in S PROVE ~before(x, x)
    <3>1. hits[x] \in Hits(n)
      OBVIOUS
    <3> QED BY <3>1, PrecedesOrders
  <2>2. ASSUME NEW x \in S, NEW y \in S, NEW z \in S, before(x, y), before(y, z)
        PROVE  before(x, z)
    <3> DEFINE a == hits[x]
               b == hits[y]
               c == hits[z]
    <3>1. a \in Hits(n) /\ b \in Hits(n) /\ c \in Hits(n)
      OBVIOUS
    <3>2. /\ Precedes(a, b) \/ (~Precedes(b, a) /\ x < y)
          /\ Precedes(b, c) \/ (~Precedes(c, b) /\ y < z)
      BY <2>2
    <3> HIDE DEF a, b, c
    <3>3. /\ Precedes(a, b) /\ ~Precedes(c, b) => Precedes(a, c)
          /\ ~Precedes(b, a) /\ Precedes(b, c) => Precedes(a, c)
          /\ ~Precedes(b, a) /\ ~Precedes(c, b) => ~Precedes(c, a)
          /\ Precedes(b, c) => ~Precedes(c, b)
      BY <3>1, PrecedesOrders
    <3>4. Precedes(a, c) \/ (~Precedes(c, a) /\ x < z)
      BY <3>2, <3>3
    <3> QED BY <3>4 DEF a, c
  <2>3. ASSUME NEW x \in S, NEW y \in S PROVE x = y \/ before(x, y) \/ before(y, x)
    OBVIOUS
  <2> HIDE DEF before
  <2> QED BY <1>1, <2>1, <2>2, <2>3 DEF StrictOrder
<1>4. SortHits(hits) = [i \in 1 .. N |-> hits[idx[i]]]
  <2>1. DOMAIN hits = 1 .. N
    OBVIOUS
  <2> QED BY <2>1 DEF SortHits, InOrder
<1>5. \A x \in S : {y \in S : before(y, x)} = Below(R, S, x)
  <2> HIDE DEF before, R, S
  <2> QED BY <1>1 DEF Below
<1> HIDE DEF R, before
<1>6. ASSUME NEW k \in 1 .. Cardinality(S)
      PROVE  idx[k] \in S /\ Cardinality(Below(R, S, idx[k])) = k - 1
  <2>0. idx[k] = CHOOSE x \in S : Cardinality({y \in S : before(y, x)}) = k - 1
    OBVIOUS
  <2> HIDE DEF S, idx
  <2>1. \E x \in S : Cardinality({y \in S : before(y, x)}) = k - 1
    <3>1. PICK x \in S : Cardinality(Below(R, S, x)) = k - 1
      BY <1>2, <1>3, EveryRank
    <3>2. Cardinality({y \in S : before(y, x)}) = k - 1
      BY <3>1, <1>5
    <3> QED BY <3>2
  <2>2. idx[k] \in S /\ Cardinality({y \in S : before(y, idx[k])}) = k - 1
    BY <2>0, <2>1
  <2> QED BY <2>2, <1>5
<1>7. idx = [k \in 1 .. Cardinality(S) |-> idx[k]]
  <2> DEFINE D == 1 .. Cardinality(S)
             e(k) == CHOOSE x \in S : Cardinality({y \in S : before(y, x)}) = k - 1
  <2>1. idx = [k \in D |-> e(k)]
    OBVIOUS
  <2> HIDE DEF D, e, idx
  <2>2. idx = [k \in D |-> idx[k]]
    BY <2>1
  <2> QED BY <2>2 DEF D
<1> HIDE DEF idx
<1>8. Lists(idx, S, R)
  <2> HIDE DEF S
  <2> QED BY <1>2, <1>3, <1>6, <1>7, MakesList
<1>9. IsOrder(N, idx, R)
  BY <1>3, <1>8, PositionsInOrder
<1>10. ASSUME NEW k \in 1 .. N, NEW l \in 1 .. N, k < l
       PROVE  ~Precedes(hits[idx[l]], hits[idx[k]])
  <2>1. idx[k] \in 1 .. N /\ idx[l] \in 1 .. N /\ <<idx[k], idx[l]>> \in R
    BY <1>9, <1>10 DEF IsOrder
  <2>2. before(idx[k], idx[l])
    BY <1>1, <2>1
  <2>3. hits[idx[k]] \in Hits(n) /\ hits[idx[l]] \in Hits(n)
    BY <2>1
  <2> QED BY <2>2, <2>3, PrecedesOrders DEF before
<1> QED BY <1>4, <1>9, <1>10 DEF R

\* The groups of sorted hits follow one another and end where a hit does not
\* interleave with the next one.
GroupsAt(N, H, s, m) ==
  /\ m \in 1 .. N /\ s \in [1 .. m -> 1 .. N]
  /\ CutAt(N, {i \in 1 .. N : EndsRun(H, i)}, s, m)
GroupOf(hits, s, g) == SubSeq(hits, Before(s, g) + 1, s[g])
Groups(hits, s, m) == [g \in 1 .. m |-> GroupOf(hits, s, g)]

\* The groups are the hits, cut where one does not interleave with the next.
LEMMA HitGroupsFollow ==
  ASSUME NEW V, NEW N \in Nat \ {0}, NEW hits \in [1 .. N -> V]
  PROVE  \E m, s : HitGroups(hits) = Groups(hits, s, m) /\ GroupsAt(N, hits, s, m)
<1> DEFINE E == {i \in 1 .. N : EndsRun(hits, i)}
           s == LastsOf(E)
<1>1. DOMAIN hits = 1 .. N /\ Len(hits) = N /\ N \in 1 .. N
  BY LenProperties
<1>2. E \in SUBSET (1 .. N) /\ N \in E
  <2>1. EndsRun(hits, N)
    BY <1>1 DEF EndsRun
  <2> QED BY <1>1, <2>1
<1>3. HitGroups(hits) = [g \in DOMAIN s |->
         SubSeq(hits, IF g = 1 THEN 1 ELSE s[g - 1] + 1, s[g])]
  BY <1>1 DEF HitGroups, LastsOf
<1> HIDE DEF E
<1>4. PICK m \in 1 .. N : CutAt(N, E, s, m)
  BY <1>2, Cuts
<1> HIDE DEF s
<1>5. DOMAIN s = 1 .. m /\ s \in [1 .. m -> 1 .. N]
  BY <1>4 DEF CutAt
<1>6. ASSUME NEW g \in 1 .. m PROVE (IF g = 1 THEN 1 ELSE s[g - 1] + 1) = Before(s, g) + 1
  BY DEF Before
<1>7. HitGroups(hits) = [g \in 1 .. m |-> SubSeq(hits, Before(s, g) + 1, s[g])]
  <2> DEFINE D == 1 .. m
             e(g) == SubSeq(hits, IF g = 1 THEN 1 ELSE s[g - 1] + 1, s[g])
             f(g) == SubSeq(hits, Before(s, g) + 1, s[g])
  <2>1. HitGroups(hits) = [g \in D |-> e(g)]
    BY <1>3, <1>5
  <2>2. \A g \in D : e(g) = f(g)
    BY <1>6
  <2> HIDE DEF D, e, f
  <2>3. HitGroups(hits) = [g \in D |-> f(g)]
    BY <2>1, <2>2
  <2> QED BY <2>3 DEF D, f
<1>8. HitGroups(hits) = Groups(hits, s, m)
  BY <1>7 DEF Groups, GroupOf
<1>9. GroupsAt(N, hits, s, m)
  BY <1>4, <1>5 DEF GroupsAt, E
<1> QED BY <1>8, <1>9

-----------------------------------------------------------------------------
(* The rows of a hit *)

\* A hit without a gap: not empty, and inside the block of the data.
Inside(n, h) ==
  /\ h \in Hits(n)
  /\ \A i \in 1 .. n : /\ 0 <= h.dstart[i] /\ 0 < h.count[i]
                       /\ h.dstart[i] + h.count[i] <= h.dsize[i]

\* Where the rows of a hit start, one after the other.
RowStarts(n, h, R, cells) ==
  /\ cells \in [1 .. R -> [1 .. n -> Nat]]
  /\ \A r \in 1 .. R : /\ \A i \in 1 .. n : /\ h.dstart[i] <= cells[r][i]
                                            /\ cells[r][i] < h.dstart[i] + h.count[i]
                       /\ cells[r][n] = h.dstart[n]
  /\ \A r, q \in 1 .. R : r < q => LessThan(cells[r], cells[q])
RunsOfRows(n, h, width, unit, R, cells, runs) ==
  /\ runs \in [1 .. R -> Runs]
  /\ \A r \in 1 .. R : /\ runs[r].f = h.foff + unit * Linear(h.dsize, cells[r])
                       /\ runs[r].len = width * h.count[n]

\* The place of an element in an array is a number.
LEMMA LinearType ==
  ASSUME NEW n \in Nat, NEW d \in [1 .. n -> Nat], NEW x \in [1 .. n -> Int]
  PROVE  Linear(d, x) \in Int
<1>1. Linear(d, x) = Part(d, n, x, 1)
  BY LinearIs
<1>2. \A k \in 1 .. n + 1 : Part(d, n, x, k) \in Int
  BY LinearIs
<1>3. 1 \in 1 .. n + 1
  OBVIOUS
<1> QED BY <1>1, <1>2, <1>3

\* The runs of a hit are its rows, one after the other in the data block.
LEMMA RowsOfHit ==
  ASSUME NEW n \in Nat \ {0}, NEW width \in Nat, NEW unit \in Nat, NEW h, Inside(n, h)
  PROVE  \E R \in Nat : \E cells :
           /\ RowStarts(n, h, R, cells)
           /\ RunsOfRows(n, h, width, unit, R, cells, RowsOf(h, width, unit))
<1> DEFINE zero == [i \in 1 .. n |-> 0]
           one == [h.count EXCEPT ![n] = 1]
           B == Cuboid(n, zero, one)
           rows == InOrder(B, LessThan)
           R == Cardinality(B)
           at(r) == Shifted(h.dstart, rows[r])
           to(r) == Shifted(h.mstart, rows[r])
           cells == [r \in 1 .. R |-> at(r)]
<1>1. /\ h.foff \in Nat /\ h.dstart \in [1 .. n -> Int] /\ h.dsize \in [1 .. n -> Nat]
      /\ h.mstart \in [1 .. n -> Int] /\ h.msize \in [1 .. n -> Nat]
      /\ h.count \in [1 .. n -> Int] /\ h.xbuf \in Nat
      /\ \A i \in 1 .. n : /\ h.dstart[i] \in Int /\ h.count[i] \in Int /\ h.dsize[i] \in Nat
                           /\ 0 <= h.dstart[i] /\ 0 < h.count[i]
                           /\ h.dstart[i] + h.count[i] <= h.dsize[i]
  BY DEF Inside, Hits
<1>2. n \in 1 .. n /\ n \in Nat /\ Len(h.count) = n
  BY <1>1, LenProperties
<1>3. /\ zero \in [1 .. n -> Nat] /\ \A i \in 1 .. n : zero[i] = 0
      /\ one \in [1 .. n -> Nat] /\ one[n] = 1
      /\ \A i \in 1 .. n : i # n => one[i] = h.count[i]
  <2>1. zero \in [1 .. n -> Nat] /\ \A i \in 1 .. n : zero[i] = 0
    OBVIOUS
  <2>2. one = [i \in 1 .. n |-> IF i = n THEN 1 ELSE h.count[i]]
    BY <1>1
  <2>3. \A i \in 1 .. n : (IF i = n THEN 1 ELSE h.count[i]) \in Nat
    BY <1>1
  <2> HIDE DEF zero, one
  <2> QED BY <1>2, <2>1, <2>2, <2>3
<1> HIDE DEF zero, one
<1>4. BoxOf(zero, one) = B
  BY <1>2, <1>3, BoxIsCuboid
<1>5. IsFiniteSet(B)
  <2>1. n \in 0 .. n
    BY <1>2
  <2> QED BY <1>2, <1>3, <2>1, CuboidSize
<1>6. /\ B \in SUBSET Vectors(n)
      /\ \A c \in B : c \in [1 .. n -> Int]
           /\ \A i \in 1 .. n : zero[i] <= c[i] /\ c[i] < zero[i] + one[i]
  BY DEF Cuboid, Vectors
<1> HIDE DEF B
<1>7. Lists(rows, B, Lex(B)) /\ R \in Nat
  BY <1>2, <1>5, <1>6, VectorsInOrder, FS_CardinalityType
<1>8. /\ rows \in [1 .. R -> B]
      /\ \A r, q \in 1 .. R : r < q => LessThan(rows[r], rows[q])
  <2>1. \A r, q \in 1 .. R : r < q => <<rows[r], rows[q]>> \in Lex(B)
    BY <1>7 DEF Lists
  <2>2. rows \in [1 .. R -> B]
    BY <1>7 DEF Lists
  <2> HIDE DEF rows, R
  <2> QED BY <2>1, <2>2 DEF Lex
<1>9. RowsOf(h, width, unit) = [r \in 1 .. R |->
        [f |-> h.foff + unit * Linear(h.dsize, at(r)), m |-> h.xbuf + unit * Linear(h.msize, to(r)),
         len |-> width * h.count[n]]]
  <2>1. DOMAIN rows = 1 .. R
    BY <1>8
  <2>2. CellsOf([start |-> [i \in 1 .. n |-> 0], count |-> [h.count EXCEPT ![n] = 1]]) = rows
    BY <1>4 DEF CellsOf, zero, one
  <2> HIDE DEF rows, R
  <2> QED BY <1>2, <2>1, <2>2 DEF RowsOf
<1> HIDE DEF rows, R
<1>10. ASSUME NEW r \in 1 .. R
       PROVE  /\ at(r) \in [1 .. n -> Nat] /\ to(r) \in [1 .. n -> Int]
              /\ \A i \in 1 .. n : at(r)[i] = h.dstart[i] + rows[r][i]
              /\ \A i \in 1 .. n : /\ h.dstart[i] <= at(r)[i]
                                   /\ at(r)[i] < h.dstart[i] + h.count[i]
              /\ at(r)[n] = h.dstart[n]
  <2> DEFINE c == rows[r]
  <2>1. c \in [1 .. n -> Int]
        /\ \A i \in 1 .. n : zero[i] <= c[i] /\ c[i] < zero[i] + one[i]
    BY <1>6, <1>8
  <2> HIDE DEF c
  <2>2. \A i \in 1 .. n : c[i] \in Int /\ 0 <= c[i] /\ c[i] < h.count[i]
    <3> TAKE i \in 1 .. n
    <3>1. CASE i = n
      BY <1>1, <1>3, <2>1, <3>1
    <3>2. CASE i # n
      <4>1. zero[i] = 0 /\ one[i] = h.count[i] /\ h.count[i] \in Int
        BY <1>1, <1>3, <3>2
      <4> QED BY <2>1, <4>1
    <3> QED BY <3>1, <3>2
  <2>3. c[n] = 0
    BY <1>2, <1>3, <2>1
  <2>4. \A i \in 1 .. n : /\ h.dstart[i] + c[i] \in Nat /\ h.mstart[i] + c[i] \in Int
                          /\ h.dstart[i] <= h.dstart[i] + c[i]
                          /\ h.dstart[i] + c[i] < h.dstart[i] + h.count[i]
    <3> TAKE i \in 1 .. n
    <3>1. h.mstart[i] \in Int /\ h.dstart[i] \in Nat /\ h.count[i] \in Int
      <4>1. h.mstart[i] \in Int
        BY <1>1
      <4>2. h.dstart[i] \in Int /\ 0 <= h.dstart[i] /\ h.count[i] \in Int
        BY <1>1
      <4> QED BY <4>1, <4>2
    <3>2. c[i] \in Nat /\ c[i] < h.count[i]
      BY <2>2
    <3> QED BY <3>1, <3>2
  <2>5. at(r) = [i \in 1 .. n |-> h.dstart[i] + c[i]] /\ to(r) = [i \in 1 .. n |-> h.mstart[i] + c[i]]
    BY <1>1 DEF Shifted, c
  <2> HIDE DEF at, to
  <2>6. at(r) \in [1 .. n -> Nat] /\ to(r) \in [1 .. n -> Int]
        /\ \A i \in 1 .. n : at(r)[i] = h.dstart[i] + c[i]
    BY <2>4, <2>5
  <2>7. at(r)[n] = h.dstart[n]
    <3>1. h.dstart[n] \in Int /\ at(r)[n] = h.dstart[n] + 0
      BY <1>1, <1>2, <2>3, <2>6
    <3> QED BY <3>1
  <2> QED BY <2>4, <2>6, <2>7 DEF c
<1> HIDE DEF at, to
<1>11. cells \in [1 .. R -> [1 .. n -> Nat]] /\ \A r \in 1 .. R : cells[r] = at(r)
  BY <1>10
<1>12. ASSUME NEW r \in 1 .. R, NEW q \in 1 .. R, r < q PROVE LessThan(cells[r], cells[q])
  <2>1. LessThan(rows[r], rows[q]) /\ rows[r] \in [1 .. n -> Int] /\ rows[q] \in [1 .. n -> Int]
    BY <1>6, <1>8, <1>12
  <2>2. PICK i \in 1 .. n : rows[r][i] < rows[q][i] /\ \A j \in 1 .. i - 1 : rows[r][j] = rows[q][j]
    BY <2>1 DEF LessThan
  <2>3. DOMAIN at(r) = 1 .. n
    BY <1>10
  <2>4. \A j \in 1 .. i - 1 : j \in 1 .. n
    OBVIOUS
  <2>5. at(r)[i] < at(q)[i]
    <3>1. at(r)[i] = h.dstart[i] + rows[r][i] /\ at(q)[i] = h.dstart[i] + rows[q][i]
      BY <1>10
    <3>2. h.dstart[i] \in Int /\ rows[r][i] \in Int /\ rows[q][i] \in Int
      BY <1>1, <2>1
    <3> QED BY <2>2, <3>1, <3>2
  <2>6. \A j \in 1 .. i - 1 : at(r)[j] = at(q)[j]
    <3> TAKE j \in 1 .. i - 1
    <3>1. j \in 1 .. n /\ rows[r][j] = rows[q][j]
      BY <2>2, <2>4
    <3> QED BY <1>10, <3>1
  <2>7. LessThan(at(r), at(q))
    BY <2>3, <2>5, <2>6 DEF LessThan
  <2> QED BY <1>11, <2>7
<1>13. RowStarts(n, h, R, cells)
  <2> HIDE DEF cells
  <2> QED BY <1>10, <1>11, <1>12 DEF RowStarts
<1> HIDE DEF cells
<1>14. RunsOfRows(n, h, width, unit, R, cells, RowsOf(h, width, unit))
  <2> DEFINE runs == RowsOf(h, width, unit)
             f(r) == h.foff + unit * Linear(h.dsize, at(r))
             m(r) == h.xbuf + unit * Linear(h.msize, to(r))
             len == width * h.count[n]
  <2>1. runs = [r \in 1 .. R |-> [f |-> f(r), m |-> m(r), len |-> len]]
    BY <1>9
  <2>2. len \in Nat
    <3>1. \A a, b \in Nat : a * b \in Nat
      OBVIOUS
    <3>2. h.count[n] \in Nat
      BY <1>1, <1>2
    <3> QED BY <3>1, <3>2
  <2>3. \A r \in 1 .. R : f(r) \in Int /\ m(r) \in Int
    <3> TAKE r \in 1 .. R
    <3>1. at(r) \in [1 .. n -> Int] /\ to(r) \in [1 .. n -> Int]
      <4>1. at(r) = [i \in 1 .. n |-> at(r)[i]] /\ \A i \in 1 .. n : at(r)[i] \in Int
        BY <1>10
      <4> QED BY <1>10, <4>1
    <3>2. Linear(h.dsize, at(r)) \in Int /\ Linear(h.msize, to(r)) \in Int
      BY <1>1, <1>2, <3>1, LinearType
    <3>3. \A a, b \in Int : a * b \in Int /\ a + b \in Int
      OBVIOUS
    <3> DEFINE x == Linear(h.dsize, at(r))
               y == Linear(h.msize, to(r))
    <3> HIDE DEF x, y
    <3>4. x \in Int /\ y \in Int /\ unit \in Int /\ h.foff \in Int /\ h.xbuf \in Int
      <4>1. x \in Int /\ y \in Int
        BY <3>2 DEF x, y
      <4>2. h.foff \in Nat /\ h.xbuf \in Nat
        BY <1>1
      <4> QED BY <4>1, <4>2
    <3>5. h.foff + unit * x \in Int /\ h.xbuf + unit * y \in Int
      BY <3>3, <3>4
    <3> QED BY <3>5 DEF x, y
  <2> HIDE DEF runs, f, m, len
  <2>4. \A r \in 1 .. R : runs[r] = [f |-> f(r), m |-> m(r), len |-> len] /\ runs[r] \in Runs
    BY <2>1, <2>2, <2>3 DEF Runs
  <2>5. runs \in [1 .. R -> Runs]
    <3>1. runs = [r \in 1 .. R |-> runs[r]]
      BY <2>1
    <3> QED BY <2>4, <3>1
  <2>6. \A r \in 1 .. R : runs[r].f = h.foff + unit * Linear(h.dsize, cells[r])
                         /\ runs[r].len = width * h.count[n]
    <3> TAKE r \in 1 .. R
    <3>1. cells[r] = at(r)
      BY <1>11
    <3>2. f(r) = h.foff + unit * Linear(h.dsize, cells[r])
      BY <3>1 DEF f
    <3>3. runs[r].f = f(r) /\ runs[r].len = len
      <4>1. runs[r] = [f |-> f(r), m |-> m(r), len |-> len]
        BY <2>4
      <4> QED BY <4>1
    <3> QED BY <3>2, <3>3 DEF len
  <2> QED BY <2>5, <2>6 DEF RunsOfRows, runs
<1> QED BY <1>7, <1>13, <1>14 DEF R

\* Places in elements, in order, are in order in bytes; unit u counts elements or
\* bytes.
LEMMA Scaled ==
  ASSUME NEW e \in Nat, NEW u \in Nat, u <= e, NEW a \in Nat, NEW c \in Nat, NEW b \in Nat,
         a + c <= b
  PROVE  /\ u * a \in Nat /\ e * c \in Nat /\ e * b \in Nat
         /\ u * a + e * c <= e * b
<1>1. \A x, y \in Nat : x * y \in Nat
  OBVIOUS
<1>2. PICK d \in Nat : b = a + c + d
  <2>1. b - (a + c) \in Nat /\ b = a + c + (b - (a + c))
    OBVIOUS
  <2> QED BY <2>1
<1>3. PICK v \in Nat : e = u + v
  <2>1. e - u \in Nat /\ e = u + (e - u)
    OBVIOUS
  <2> QED BY <2>1
<1>4. e * b = e * a + e * c + e * d
  <2>1. \A p, x, y, z \in Nat : p * (x + y + z) = p * x + p * y + p * z
    OBVIOUS
  <2> QED BY <1>2, <2>1
<1>5. e * a = u * a + v * a
  <2>1. \A p, x, y \in Nat : (x + y) * p = x * p + y * p
    OBVIOUS
  <2> QED BY <1>3, <2>1
<1> DEFINE ua == u * a
           va == v * a
           ec == e * c
           ed == e * d
           ea == e * a
           eb == e * b
<1>6. ua \in Nat /\ va \in Nat /\ ec \in Nat /\ ed \in Nat /\ eb \in Nat /\ ea = ua + va
      /\ eb = ea + ec + ed
  BY <1>1, <1>4, <1>5
<1> HIDE DEF ua, va, ec, ed, ea, eb
<1>7. ua + ec <= eb
  BY <1>6
<1> QED BY <1>6, <1>7 DEF ua, ec, eb

\* A row lies in the block of the data, and its end too.
LEMMA RowInside ==
  ASSUME NEW n \in Nat \ {0}, NEW h, Inside(n, h), NEW R, NEW cells, RowStarts(n, h, R, cells),
         NEW r \in 1 .. R
  PROVE  /\ cells[r] \in [1 .. n -> Nat]
         /\ \A i \in 1 .. n : cells[r][i] < h.dsize[i]
         /\ h.count[n] \in Nat /\ cells[r][n] + h.count[n] <= h.dsize[n]
         /\ h.dsize \in [1 .. n -> Nat] /\ h.foff \in Nat
<1>1. /\ h.dsize \in [1 .. n -> Nat] /\ h.foff \in Nat
      /\ \A i \in 1 .. n : /\ h.dstart[i] \in Int /\ h.count[i] \in Int /\ h.dsize[i] \in Nat
                           /\ 0 <= h.dstart[i] /\ 0 < h.count[i]
                           /\ h.dstart[i] + h.count[i] <= h.dsize[i]
  BY DEF Inside, Hits
<1>2. cells[r] \in [1 .. n -> Nat] /\ cells[r][n] = h.dstart[n]
      /\ \A i \in 1 .. n : cells[r][i] < h.dstart[i] + h.count[i]
  BY DEF RowStarts
<1>3. n \in 1 .. n
  OBVIOUS
<1>4. h.count[n] \in Nat /\ cells[r][n] + h.count[n] <= h.dsize[n]
  BY <1>1, <1>2, <1>3
<1>5. \A i \in 1 .. n : cells[r][i] < h.dsize[i]
  <2> TAKE i \in 1 .. n
  <2>1. cells[r][i] \in Nat /\ h.dstart[i] + h.count[i] \in Int
    BY <1>1, <1>2
  <2> QED BY <1>1, <1>2, <2>1
<1> QED BY <1>1, <1>2, <1>4, <1>5

\* The runs of a hit lie in its data block.
LEMMA RunsInBlock ==
  ASSUME NEW n \in Nat \ {0}, NEW width \in Nat, NEW unit \in Nat, unit <= width,
         NEW h, Inside(n, h), NEW R, NEW cells, RowStarts(n, h, R, cells),
         NEW runs, RunsOfRows(n, h, width, unit, R, cells, runs), NEW r \in 1 .. R
  PROVE  /\ runs[r].f \in Nat /\ EndOfRun(runs[r]) \in Nat
         /\ h.foff <= runs[r].f
         /\ EndOfRun(runs[r]) <= h.foff + width * Volume(h.dsize)
         /\ width * Volume(h.dsize) \in Nat
<1> DEFINE a == Linear(h.dsize, cells[r])
           c == h.count[n]
           b == Volume(h.dsize)
<1>1. a \in Nat /\ b \in Nat /\ c \in Nat /\ a + c <= b
  BY RowInside, LinearInside
<1>2. runs[r].f = h.foff + unit * a /\ runs[r].len = width * c
  BY DEF RunsOfRows
<1>3. h.foff \in Nat
  BY DEF Inside, Hits
<1> HIDE DEF a, b, c
<1>4. unit * a \in Nat /\ width * c \in Nat /\ width * b \in Nat /\ unit * a + width * c <= width * b
  BY <1>1, Scaled
<1> DEFINE ua == unit * a
           ec == width * c
           eb == width * b
<1>5. EndOfRun(runs[r]) = h.foff + ua + ec
  BY <1>2 DEF EndOfRun
<1>6. ua \in Nat /\ ec \in Nat /\ eb \in Nat /\ ua + ec <= eb /\ runs[r].f = h.foff + ua
  BY <1>2, <1>4
<1> HIDE DEF ua, ec, eb
<1>7. /\ runs[r].f \in Nat /\ EndOfRun(runs[r]) \in Nat
      /\ h.foff <= runs[r].f /\ EndOfRun(runs[r]) <= h.foff + eb
  BY <1>3, <1>5, <1>6
<1> QED BY <1>6, <1>7 DEF eb, b

\* The rows of two single hits in one data block, of which the second starts where
\* the first ends or behind, in the first dimension; and those of one hit.
RowsApart(n, g, h, x, y) ==
  \/ g.dstart[1] + g.count[1] <= h.dstart[1]
  \/ g = h /\ LessThan(x, y)

\* Runs of rows that are apart are apart in the file.
LEMMA RunsApart ==
  ASSUME NEW n \in Nat \ {0}, NEW width \in Nat,
         NEW g, Inside(n, g), NEW G, NEW starts, RowStarts(n, g, G, starts),
         NEW before, RunsOfRows(n, g, width, width, G, starts, before), NEW r \in 1 .. G,
         NEW h, Inside(n, h), NEW H, NEW cells, RowStarts(n, h, H, cells),
         NEW runs, RunsOfRows(n, h, width, width, H, cells, runs), NEW q \in 1 .. H,
         g.foff = h.foff, g.dsize = h.dsize, RowsApart(n, g, h, starts[r], cells[q])
  PROVE  EndOfRun(before[r]) <= runs[q].f
<1> DEFINE d == h.dsize
           x == starts[r]
           y == cells[q]
           cnt == g.count[n]
<1>1. /\ x \in [1 .. n -> Nat] /\ \A i \in 1 .. n : x[i] < d[i]
      /\ cnt \in Nat /\ x[n] + cnt <= d[n] /\ d \in [1 .. n -> Nat] /\ g.foff \in Nat
  BY RowInside
<1>2. y \in [1 .. n -> Nat] /\ \A i \in 1 .. n : y[i] < d[i]
  BY RowInside
<1>3. /\ \A i \in 1 .. n : /\ g.dstart[i] \in Int /\ g.count[i] \in Int /\ h.dstart[i] \in Int
                           /\ x[i] < g.dstart[i] + g.count[i] /\ h.dstart[i] <= y[i]
      /\ x[n] = g.dstart[n] /\ y[n] = h.dstart[n]
  BY DEF Inside, Hits, RowStarts
<1>4. 1 \in 1 .. n /\ n \in 1 .. n
  OBVIOUS
<1>5. before[r].f = h.foff + width * Linear(d, x) /\ before[r].len = width * cnt
      /\ runs[q].f = h.foff + width * Linear(d, y)
  BY DEF RunsOfRows
<1>6. RowsApart(n, g, h, x, y)
  OBVIOUS
<1>7. h.foff \in Nat
  BY <1>1
<1> HIDE DEF d, x, y, cnt
<1>8. Linear(d, x) \in Nat /\ Linear(d, y) \in Nat
  <2>1. 0 \in Nat /\ y[n] + 0 <= d[n]
    BY <1>1, <1>2, <1>4
  <2>2. Linear(d, x) \in Nat
    BY <1>1, LinearInside
  <2>3. Linear(d, y) \in Nat
    BY <1>1, <1>2, <2>1, LinearInside
  <2> QED BY <2>2, <2>3
<1>9. Linear(d, x) + cnt <= Linear(d, y)
  <2>1. \A i \in 1 .. n : x[i] < d[i] /\ y[i] < d[i]
    BY <1>1, <1>2
  <2>2. CASE g.dstart[1] + g.count[1] <= h.dstart[1]
    <3>1. x[1] < y[1]
      <4>1. x[1] \in Nat /\ y[1] \in Nat
        BY <1>1, <1>2, <1>4
      <4> QED BY <1>3, <1>4, <2>2, <4>1
    <3>2. \A i \in 1 .. 1 - 1 : x[i] = y[i]
      OBVIOUS
    <3>3. x[n] + cnt <= IF 1 = n THEN y[n] ELSE d[n]
      BY <1>1, <1>3, <1>4, <2>2 DEF cnt
    <3> QED BY <1>1, <1>2, <1>4, <2>1, <3>1, <3>2, <3>3, LinearGrows
  <2>3. CASE g = h /\ LessThan(x, y)
    <3>1. PICK k \in 1 .. n : x[k] < y[k] /\ \A i \in 1 .. k - 1 : x[i] = y[i]
      BY <1>1, <2>3 DEF LessThan
    <3>2. x[n] = y[n] /\ x[n] \in Nat /\ y[n] \in Nat
      BY <1>1, <1>2, <1>3, <1>4, <2>3
    <3>3. k # n
      BY <3>1, <3>2
    <3>4. x[n] + cnt <= IF k = n THEN y[n] ELSE d[n]
      BY <1>1, <3>3
    <3> QED BY <1>1, <1>2, <2>1, <3>1, <3>4, LinearGrows
  <2> QED BY <1>6, <2>2, <2>3 DEF RowsApart
<1> DEFINE a == Linear(d, x)
           b == Linear(d, y)
<1>10. a \in Nat /\ b \in Nat /\ cnt \in Nat /\ a + cnt <= b
  BY <1>1, <1>8, <1>9
<1>11. EndOfRun(before[r]) = h.foff + width * a + width * cnt /\ runs[q].f = h.foff + width * b
  BY <1>5 DEF EndOfRun
<1> HIDE DEF a, b
<1>12. /\ width * a \in Nat /\ width * cnt \in Nat /\ width * b \in Nat
       /\ width * a + width * cnt <= width * b
  BY <1>10, Scaled
<1> DEFINE ea == width * a
           ec == width * cnt
           eb == width * b
<1>13. /\ ea \in Nat /\ ec \in Nat /\ eb \in Nat /\ ea + ec <= eb
       /\ EndOfRun(before[r]) = h.foff + ea + ec /\ runs[q].f = h.foff + eb
  BY <1>11, <1>12
<1> HIDE DEF ea, ec, eb
<1> QED BY <1>7, <1>13

-----------------------------------------------------------------------------
(* The runs of a group of hits *)

\* A run lies in the data block of a hit.
InBlock(run, hit, width) ==
  /\ run.f \in Nat /\ EndOfRun(run) \in Nat
  /\ hit.foff <= run.f /\ EndOfRun(run) <= hit.foff + width * Volume(hit.dsize)

\* Whatever runs are trimmed, they ascend afterwards.
LEMMA TrimmedAscend ==
  ASSUME NEW M \in Nat, NEW runs \in [1 .. M -> Runs]
  PROVE  Ascending(Trimmed(runs).runs)
<1> DEFINE got == Trimmed(runs).runs
<1>1. /\ TrimOf(M, runs, Trimmed(runs))
      /\ \A k, l \in 1 .. M : k < l => Parted(runs, got, k, l)
  BY Trims
<1>2. /\ got \in [1 .. M -> Runs]
      /\ \A i \in 1 .. M : EndOfRun(got[i]) = EndOfRun(runs[i])
  BY <1>1 DEF TrimOf, Plans
<1> HIDE DEF got
<1>3. ASSUME NEW k \in 1 .. M, NEW l \in 1 .. M, k < l, got[k].len > 0, got[l].len > 0
      PROVE  got[k].f + got[k].len <= got[l].f
  <2>1. /\ got[k].f \in Int /\ got[k].len \in Nat /\ got[l].f \in Int /\ got[l].len \in Nat
    BY <1>2 DEF Runs
  <2>2. got[l].f >= got[l].f + got[l].len \/ got[l].f >= got[k].f + got[k].len
    BY <1>1, <1>2, <1>3 DEF Parted, EndOfRun
  <2> QED BY <1>3, <2>1, <2>2
<1>4. DOMAIN got = 1 .. M
  BY <1>2
<1> QED BY <1>3, <1>4 DEF Ascending, got

\* The runs of a hit in elements or bytes.
LEMMA HitRuns ==
  ASSUME NEW n \in Nat \ {0}, NEW width \in Nat, NEW unit \in Nat, unit <= width,
         NEW h, Inside(n, h)
  PROVE  /\ RowsOf(h, width, unit) \in Seq(Runs)
         /\ \A r \in 1 .. Len(RowsOf(h, width, unit)) : InBlock(RowsOf(h, width, unit)[r], h, width)
<1> DEFINE runs == RowsOf(h, width, unit)
<1>1. PICK R \in Nat : \E cells :
           /\ RowStarts(n, h, R, cells)
           /\ RunsOfRows(n, h, width, unit, R, cells, runs)
  BY RowsOfHit
<1>2. PICK cells : RowStarts(n, h, R, cells) /\ RunsOfRows(n, h, width, unit, R, cells, runs)
  BY <1>1
<1> HIDE DEF runs
<1>3. runs \in Seq(Runs) /\ Len(runs) = R
  BY LenProperties, <1>2 DEF RunsOfRows
<1>4. \A r \in 1 .. R : InBlock(runs[r], h, width)
  BY <1>2, RunsInBlock DEF InBlock
<1> QED BY <1>3, <1>4 DEF runs

\* A single hit: its rows ascend.
LEMMA SingleAscends ==
  ASSUME NEW n \in Nat \ {0}, NEW width \in Nat, NEW h, Inside(n, h)
  PROVE  Ascending(RowsOf(h, width, width))
<1> DEFINE runs == RowsOf(h, width, width)
<1>1. PICK R \in Nat : \E cells :
           /\ RowStarts(n, h, R, cells)
           /\ RunsOfRows(n, h, width, width, R, cells, runs)
  BY RowsOfHit
<1>2. PICK cells : RowStarts(n, h, R, cells) /\ RunsOfRows(n, h, width, width, R, cells, runs)
  BY <1>1
<1> HIDE DEF runs
<1>3. DOMAIN runs = 1 .. R
  BY <1>2 DEF RunsOfRows
<1>4. ASSUME NEW r \in 1 .. R, NEW q \in 1 .. R, r < q PROVE EndOfRun(runs[r]) <= runs[q].f
  <2>1. RowsApart(n, h, h, cells[r], cells[q])
    BY <1>2, <1>4 DEF RowStarts, RowsApart
  <2> QED BY <1>2, <2>1, RunsApart
<1> QED BY <1>3, <1>4 DEF Ascending, EndOfRun, runs

\* The runs of a group ascend and lie in the data blocks of its hits.
LEMMA GroupRuns ==
  ASSUME NEW n \in Nat \ {0}, NEW width \in Nat \ {0}, NEW group \in Seq(Hits(n)), Len(group) # 0,
         \A i \in 1 .. Len(group) : Inside(n, group[i])
  PROVE  /\ GroupPlan(group, width).runs \in Seq(Runs)
         /\ Ascending(GroupPlan(group, width).runs)
         /\ \A r \in 1 .. Len(GroupPlan(group, width).runs) :
              \E i \in 1 .. Len(group) : InBlock(GroupPlan(group, width).runs[r], group[i], width)
<1> DEFINE N == Len(group)
<1>1. N \in Nat /\ N # 0 /\ DOMAIN group = 1 .. N /\ 1 \in 1 .. N /\ 1 \in Nat /\ 1 <= width
      /\ width \in Nat /\ width <= width
  BY LenProperties
<1>2. CASE N = 1
  <2>1. GroupPlan(group, width).runs = RowsOf(group[1], width, width)
    BY <1>2 DEF GroupPlan
  <2>2. Inside(n, group[1])
    BY <1>1
  <2> QED BY <1>1, <2>1, <2>2, HitRuns, SingleAscends
<1>3. CASE N # 1
  <2> DEFINE p == [j \in 1 .. N |-> RowsOf(group[j], width, 1)]
             flat == FlattenSeq(p)
             sorted == SortOffsets(flat)
             got == Trimmed(sorted).runs
  <2>1. GroupPlan(group, width).runs = got
    BY <1>1, <1>3 DEF GroupPlan
  <2>2. \A j \in 1 .. N : /\ RowsOf(group[j], width, 1) \in Seq(Runs)
                          /\ \A r \in 1 .. Len(RowsOf(group[j], width, 1)) :
                               InBlock(RowsOf(group[j], width, 1)[r], group[j], width)
    BY <1>1, HitRuns
  <2>3. p \in Seq(Seq(Runs)) /\ Len(p) = N /\ \A j \in 1 .. N : p[j] = RowsOf(group[j], width, 1)
    <3> DEFINE W == Seq(Runs)
               e(j) == RowsOf(group[j], width, 1)
    <3>1. \A j \in 1 .. N : e(j) \in W
      BY <2>2
    <3>2. p = [j \in 1 .. N |-> e(j)]
      OBVIOUS
    <3> HIDE DEF W, e, p, N
    <3>3. p \in [1 .. N -> W] /\ \A j \in 1 .. N : p[j] = e(j)
      BY <3>1, <3>2
    <3>4. p \in Seq(W) /\ Len(p) = N
      BY <1>1, <3>3, LenProperties
    <3> QED BY <3>3, <3>4 DEF W, e
  <2> HIDE DEF p, N
  <2>4. \A j \in 1 .. Len(p) : \A i \in 1 .. Len(p[j]) : InBlock(p[j][i], group[j], width)
    BY <2>2, <2>3
  <2> DEFINE M == EndOf(p, Len(p))
  <2>5. /\ flat \in Seq(Runs) /\ Len(flat) = M
        /\ \A j \in 1 .. Len(p) : \A i \in 1 .. Len(p[j]) : flat[EndOf(p, j - 1) + i] = p[j][i]
    BY <2>3, Flatten
  <2>6. \A k \in 1 .. M : \E j \in 1 .. Len(p) : \E i \in 1 .. Len(p[j]) : k = EndOf(p, j - 1) + i
    BY <2>3, PieceOf
  <2> HIDE DEF flat, M
  <2>7. ASSUME NEW k \in 1 .. M PROVE \E j \in 1 .. N : InBlock(flat[k], group[j], width)
    <3>1. PICK j \in 1 .. Len(p) : \E i \in 1 .. Len(p[j]) : k = EndOf(p, j - 1) + i
      BY <2>6
    <3>2. PICK i \in 1 .. Len(p[j]) : k = EndOf(p, j - 1) + i
      BY <3>1
    <3>3. flat[k] = p[j][i] /\ j \in 1 .. N
      BY <2>3, <2>5, <3>2
    <3> QED BY <2>4, <3>3
  <2>8. M \in Nat /\ flat \in [1 .. M -> Runs]
    BY <2>5, LenProperties
  <2>9. PICK idx : /\ IsOrder(M, idx, OffsetOrder(flat))
                   /\ sorted = [i \in 1 .. M |-> flat[idx[i]]]
    BY <2>8, OffsetsSorted
  <2>10. idx \in [1 .. M -> 1 .. M]
    BY <2>9 DEF IsOrder
  <2>11. sorted \in [1 .. M -> Runs] /\ \A i \in 1 .. M : sorted[i] = flat[idx[i]]
    BY <2>8, <2>9, <2>10
  <2> HIDE DEF sorted
  <2>12. Ascending(got)
    BY <2>8, <2>11, TrimmedAscend
  <2>13. TrimOf(M, sorted, Trimmed(sorted))
    BY <2>8, <2>11, Trims
  <2>14. got \in [1 .. M -> Runs]
    BY <2>13 DEF TrimOf, Plans
  <2>15. \A i \in 1 .. M : got[i].f >= sorted[i].f /\ EndOfRun(got[i]) = EndOfRun(sorted[i])
    BY <2>13 DEF TrimOf
  <2> HIDE DEF got
  <2>16. ASSUME NEW r \in 1 .. M PROVE \E i \in 1 .. N : InBlock(got[r], group[i], width)
    <3>1. PICK i \in 1 .. N : InBlock(sorted[r], group[i], width)
      BY <2>7, <2>10, <2>11
    <3>2. got[r].f \in Int /\ group[i].foff \in Nat
      BY <1>1, <2>14 DEF Runs, Inside, Hits, N
    <3>3. got[r].f \in Nat /\ group[i].foff <= got[r].f
      BY <2>15, <3>1, <3>2 DEF InBlock
    <3>4. EndOfRun(got[r]) = EndOfRun(sorted[r])
      BY <2>15
    <3>5. InBlock(got[r], group[i], width)
      BY <3>1, <3>3, <3>4 DEF InBlock
    <3> QED BY <3>5
  <2>17. got \in Seq(Runs) /\ Len(got) = M
    BY <2>8, <2>14, LenProperties
  <2> QED BY <2>1, <2>12, <2>16, <2>17 DEF N
<1> QED BY <1>2, <1>3

-----------------------------------------------------------------------------
(* The runs of several groups *)

\* The data blocks of two hits: the same, or one behind the other.
BlocksApart(a, b, width) ==
  \/ a.foff = b.foff /\ a.dsize = b.dsize
  \/ a.foff + width * Volume(a.dsize) <= b.foff
  \/ b.foff + width * Volume(b.dsize) <= a.foff

\* No data block has three hits.
AtMostTwo(N, hits) ==
  \A i, j, k \in 1 .. N :
    hits[i].foff = hits[j].foff /\ hits[j].foff = hits[k].foff => i = j \/ j = k \/ i = k

\* The data block of a hit has at least a byte.
LEMMA BlockHasBytes ==
  ASSUME NEW n \in Nat \ {0}, NEW width \in Nat \ {0}, NEW h, Inside(n, h)
  PROVE  /\ width * Volume(h.dsize) \in Nat \ {0} /\ h.foff \in Nat
         /\ h.dstart[1] \in Int /\ h.count[1] \in Int
<1>1. /\ h.dstart \in [1 .. n -> Int] /\ h.dsize \in [1 .. n -> Nat] /\ h.foff \in Nat
      /\ \A i \in 1 .. n : /\ h.dstart[i] \in Int /\ h.count[i] \in Int /\ h.dsize[i] \in Nat
                           /\ 0 <= h.dstart[i] /\ 0 < h.count[i]
                           /\ h.dstart[i] + h.count[i] <= h.dsize[i]
  BY DEF Inside, Hits
<1>2. 1 \in 1 .. n /\ n \in 1 .. n
  OBVIOUS
<1>3. h.dstart \in [1 .. n -> Nat]
  <2>1. h.dstart = [i \in 1 .. n |-> h.dstart[i]] /\ \A i \in 1 .. n : h.dstart[i] \in Nat
    BY <1>1
  <2> QED BY <2>1
<1>4. \A i \in 1 .. n : h.dstart[i] < h.dsize[i]
  <2>1. \A a, c \in Int, b \in Nat : 0 < c /\ a + c <= b => a < b
    OBVIOUS
  <2> QED BY <1>1, <2>1
<1>5. h.count[n] \in Nat /\ h.count[n] > 0 /\ h.dstart[n] + h.count[n] <= h.dsize[n]
  BY <1>1, <1>2
<1>6. /\ Linear(h.dsize, h.dstart) \in Nat
      /\ Linear(h.dsize, h.dstart) + h.count[n] <= Volume(h.dsize)
      /\ Volume(h.dsize) \in Nat
  BY <1>1, <1>3, <1>4, <1>5, LinearInside
<1>7. Volume(h.dsize) \in Nat \ {0}
  BY <1>5, <1>6
<1>8. \A x, y \in Nat \ {0} : x * y \in Nat \ {0}
  OBVIOUS
<1> QED BY <1>1, <1>2, <1>7, <1>8

\* Sorted hits of data blocks that are apart, at most two in each, and the positions
\* of a group.
SortedHits(n, N, H, width) ==
  /\ H \in [1 .. N -> Hits(n)] /\ \A i \in 1 .. N : Inside(n, H[i])
  /\ \A i, j \in 1 .. N : BlocksApart(H[i], H[j], width)
  /\ AtMostTwo(N, H)
  /\ \A k, l \in 1 .. N : k < l => ~Precedes(H[l], H[k])
InGroup(s, g, p) == Before(s, g) < p /\ p <= s[g]

\* Hits of different groups: in data blocks one behind the other, or each alone in
\* its group, the second behind the first in the slowest dimension.
Follows(a, b, width) == a.foff + width * Volume(a.dsize) <= b.foff
Continues(a, b) ==
  a.foff = b.foff /\ a.dsize = b.dsize /\ a.dstart[1] + a.count[1] <= b.dstart[1]
Alone(s, g, p) == Before(s, g) + 1 = p /\ s[g] = p

\* Of two hits in different groups the later one is in a data block further on, or
\* both are alone in their groups and it continues the earlier one in its block.
LEMMA HitsOfGroups ==
  ASSUME NEW n \in Nat \ {0}, NEW width \in Nat \ {0}, NEW N \in Nat \ {0},
         NEW H, SortedHits(n, N, H, width), NEW m, NEW s, GroupsAt(N, H, s, m),
         NEW g \in 1 .. m, NEW h \in 1 .. m, g < h,
         NEW p \in 1 .. N, InGroup(s, g, p), NEW q \in 1 .. N, InGroup(s, h, q)
  PROVE  \/ Follows(H[p], H[q], width)
         \/ Continues(H[p], H[q]) /\ Alone(s, g, p) /\ Alone(s, h, q)
<1>0. SUFFICES
      \/ H[p].foff + width * Volume(H[p].dsize) <= H[q].foff
      \/ /\ H[p].foff = H[q].foff /\ H[p].dsize = H[q].dsize
         /\ H[p].dstart[1] + H[p].count[1] <= H[q].dstart[1]
         /\ Before(s, g) + 1 = p /\ s[g] = p /\ Before(s, h) + 1 = q /\ s[h] = q
  BY DEF Follows, Continues, Alone
<1>0a. /\ H \in [1 .. N -> Hits(n)] /\ \A i \in 1 .. N : Inside(n, H[i])
       /\ \A i, j \in 1 .. N : BlocksApart(H[i], H[j], width)
       /\ AtMostTwo(N, H)
       /\ \A k, l \in 1 .. N : k < l => ~Precedes(H[l], H[k])
  BY DEF SortedHits
<1>0b. /\ m \in 1 .. N /\ s \in [1 .. m -> 1 .. N]
       /\ CutAt(N, {i \in 1 .. N : EndsRun(H, i)}, s, m)
       /\ Before(s, g) < p /\ p <= s[g] /\ Before(s, h) < q /\ q <= s[h]
  BY DEF GroupsAt, InGroup
<1> USE <1>0a, <1>0b
<1> DEFINE E == {i \in 1 .. N : EndsRun(H, i)}
<1>1. /\ Before(s, g) \in 0 .. N - 1 /\ Before(s, h) \in 0 .. N - 1
      /\ s[g] \in 1 .. N /\ s[h] \in 1 .. N /\ s[g] \in E
      /\ \A i \in 1 .. N : Before(s, g) < i /\ i < s[g] => i \notin E
      /\ \A i \in 1 .. N : Before(s, h) < i /\ i < s[h] => i \notin E
      /\ s[g] <= Before(s, h)
  BY DEF CutAt
<1>2. \A i \in E : EndsRun(H, i)
  OBVIOUS
<1>3. \A i \in 1 .. N : i \notin E => ~EndsRun(H, i)
  OBVIOUS
<1> HIDE DEF E
<1>4. Len(H) = N
  BY LenProperties
<1>5. p < q /\ p \in Nat /\ q \in Nat
  <2>1. /\ Before(s, g) \in Int /\ Before(s, h) \in Int /\ s[g] \in Int /\ p \in Nat /\ q \in Nat
        /\ s[g] <= Before(s, h)
    BY <1>1
  <2> QED BY <2>1
<1> DEFINE a == H[p]
           b == H[q]
           va == width * Volume(a.dsize)
           vb == width * Volume(b.dsize)
<1>6. /\ va \in Nat \ {0} /\ a.foff \in Nat /\ a.dstart[1] \in Int /\ a.count[1] \in Int
      /\ vb \in Nat \ {0} /\ b.foff \in Nat /\ b.dstart[1] \in Int /\ b.count[1] \in Int
  BY BlockHasBytes
<1>7. \A i \in 1 .. N : H[i].foff \in Nat
  BY DEF Hits
<1>8. \A k, l \in 1 .. N : k < l => H[k].foff <= H[l].foff
  BY <1>7 DEF Precedes
<1>9. \/ a.foff = b.foff /\ a.dsize = b.dsize
      \/ a.foff + va <= b.foff
      \/ b.foff + vb <= a.foff
  BY DEF BlocksApart
<1>10. a.foff <= b.foff
  BY <1>5, <1>8
<1>11. SUFFICES ASSUME ~(a.foff + va <= b.foff)
       PROVE  /\ a.foff = b.foff /\ a.dsize = b.dsize
              /\ a.dstart[1] + a.count[1] <= b.dstart[1]
              /\ Before(s, g) + 1 = p /\ s[g] = p /\ Before(s, h) + 1 = q /\ s[h] = q
  OBVIOUS
<1>12. a.foff = b.foff /\ a.dsize = b.dsize
  <2> DEFINE fa == a.foff
             fb == b.foff
  <2>1. fa \in Nat /\ fb \in Nat /\ va \in Nat \ {0} /\ vb \in Nat \ {0} /\ fa <= fb
        /\ ~(fa + va <= fb)
    BY <1>6, <1>10, <1>11
  <2> HIDE DEF fa, fb, va, vb
  <2>2. ~(fb + vb <= fa)
    BY <2>1
  <2> QED BY <1>9, <1>11, <2>2 DEF fa, fb
<1> HIDE DEF a, b, va, vb
<1>13. \A i \in 1 .. N : H[i].foff = a.foff => i = p \/ i = q
  <2>1. H[p].foff = a.foff /\ H[q].foff = a.foff
    BY <1>12 DEF a, b
  <2> QED BY <1>5, <2>1 DEF AtMostTwo
<1>14. q = p + 1
  <2>1. CASE p + 1 < q
    <3>1. p + 1 \in 1 .. N /\ p < p + 1
      BY <1>5
    <3>2. a.foff <= H[p + 1].foff /\ H[p + 1].foff <= a.foff
      BY <1>8, <1>12, <2>1, <3>1 DEF a, b
    <3>3. H[p + 1].foff \in Nat /\ a.foff \in Nat
      BY <1>6, <1>7, <3>1
    <3>4. H[p + 1].foff = a.foff
      BY <3>2, <3>3
    <3>5. p + 1 # p /\ p + 1 # q
      BY <1>5, <2>1
    <3> QED BY <1>13, <3>1, <3>4, <3>5
  <2> QED BY <1>5, <2>1
<1>15. s[g] = p /\ Before(s, h) = p
  <2> DEFINE x == s[g]
             y == Before(s, h)
  <2>1. x \in Int /\ y \in Int /\ p <= x /\ x <= y /\ y < q
    BY <1>1
  <2> HIDE DEF x, y
  <2>2. x = p /\ y = p
    BY <1>5, <1>14, <2>1
  <2> QED BY <2>2 DEF x, y
<1>16. Before(s, g) + 1 = p
  <2>1. CASE Before(s, g) + 1 < p
    <3>1. p - 1 \in 1 .. N /\ Before(s, g) < p - 1 /\ p - 1 < s[g] /\ p - 1 + 1 = p
      BY <1>1, <1>15, <2>1
    <3>2. ~EndsRun(H, p - 1)
      BY <1>1, <1>3, <3>1
    <3>3. H[p - 1].foff = H[p - 1 + 1].foff
      BY <3>2 DEF EndsRun, Interleaves
    <3>4. H[p - 1].foff = a.foff
      BY <3>1, <3>3 DEF a
    <3>5. p - 1 # p /\ p - 1 # q
      BY <1>5
    <3> QED BY <1>13, <3>1, <3>4, <3>5
  <2>2. Before(s, g) \in Int
    BY <1>1
  <2> QED BY <1>5, <2>1, <2>2
<1>17. s[h] = q
  <2>1. CASE q < s[h]
    <3>1. q \in 1 .. N /\ q + 1 \in 1 .. N /\ Before(s, h) < q
      BY <1>1, <2>1
    <3>2. ~EndsRun(H, q)
      BY <1>1, <1>3, <2>1, <3>1
    <3>3. H[q].foff = H[q + 1].foff
      BY <3>2 DEF EndsRun, Interleaves
    <3>4. H[q + 1].foff = a.foff
      BY <1>12, <3>3 DEF b
    <3>5. q + 1 # p /\ q + 1 # q
      BY <1>5
    <3> QED BY <1>13, <3>1, <3>4, <3>5
  <2>2. s[h] \in Int
    BY <1>1
  <2> QED BY <1>5, <2>1, <2>2
<1>18. a.dstart[1] + a.count[1] <= b.dstart[1]
  <2>1. EndsRun(H, p) /\ p # N
    BY <1>1, <1>2, <1>5, <1>15
  <2>2. ~Interleaves(a, b)
    BY <1>4, <1>14, <2>1 DEF EndsRun, a, b
  <2>3. ~Interleve(a, b)
    BY <1>12, <2>2 DEF Interleaves
  <2>4. PICK i \in DOMAIN b.dstart :
          /\ a.dstart[i] + a.count[i] < b.dstart[i]
          /\ ~\E j \in 1 .. i - 1 : a.dstart[j] + a.count[j] > b.dstart[j]
    BY <2>3 DEF Interleve
  <2>5. i \in 1 .. n
    BY DEF b, Hits
  <2> DEFINE x == a.dstart[1]
             c == a.count[1]
             y == b.dstart[1]
  <2>8. x \in Int /\ c \in Int /\ y \in Int
    BY <1>6
  <2>6. CASE i = 1
    <3>1. x + c < y
      BY <2>4, <2>6
    <3> HIDE DEF x, c, y
    <3>2. x + c <= y
      BY <2>8, <3>1
    <3> QED BY <3>2 DEF x, c, y
  <2>7. CASE i # 1
    <3>1. 1 \in 1 .. i - 1
      BY <2>5, <2>7
    <3>2. ~(x + c > y)
      BY <2>4, <3>1
    <3> HIDE DEF x, c, y
    <3>3. x + c <= y
      BY <2>8, <3>2
    <3> QED BY <3>3 DEF x, c, y
  <2> QED BY <2>6, <2>7
<1> QED BY <1>12, <1>14, <1>15, <1>16, <1>17, <1>18

\* The runs of a group, and its hits.
RunsOf(group, width) == GroupPlan(group, width).runs
HitsIn(n, N, H, s, g, group) ==
  /\ group \in Seq(Hits(n)) /\ Len(group) = s[g] - Before(s, g) /\ Len(group) # 0
  /\ \A i \in 1 .. Len(group) :
       /\ Before(s, g) + i \in 1 .. N /\ Before(s, g) + i <= s[g]
       /\ group[i] = H[Before(s, g) + i]

\* A group is the hits from where the group before it ends to where it does.
LEMMA GroupIs ==
  ASSUME NEW n \in Nat \ {0}, NEW N \in Nat \ {0}, NEW H \in [1 .. N -> Hits(n)],
         NEW E, NEW m \in 1 .. N, NEW s \in [1 .. m -> 1 .. N], CutAt(N, E, s, m), NEW g \in 1 .. m
  PROVE  /\ HitsIn(n, N, H, s, g, GroupOf(H, s, g))
         /\ Before(s, g) \in Int /\ s[g] \in Int
<1> DEFINE b == Before(s, g)
           z == s[g]
           group == SubSeq(H, b + 1, z)
<1>1. b \in 0 .. N - 1 /\ z \in 1 .. N /\ b < z
  BY DEF CutAt
<1> HIDE DEF b, z
<1>2. H \in Seq(Hits(n)) /\ Len(H) = N
  BY LenProperties
<1>3. \A i \in b + 1 .. z : H[i] \in Hits(n)
  BY <1>1
<1>4. /\ group \in Seq(Hits(n)) /\ Len(group) = IF b + 1 <= z THEN z - (b + 1) + 1 ELSE 0
      /\ \A i \in 1 .. z - (b + 1) + 1 : group[i] = H[b + 1 + i - 1]
  BY <1>1, <1>2, <1>3, SubSeqProperties
<1> HIDE DEF group
<1>5. Len(group) = z - b /\ Len(group) # 0 /\ z - (b + 1) + 1 = z - b
  BY <1>1, <1>4
<1>6. ASSUME NEW i \in 1 .. z - b
      PROVE  b + i \in 1 .. N /\ b + i <= z /\ group[i] = H[b + i]
  <2>1. b + i \in 1 .. N /\ b + i <= z /\ b + 1 + i - 1 = b + i
    BY <1>1
  <2> QED BY <1>4, <1>5, <2>1
<1>7. b \in Int /\ z \in Int
  BY <1>1
<1> QED BY <1>4, <1>5, <1>6, <1>7 DEF group, b, z, GroupOf, HitsIn

\* The runs of different groups are apart.
LEMMA GroupsApart ==
  ASSUME NEW n \in Nat \ {0}, NEW width \in Nat \ {0}, NEW N \in Nat \ {0},
         NEW H, SortedHits(n, N, H, width), NEW m, NEW s, GroupsAt(N, H, s, m),
         NEW g \in 1 .. m, NEW h \in 1 .. m, g < h,
         NEW r \in 1 .. Len(RunsOf(GroupOf(H, s, g), width)),
         NEW k \in 1 .. Len(RunsOf(GroupOf(H, s, h), width))
  PROVE  EndOfRun(RunsOf(GroupOf(H, s, g), width)[r]) <= RunsOf(GroupOf(H, s, h), width)[k].f
<1> DEFINE G1 == GroupOf(H, s, g)
           G2 == GroupOf(H, s, h)
           runs == RunsOf(G1, width)
           more == RunsOf(G2, width)
<1>0. HitsIn(n, N, H, s, g, G1) /\ HitsIn(n, N, H, s, h, G2)
  BY GroupIs DEF SortedHits, GroupsAt
<1>3. /\ Before(s, g) \in Int /\ Before(s, h) \in Int /\ s[g] \in Int /\ s[h] \in Int
  BY GroupIs DEF SortedHits, GroupsAt
<1>4. runs = GroupPlan(G1, width).runs /\ more = GroupPlan(G2, width).runs
  BY DEF RunsOf
<1>13. r \in 1 .. Len(runs) /\ k \in 1 .. Len(more)
  OBVIOUS
<1> HIDE DEF G1, G2, runs, more
<1>1. /\ G1 \in Seq(Hits(n)) /\ Len(G1) = s[g] - Before(s, g) /\ Len(G1) # 0
      /\ \A i \in 1 .. Len(G1) : /\ Before(s, g) + i \in 1 .. N /\ Before(s, g) + i <= s[g]
                                 /\ G1[i] = H[Before(s, g) + i] /\ Inside(n, G1[i])
  BY <1>0 DEF HitsIn, SortedHits
<1>2. /\ G2 \in Seq(Hits(n)) /\ Len(G2) = s[h] - Before(s, h) /\ Len(G2) # 0
      /\ \A i \in 1 .. Len(G2) : /\ Before(s, h) + i \in 1 .. N /\ Before(s, h) + i <= s[h]
                                 /\ G2[i] = H[Before(s, h) + i] /\ Inside(n, G2[i])
  BY <1>0 DEF HitsIn, SortedHits
<1>5. /\ runs \in Seq(Runs)
      /\ \A j \in 1 .. Len(runs) : \E i \in 1 .. Len(G1) : InBlock(runs[j], G1[i], width)
  BY <1>1, <1>4, GroupRuns
<1>6. /\ more \in Seq(Runs)
      /\ \A j \in 1 .. Len(more) : \E i \in 1 .. Len(G2) : InBlock(more[j], G2[i], width)
  BY <1>2, <1>4, GroupRuns
<1>7. PICK i \in 1 .. Len(G1) : InBlock(runs[r], G1[i], width)
  BY <1>5, <1>13
<1>8. PICK j \in 1 .. Len(G2) : InBlock(more[k], G2[j], width)
  BY <1>6, <1>13
<1> DEFINE p == Before(s, g) + i
           q == Before(s, h) + j
           a == H[p]
           b == H[q]
<1>9. /\ p \in 1 .. N /\ InGroup(s, g, p) /\ G1[i] = a /\ Inside(n, a)
      /\ q \in 1 .. N /\ InGroup(s, h, q) /\ G2[j] = b /\ Inside(n, b)
  <2> DEFINE x == Before(s, g)
             y == Before(s, h)
  <2>1. i \in Nat \ {0} /\ j \in Nat \ {0}
    <3>1. Len(G1) \in Nat /\ Len(G2) \in Nat
      BY <1>1, <1>2, LenProperties
    <3> QED BY <3>1
  <2>2. x \in Int /\ y \in Int
    BY <1>3
  <2> HIDE DEF x, y
  <2>3. x < x + i /\ y < y + j
    BY <2>1, <2>2
  <2> QED BY <1>1, <1>2, <2>3 DEF x, y, InGroup
<1> HIDE DEF p, q
<1>10. Follows(a, b, width) \/ (Continues(a, b) /\ Alone(s, g, p) /\ Alone(s, h, q))
  BY <1>9, HitsOfGroups
<1> HIDE DEF a, b
<1>11. CASE Follows(a, b, width)
  <2>1. /\ more[k].f \in Nat /\ EndOfRun(runs[r]) \in Nat
        /\ EndOfRun(runs[r]) <= a.foff + width * Volume(a.dsize) /\ b.foff <= more[k].f
    BY <1>7, <1>8, <1>9 DEF InBlock
  <2>2. width * Volume(a.dsize) \in Nat /\ a.foff \in Nat /\ b.foff \in Nat
    BY <1>9, BlockHasBytes
  <2> DEFINE e == EndOfRun(runs[r])
             v == width * Volume(a.dsize)
             x == a.foff
             y == b.foff
             z == more[k].f
  <2>3. e \in Nat /\ v \in Nat /\ x \in Nat /\ y \in Nat /\ z \in Nat
        /\ e <= x + v /\ x + v <= y /\ y <= z
    BY <1>11, <2>1, <2>2 DEF Follows
  <2> HIDE DEF e, v, x, y, z
  <2>4. e <= z
    BY <2>3
  <2> QED BY <2>4 DEF e, z, runs, more, G1, G2
<1>12. CASE Continues(a, b) /\ Alone(s, g, p) /\ Alone(s, h, q)
  <2>1. Len(G1) = 1 /\ G1[1] = a /\ Len(G2) = 1 /\ G2[1] = b
    <3>0. \A x \in Int : x + 1 - x = 1
      OBVIOUS
    <3>3. /\ Before(s, g) + 1 = s[g] /\ Before(s, h) + 1 = s[h]
          /\ Len(G1) = s[g] - Before(s, g) /\ Len(G2) = s[h] - Before(s, h)
      BY <1>1, <1>2, <1>12 DEF Alone
    <3> DEFINE x == Before(s, g)
               y == Before(s, h)
    <3>4. /\ x \in Int /\ y \in Int /\ x + 1 = s[g] /\ y + 1 = s[h]
          /\ Len(G1) = s[g] - x /\ Len(G2) = s[h] - y
      BY <1>3, <3>3
    <3> HIDE DEF x, y
    <3>5. Len(G1) = x + 1 - x /\ Len(G2) = y + 1 - y
      BY <3>4
    <3>1. Len(G1) = 1 /\ Len(G2) = 1
      BY <3>0, <3>4, <3>5
    <3>2. i = 1 /\ j = 1
      BY <3>1
    <3> QED BY <1>9, <3>1, <3>2
  <2>2. runs = RowsOf(a, width, width) /\ more = RowsOf(b, width, width)
    BY <1>4, <2>1 DEF GroupPlan
  <2>3. width \in Nat
    OBVIOUS
  <2>4. PICK R \in Nat : \E cells :
           RowStarts(n, a, R, cells) /\ RunsOfRows(n, a, width, width, R, cells, runs)
    BY <1>9, <2>2, <2>3, RowsOfHit
  <2>5. PICK cells : RowStarts(n, a, R, cells) /\ RunsOfRows(n, a, width, width, R, cells, runs)
    BY <2>4
  <2>6. PICK K \in Nat : \E starts :
           RowStarts(n, b, K, starts) /\ RunsOfRows(n, b, width, width, K, starts, more)
    BY <1>9, <2>2, <2>3, RowsOfHit
  <2>7. PICK starts : RowStarts(n, b, K, starts) /\ RunsOfRows(n, b, width, width, K, starts, more)
    BY <2>6
  <2>8. r \in 1 .. R /\ k \in 1 .. K
    <3>1. Len(runs) = R /\ Len(more) = K
      BY <2>5, <2>7, LenProperties DEF RunsOfRows
    <3> QED BY <1>13, <3>1
  <2>9. RowsApart(n, a, b, cells[r], starts[k])
    BY <1>12 DEF RowsApart, Continues
  <2>11. a.foff = b.foff /\ a.dsize = b.dsize
    BY <1>12 DEF Continues
  <2>10. EndOfRun(runs[r]) <= more[k].f
    <3>1. Inside(n, a) /\ Inside(n, b)
      BY <1>9
    <3> HIDE DEF a, b, runs, more, G1, G2
    <3> QED BY <2>3, <2>5, <2>7, <2>8, <2>9, <2>11, <3>1, RunsApart
  <2> QED BY <2>10 DEF runs, more, G1, G2
<1> QED BY <1>10, <1>11, <1>12

\* Runs that ascend, one list behind the other.
LEMMA PiecesAscend ==
  ASSUME NEW p \in Seq(Seq(Runs)), \A g \in 1 .. Len(p) : Ascending(p[g]),
         \A g, h \in 1 .. Len(p) : g < h =>
           \A r \in 1 .. Len(p[g]), k \in 1 .. Len(p[h]) : EndOfRun(p[g][r]) <= p[h][k].f
  PROVE  Ascending(FlattenSeq(p))
<1> DEFINE M == EndOf(p, Len(p))
           flat == FlattenSeq(p)
<1>1. /\ flat \in Seq(Runs) /\ Len(flat) = M
      /\ \A j \in 1 .. Len(p) : \A i \in 1 .. Len(p[j]) : flat[EndOf(p, j - 1) + i] = p[j][i]
  BY Flatten
<1>2. \A k \in 1 .. M : \E j \in 1 .. Len(p) : \E i \in 1 .. Len(p[j]) : k = EndOf(p, j - 1) + i
  BY PieceOf
<1>3. \A j \in 1 .. Len(p) : p[j] \in Seq(Runs) /\ DOMAIN p[j] = 1 .. Len(p[j])
  BY ElementOfSeq, LenProperties
<1> HIDE DEF flat, M
<1>4. DOMAIN flat = 1 .. M
  BY <1>1, LenProperties
<1>5. ASSUME NEW x \in 1 .. M, NEW y \in 1 .. M, x < y, flat[x].len > 0, flat[y].len > 0
      PROVE  EndOfRun(flat[x]) <= flat[y].f
  <2>1. PICK g \in 1 .. Len(p) : \E r \in 1 .. Len(p[g]) : x = EndOf(p, g - 1) + r
    BY <1>2
  <2>2. PICK r \in 1 .. Len(p[g]) : x = EndOf(p, g - 1) + r
    BY <2>1
  <2>3. PICK h \in 1 .. Len(p) : \E k \in 1 .. Len(p[h]) : y = EndOf(p, h - 1) + k
    BY <1>2
  <2>4. PICK k \in 1 .. Len(p[h]) : y = EndOf(p, h - 1) + k
    BY <2>3
  <2>5. flat[x] = p[g][r] /\ flat[y] = p[h][k]
    BY <1>1, <2>2, <2>4
  <2>6. EndOf(p, g - 1) + r < EndOf(p, h - 1) + k
    BY <1>5, <2>2, <2>4
  <2>7. g < h \/ (g = h /\ r < k)
    BY <2>6, EarlierPiece
  <2>8. CASE g < h
    BY <2>5, <2>8
  <2>9. CASE g = h /\ r < k
    <3>1. Ascending(p[g]) /\ r \in DOMAIN p[g] /\ k \in DOMAIN p[g]
      BY <1>3, <2>9
    <3> QED BY <1>5, <2>5, <2>9, <3>1 DEF Ascending, EndOfRun
  <2> QED BY <2>7, <2>8, <2>9
<1> QED BY <1>4, <1>5 DEF Ascending, EndOfRun, flat

\* The runs of all groups of sorted hits.
LEMMA SortedAscend ==
  ASSUME NEW n \in Nat \ {0}, NEW width \in Nat \ {0}, NEW N \in Nat \ {0},
         NEW H, SortedHits(n, N, H, width), NEW m, NEW s, GroupsAt(N, H, s, m)
  PROVE  Ascending(FlattenSeq([g \in 1 .. m |-> RunsOf(GroupOf(H, s, g), width)]))
<1> DEFINE e(g) == RunsOf(GroupOf(H, s, g), width)
           p == [g \in 1 .. m |-> e(g)]
<1>1. m \in Nat /\ \A g \in 1 .. m : HitsIn(n, N, H, s, g, GroupOf(H, s, g))
  <2>1. m \in 1 .. N
    BY DEF GroupsAt
  <2>2. ASSUME NEW g \in 1 .. m PROVE HitsIn(n, N, H, s, g, GroupOf(H, s, g))
    BY GroupIs DEF SortedHits, GroupsAt
  <2> QED BY <2>1, <2>2
<1>2. ASSUME NEW g \in 1 .. m PROVE e(g) \in Seq(Runs) /\ Ascending(e(g))
  <2>1. HitsIn(n, N, H, s, g, GroupOf(H, s, g))
    BY <1>1
  <2> DEFINE group == GroupOf(H, s, g)
  <2>2. /\ group \in Seq(Hits(n)) /\ Len(group) # 0
        /\ \A i \in 1 .. Len(group) : Inside(n, group[i])
    BY <2>1 DEF HitsIn, SortedHits
  <2> HIDE DEF group
  <2>3. GroupPlan(group, width).runs \in Seq(Runs) /\ Ascending(GroupPlan(group, width).runs)
    BY <2>2, GroupRuns
  <2> QED BY <2>3 DEF RunsOf, group
<1>3. ASSUME NEW g \in 1 .. m, NEW h \in 1 .. m, g < h,
             NEW r \in 1 .. Len(e(g)), NEW k \in 1 .. Len(e(h))
      PROVE  EndOfRun(e(g)[r]) <= e(h)[k].f
  BY <1>3, GroupsApart
<1> HIDE DEF e
<1> DEFINE W == Seq(Runs)
<1>4. p \in [1 .. m -> W] /\ \A g \in 1 .. m : p[g] = e(g)
  BY <1>2
<1> HIDE DEF p
<1>5. p \in Seq(W) /\ Len(p) = m
  BY <1>1, <1>4, LenProperties
<1>6. \A g \in 1 .. Len(p) : Ascending(p[g])
  BY <1>2, <1>4, <1>5
<1>7. \A g, h \in 1 .. Len(p) : g < h =>
        \A r \in 1 .. Len(p[g]), k \in 1 .. Len(p[h]) : EndOfRun(p[g][r]) <= p[h][k].f
  BY <1>3, <1>4, <1>5
<1>8. Ascending(FlattenSeq(p))
  BY <1>5, <1>6, <1>7, PiecesAscend DEF W
<1> QED BY <1>8 DEF p, e

\* No hit, no run.
LEMMA NothingAscends ==
  ASSUME NEW hits, DOMAIN hits = {}
  PROVE  HitGroups(SortHits(hits)) = <<>>
<1> DEFINE H == SortHits(hits)
           E == {i \in DOMAIN H : EndsRun(H, i)}
           lasts == InOrder(E, <)
           e(g) == SubSeq(H, IF g = 1 THEN 1 ELSE lasts[g - 1] + 1, lasts[g])
<1>1. DOMAIN H = {}
  BY DEF SortHits
<1>2. E = {} /\ HitGroups(H) = [g \in DOMAIN lasts |-> e(g)]
  BY <1>1 DEF HitGroups
<1>3. DOMAIN lasts = 1 .. Cardinality(E)
  BY DEF InOrder
<1> HIDE DEF H, lasts, e, E
<1>4. Cardinality(E) = 0
  BY <1>2, FS_EmptySet
<1>5. DOMAIN lasts = {}
  BY <1>3, <1>4
<1>6. HitGroups(H) = <<>>
  BY <1>2, <1>5
<1> QED BY <1>6 DEF H

\* The runs of a read of hits without gaps, of data blocks that are apart, at most
\* two in each, ascend.
GroupPlans(groups, width) == [g \in DOMAIN groups |-> GroupPlan(groups[g], width)]
RunsOfPlans(plans) == FlattenSeq([g \in DOMAIN plans |-> plans[g].runs])

\* With data blocks apart and at most two hits in each, the runs of a plan ascend.
LEMMA PlanAscends ==
  ASSUME NEW n \in Nat \ {0}, NEW width \in Nat \ {0}, NEW N \in Nat,
         NEW hits \in [1 .. N -> Hits(n)], \A i \in 1 .. N : Inside(n, hits[i]),
         \A i, j \in 1 .. N : BlocksApart(hits[i], hits[j], width), AtMostTwo(N, hits)
  PROVE  Ascending(RunsOfPlans(GroupPlans(HitGroups(SortHits(hits)), width)))
<1> DEFINE H == SortHits(hits)
           groups == HitGroups(H)
<1>1. CASE N = 0
  <2>1. DOMAIN hits = {}
    BY <1>1
  <2>2. groups = <<>>
    BY <2>1, NothingAscends
  <2>3. RunsOfPlans(GroupPlans(<<>>, width)) = FlattenSeq(<<>>)
    <3>1. DOMAIN <<>> = {}
      OBVIOUS
    <3> QED BY <3>1 DEF RunsOfPlans, GroupPlans
  <2>4. FlattenSeq(<<>>) = <<>>
    BY DEF FlattenSeq
  <2>5. Ascending(<<>>)
    BY DEF Ascending
  <2> QED BY <2>2, <2>3, <2>4, <2>5
<1>2. CASE N # 0
  <2>1. N \in Nat \ {0}
    BY <1>2
  <2>2. PICK idx : /\ IsOrder(N, idx, HitOrder(hits))
                   /\ H = [i \in 1 .. N |-> hits[idx[i]]]
                   /\ \A k, l \in 1 .. N : k < l => ~Precedes(hits[idx[l]], hits[idx[k]])
    BY HitsSorted
  <2>3. idx \in [1 .. N -> 1 .. N] /\ \A k, l \in 1 .. N : idx[k] = idx[l] => k = l
    BY <2>2 DEF IsOrder
  <2>4. H \in [1 .. N -> Hits(n)] /\ \A i \in 1 .. N : H[i] = hits[idx[i]]
    BY <2>2, <2>3
  <2> HIDE DEF H
  <2>5. AtMostTwo(N, H)
    <3> SUFFICES ASSUME NEW i \in 1 .. N, NEW j \in 1 .. N, NEW k \in 1 .. N,
                        H[i].foff = H[j].foff, H[j].foff = H[k].foff
                 PROVE  i = j \/ j = k \/ i = k
      BY DEF AtMostTwo
    <3>1. /\ idx[i] \in 1 .. N /\ idx[j] \in 1 .. N /\ idx[k] \in 1 .. N
          /\ hits[idx[i]].foff = hits[idx[j]].foff /\ hits[idx[j]].foff = hits[idx[k]].foff
      BY <2>3, <2>4
    <3>2. idx[i] = idx[j] \/ idx[j] = idx[k] \/ idx[i] = idx[k]
      BY <3>1 DEF AtMostTwo
    <3> QED BY <2>3, <3>2
  <2>6. \A i, j \in 1 .. N : BlocksApart(H[i], H[j], width)
    BY <2>3, <2>4
  <2>7. SortedHits(n, N, H, width)
    BY <2>2, <2>3, <2>4, <2>5, <2>6 DEF SortedHits
  <2>8. PICK m, s : groups = Groups(H, s, m) /\ GroupsAt(N, H, s, m)
    BY <2>1, <2>4, HitGroupsFollow
  <2>10. GroupsAt(N, H, s, m)
    BY <2>8
  <2>11. groups = [g \in 1 .. m |-> GroupOf(H, s, g)]
    BY <2>8 DEF Groups
  <2> DEFINE D == 1 .. m
             plans == GroupPlans(groups, width)
  <2>12. DOMAIN groups = D /\ \A g \in D : groups[g] = GroupOf(H, s, g)
    BY <2>11
  <2> HIDE DEF groups, D
  <2>13. DOMAIN plans = D /\ \A g \in D : plans[g].runs = RunsOf(GroupOf(H, s, g), width)
    BY <2>12 DEF GroupPlans, RunsOf
  <2> HIDE DEF plans
  <2>14. [g \in DOMAIN plans |-> plans[g].runs] = [g \in D |-> RunsOf(GroupOf(H, s, g), width)]
    BY <2>13
  <2>15. Ascending(FlattenSeq([g \in D |-> RunsOf(GroupOf(H, s, g), width)]))
    BY <2>1, <2>7, <2>10, SortedAscend DEF D
  <2> QED BY <2>14, <2>15 DEF RunsOfPlans, plans, groups, H
<1> QED BY <1>1, <1>2

\* A read whose file type can be built has no gap in its hits.
LEMMA NoGaps ==
  ASSUME NEW n \in Nat \ {0}, NEW N \in Nat, NEW hits \in [1 .. N -> Hits(n)],
         PlanOutcome(HitGroups(SortHits(hits))) = "ok", NEW i \in 1 .. N
  PROVE  ~Gap(hits[i])
<1> DEFINE H == SortHits(hits)
           groups == HitGroups(H)
<1>1. N \in Nat \ {0}
  OBVIOUS
<1>2. PICK idx : /\ IsOrder(N, idx, HitOrder(hits))
                 /\ H = [j \in 1 .. N |-> hits[idx[j]]]
  BY HitsSorted
<1>3. idx \in [1 .. N -> 1 .. N] /\ \A x \in 1 .. N : \E k \in 1 .. N : idx[k] = x
  BY <1>2 DEF IsOrder
<1>4. H \in [1 .. N -> Hits(n)] /\ \A j \in 1 .. N : H[j] = hits[idx[j]]
  BY <1>2, <1>3
<1>5. /\ \A g \in DOMAIN groups : Len(groups[g]) > 1 => \A h \in ToSet(groups[g]) : ~Gap(h)
      /\ \A g \in DOMAIN groups : ~Gap(groups[g][1])
  BY DEF PlanOutcome
<1> HIDE DEF H
<1>6. PICK m, s : groups = Groups(H, s, m) /\ GroupsAt(N, H, s, m)
  BY <1>1, <1>4, HitGroupsFollow
<1> HIDE DEF groups
<1>7. PICK k \in 1 .. N : idx[k] = i
  BY <1>3
<1>8. PICK g \in 1 .. m : Before(s, g) < k /\ k <= s[g]
  BY <1>6 DEF GroupsAt, CutAt
<1> DEFINE group == GroupOf(H, s, g)
           j == k - Before(s, g)
<1>9. HitsIn(n, N, H, s, g, group) /\ Before(s, g) \in Int /\ s[g] \in Int
  BY <1>1, <1>4, <1>6, GroupIs DEF GroupsAt
<1>10. groups[g] = group /\ g \in DOMAIN groups
  BY <1>6 DEF Groups
<1> HIDE DEF group
<1>11. j \in 1 .. Len(group) /\ Before(s, g) + j = k
  <2> DEFINE x == Before(s, g)
  <2>1. x \in Int /\ x < k /\ k <= s[g] /\ Len(group) = s[g] - x /\ s[g] \in Int
    BY <1>8, <1>9 DEF HitsIn
  <2> HIDE DEF x
  <2>2. k - x \in 1 .. Len(group) /\ x + (k - x) = k
    BY <2>1
  <2> QED BY <2>2 DEF x
<1> HIDE DEF j
<1>12. group[j] = hits[i]
  BY <1>4, <1>7, <1>9, <1>11 DEF HitsIn
<1>13. group \in Seq(Hits(n)) /\ Len(group) \in Nat /\ DOMAIN group = 1 .. Len(group)
  BY <1>9, LenProperties DEF HitsIn
<1>14. CASE Len(group) > 1
  <2>1. group[j] \in ToSet(group)
    BY <1>11, <1>13 DEF ToSet
  <2> QED BY <1>5, <1>10, <1>12, <1>14, <2>1
<1>15. CASE ~(Len(group) > 1)
  <2>1. j = 1
    BY <1>11, <1>13, <1>15
  <2> QED BY <1>5, <1>10, <1>12, <2>1
<1> QED BY <1>14, <1>15

-----------------------------------------------------------------------------
(* What the search of the index finds *)

Entries(n) == [foff : Nat, sels : Seq(Sels(n))]

\* A hit lies in a selection of an entry; it is not empty in any dimension, but may
\* be the negative of a gap.
LiesIn(n, h, sel) ==
  /\ h.dsize = sel.count
  /\ \A i \in 1 .. n : /\ 0 <= h.dstart[i] /\ h.count[i] # 0
                       /\ h.count[i] > 0 => h.dstart[i] + h.count[i] <= h.dsize[i]
Found(n, entries) ==
  {h \in Hits(n) :
     \E e \in 1 .. Len(entries) : \E k \in 1 .. Len(entries[e].sels) :
       h.foff = entries[e].foff /\ LiesIn(n, h, entries[e].sels[k])}

\* What two ranges have in common ends where the first of them does.
LEMMA OverlapIs ==
  ASSUME NEW n \in Nat, NEW a \in Sels(n), NEW b \in Sels(n), NEW i \in 1 .. n
  PROVE  LET from == IF a.start[i] < b.start[i] THEN b.start[i] ELSE a.start[i]
         IN  /\ Overlap(a, b, i) \in Int
             /\ from - a.start[i] \in Nat /\ from - b.start[i] \in Nat
             /\ from - a.start[i] + Overlap(a, b, i) <= a.count[i]
<1> DEFINE x == a.start[i]
           y == b.start[i]
           v == a.count[i]
           w == b.count[i]
<1>1. x \in Nat /\ y \in Nat /\ v \in Nat /\ w \in Nat
  BY SelFields
<1>2. Overlap(a, b, i) = (IF x + v < y + w THEN x + v ELSE y + w) - (IF x < y THEN y ELSE x)
  BY DEF Overlap
<1> HIDE DEF x, y, v, w
<1> DEFINE o == Overlap(a, b, i)
           from == IF x < y THEN y ELSE x
<1>3. o = (IF x + v < y + w THEN x + v ELSE y + w) - from
  BY <1>2
<1>4. from \in Nat /\ from >= x /\ from >= y
  BY <1>1
<1> HIDE DEF o, from
<1>5. o \in Int /\ from - x \in Nat /\ from - y \in Nat /\ from - x + o <= v
  BY <1>1, <1>3, <1>4
<1> QED BY <1>5 DEF o, from, x, y, v

\* A hit of an entry.
LEMMA HitFound ==
  ASSUME NEW n \in Nat, NEW entries \in Seq(Entries(n)), NEW e \in 1 .. Len(entries),
         NEW k \in 1 .. Len(entries[e].sels), NEW rsel \in Sels(n), NEW xbuf \in Nat,
         Intersect(entries[e].sels[k], rsel)
  PROVE  Hit(entries[e], entries[e].sels[k], rsel, xbuf) \in Found(n, entries)
<1> DEFINE ent == entries[e]
           msel == ent.sels[k]
           D == 1 .. n
           from(i) == IF msel.start[i] < rsel.start[i] THEN rsel.start[i] ELSE msel.start[i]
           h == Hit(ent, msel, rsel, xbuf)
<1>1. ent \in Entries(n)
  BY ElementOfSeq
<1>2. ent.foff \in Nat /\ msel \in Sels(n)
  <2>1. ent.foff \in Nat /\ ent.sels \in Seq(Sels(n))
    BY <1>1 DEF Entries
  <2> HIDE DEF ent
  <2> QED BY <2>1, ElementOfSeq DEF ent
<1>3. Intersect(msel, rsel)
  OBVIOUS
<1> HIDE DEF ent, msel
<1>4. /\ msel.start \in [D -> Nat] /\ msel.count \in [D -> Nat]
      /\ rsel.start \in [D -> Nat] /\ rsel.count \in [D -> Nat]
  BY <1>2, SelFields
<1>5. \A i \in D : /\ Overlap(msel, rsel, i) \in Int /\ Overlap(msel, rsel, i) # 0
                   /\ from(i) - msel.start[i] \in Nat /\ from(i) - rsel.start[i] \in Nat
                   /\ from(i) - msel.start[i] + Overlap(msel, rsel, i) <= msel.count[i]
  <2> TAKE i \in D
  <2>1. Overlap(msel, rsel, i) # 0
    BY <1>3, <1>4 DEF Intersect
  <2>2. /\ Overlap(msel, rsel, i) \in Int
        /\ from(i) - msel.start[i] \in Nat /\ from(i) - rsel.start[i] \in Nat
        /\ from(i) - msel.start[i] + Overlap(msel, rsel, i) <= msel.count[i]
    BY <1>2, OverlapIs
  <2> QED BY <2>1, <2>2
<1> DEFINE f == [i \in D |-> from(i)]
           ds == [i \in D |-> f[i] - msel.start[i]]
           ms == [i \in D |-> f[i] - rsel.start[i]]
           c == [i \in D |-> Overlap(msel, rsel, i)]
<1>6. h = [foff |-> ent.foff, dstart |-> ds, dsize |-> msel.count,
           mstart |-> ms, msize |-> rsel.count, count |-> c, xbuf |-> xbuf]
  <2>1. DOMAIN rsel.start = D
    BY <1>4
  <2> QED BY <2>1 DEF Hit
<1>7. /\ \A i \in D : ds[i] = from(i) - msel.start[i] /\ ms[i] = from(i) - rsel.start[i]
                      /\ c[i] = Overlap(msel, rsel, i)
      /\ ds = [i \in D |-> ds[i]] /\ ms = [i \in D |-> ms[i]] /\ c = [i \in D |-> c[i]]
  OBVIOUS
<1> HIDE DEF f, ds, ms, c, from, h, D
<1>8. /\ \A i \in D : ds[i] \in Int /\ ms[i] \in Int /\ c[i] \in Int /\ 0 <= ds[i]
      /\ ds \in [D -> Int] /\ ms \in [D -> Int] /\ c \in [D -> Int]
  <2>1. \A i \in D : ds[i] \in Int /\ ms[i] \in Int /\ c[i] \in Int /\ 0 <= ds[i]
    <3> TAKE i \in D
    <3>1. ds[i] \in Nat /\ ms[i] \in Nat
      <4>1. ds[i] = from(i) - msel.start[i] /\ ms[i] = from(i) - rsel.start[i]
        BY <1>7
      <4>2. from(i) - msel.start[i] \in Nat /\ from(i) - rsel.start[i] \in Nat
        BY <1>5
      <4> QED BY <4>1, <4>2, Zenon
    <3>2. c[i] \in Int
      BY <1>5, <1>7
    <3> QED BY <3>1, <3>2
  <2> QED BY <1>7, <2>1
<1>9. h \in Hits(n)
  BY <1>2, <1>4, <1>6, <1>8 DEF Hits, D
<1>10. /\ h.foff = ent.foff /\ h.dsize = msel.count /\ h.dstart = ds /\ h.count = c
  BY <1>6
<1>11. LiesIn(n, h, msel)
  BY <1>5, <1>7, <1>8, <1>10 DEF LiesIn, D
<1>12. h.foff = entries[e].foff /\ LiesIn(n, h, entries[e].sels[k])
  BY <1>10, <1>11 DEF ent, msel
<1> QED BY <1>9, <1>12 DEF Found, h, ent, msel

\* Where the data of a selection of the read goes is a place in memory.
LEMMA MemoryPlace ==
  ASSUME NEW n \in Nat, NEW rsels \in Seq(Sels(n)), NEW i \in 1 .. Len(rsels)
  PROVE  MemoryOf(rsels, i) \in Nat
<1> DEFINE k == i - 1
           N == Len(rsels)
<1>1. N \in Nat /\ rsels \in [1 .. N -> Sels(n)] /\ k \in Nat /\ 1 .. k \subseteq 1 .. N
  BY LenProperties
<1> HIDE DEF k, N
<1>2. SubSeq(rsels, 1, k) \in Seq(Sels(n))
  BY <1>1, Prefix
<1>3. SelSize(SubSeq(rsels, 1, k)) \in Nat
  BY <1>2, SelSizeType
<1> QED BY <1>3 DEF MemoryOf, k

\* The selections of an entry the read intersects are selections of the entry.
Picks(sels, rsel, N, at) ==
  /\ N \in Nat /\ at \in [1 .. N -> 1 .. Len(sels)]
  /\ DOMAIN Intersecting(sels, rsel) = 1 .. N
  /\ \A k \in 1 .. N : /\ Intersect(sels[at[k]], rsel)
                       /\ Intersecting(sels, rsel)[k] = sels[at[k]]

\* What is found for a selection of the read are selections of the entry.
LEMMA IntersectingAre ==
  ASSUME NEW n \in Nat, NEW sels \in Seq(Sels(n)), NEW rsel
  PROVE  \E N, at : Picks(sels, rsel, N, at)
<1> DEFINE S == {k \in DOMAIN sels : Intersect(sels[k], rsel)}
           at == InOrder(S, <)
           N == Cardinality(S)
<1>1. DOMAIN sels = 1 .. Len(sels) /\ Len(sels) \in Nat
  BY LenProperties
<1>2. IsFiniteSet(1 .. Len(sels))
  BY <1>1, FS_Interval
<1>3. S \in SUBSET (1 .. Len(sels)) /\ S \in SUBSET Int
  BY <1>1
<1>4. \A k \in S : k \in 1 .. Len(sels) /\ Intersect(sels[k], rsel)
  BY <1>1
<1>5. Intersecting(sels, rsel) = [k \in DOMAIN at |-> sels[at[k]]]
  BY DEF Intersecting
<1> HIDE DEF S
<1>6. IsFiniteSet(S) /\ N \in Nat
  BY <1>2, <1>3, FS_Subset, FS_CardinalityType
<1>7. Lists(at, S, Less(S))
  BY <1>3, <1>6, NumbersInOrder
<1>8. at \in [1 .. N -> S]
  BY <1>7 DEF Lists
<1> HIDE DEF at, N
<1>9. /\ at \in [1 .. N -> 1 .. Len(sels)] /\ DOMAIN at = 1 .. N
      /\ \A k \in 1 .. N : Intersect(sels[at[k]], rsel)
  BY <1>4, <1>8
<1>10. Intersecting(sels, rsel) = [k \in 1 .. N |-> sels[at[k]]]
  BY <1>5, <1>9
<1>11. Picks(sels, rsel, N, at)
  BY <1>6, <1>9, <1>10 DEF Picks
<1> QED BY <1>11

\* The search returns hits of the entries.
LEMMA SearchFinds ==
  ASSUME NEW n \in Nat, NEW entries \in Seq(Entries(n)), NEW rsels \in Seq(Sels(n))
  PROVE  Search(entries, rsels) \in Seq(Found(n, entries))
<1> DEFINE F == Found(n, entries)
           W == Seq(F)
           hits(e, i) == LET msels == Intersecting(entries[e].sels, rsels[i])
                         IN  [k \in DOMAIN msels |->
                                Hit(entries[e], msels[k], rsels[i], MemoryOf(rsels, i))]
           E == Len(entries)
           R == Len(rsels)
           inner(i) == [e \in 1 .. E |-> hits(e, i)]
           all(i) == FlattenSeq(inner(i))
           outer == [i \in 1 .. R |-> all(i)]
<1>1. /\ DOMAIN entries = 1 .. E /\ E \in Nat /\ DOMAIN rsels = 1 .. R /\ R \in Nat
      /\ \A i \in 1 .. R : rsels[i] \in Sels(n)
      /\ \A e \in 1 .. E : entries[e] \in Entries(n)
  BY LenProperties, ElementOfSeq
<1>2. ASSUME NEW e \in 1 .. E, NEW i \in 1 .. R PROVE hits(e, i) \in W
  <2> DEFINE sels == entries[e].sels
             xbuf == MemoryOf(rsels, i)
             msels == Intersecting(sels, rsels[i])
  <2>1. sels \in Seq(Sels(n)) /\ xbuf \in Nat /\ rsels[i] \in Sels(n)
    BY <1>1, MemoryPlace DEF Entries
  <2>2. PICK N, at : Picks(sels, rsels[i], N, at)
    BY <2>1, IntersectingAre
  <2>3. /\ N \in Nat /\ at \in [1 .. N -> 1 .. Len(sels)]
        /\ \A k \in 1 .. N : Intersect(sels[at[k]], rsels[i])
    BY <2>2 DEF Picks
  <2>4. DOMAIN msels = 1 .. N /\ \A k \in 1 .. N : msels[k] = sels[at[k]]
    BY <2>2 DEF Picks
  <2>5. hits(e, i) = [k \in DOMAIN msels |-> Hit(entries[e], msels[k], rsels[i], xbuf)]
    OBVIOUS
  <2>6. ASSUME NEW k \in 1 .. N PROVE Hit(entries[e], msels[k], rsels[i], xbuf) \in F
    <3>1. at[k] \in 1 .. Len(entries[e].sels) /\ Intersect(entries[e].sels[at[k]], rsels[i])
      BY <2>3
    <3>2. Hit(entries[e], entries[e].sels[at[k]], rsels[i], xbuf) \in F
      BY <2>1, <3>1, HitFound
    <3> QED BY <2>4, <3>2
  <2> HIDE DEF F, hits, xbuf, msels
  <2>7. hits(e, i) \in [1 .. N -> F]
    BY <2>4, <2>5, <2>6
  <2> QED BY <2>3, <2>7, LenProperties
<1> HIDE DEF hits
<1>3. ASSUME NEW i \in 1 .. R PROVE all(i) \in W
  <2>1. inner(i) \in [1 .. E -> W]
    BY <1>2
  <2> HIDE DEF W, inner
  <2>2. inner(i) \in Seq(W)
    BY <1>1, <2>1, LenProperties
  <2> QED BY <2>2, Flatten DEF W
<1>4. Search(entries, rsels) = FlattenSeq(outer)
  BY <1>1 DEF Search, hits
<1> HIDE DEF all
<1>5. outer \in [1 .. R -> W]
  BY <1>3
<1> HIDE DEF outer, W
<1>6. outer \in Seq(W)
  BY <1>1, <1>5, LenProperties
<1>7. FlattenSeq(outer) \in Seq(F)
  BY <1>6, Flatten DEF W
<1> QED BY <1>4, <1>7

\* The data blocks of entries follow one another.
Chained(n, entries, width) ==
  /\ entries \in Seq(Entries(n))
  /\ \A e \in 1 .. Len(entries) : e # Len(entries) =>
       entries[e].foff + width * SelSize(entries[e].sels) = entries[e + 1].foff

\* The data of an entry ends before that of any later one starts.
LEMMA EntriesApart ==
  ASSUME NEW n \in Nat, NEW width \in Nat, NEW entries, Chained(n, entries, width),
         NEW e \in 1 .. Len(entries), NEW g \in 1 .. Len(entries), e < g
  PROVE  entries[e].foff + width * SelSize(entries[e].sels) <= entries[g].foff
<1> DEFINE E == Len(entries)
           foff(i) == entries[i].foff
           size(i) == width * SelSize(entries[i].sels)
<1>1. E \in Nat
  BY LenProperties DEF Chained
<1>2. ASSUME NEW i \in 1 .. E PROVE foff(i) \in Nat /\ size(i) \in Nat
  <2>1. entries[i] \in Entries(n)
    BY ElementOfSeq DEF Chained
  <2>2. entries[i].foff \in Nat /\ entries[i].sels \in Seq(Sels(n))
    BY <2>1 DEF Entries
  <2>3. SelSize(entries[i].sels) \in Nat
    BY <2>2, SelSizeType
  <2>4. \A x, y \in Nat : x * y \in Nat
    OBVIOUS
  <2> QED BY <2>2, <2>3, <2>4
<1>3. \A i \in 1 .. E : i # E => foff(i) + size(i) = foff(i + 1)
  BY DEF Chained
<1> HIDE DEF E, foff, size
<1> DEFINE T == {d \in Nat : e + 1 + d <= E => foff(e) + size(e) <= foff(e + 1 + d)}
<1>4. e \in 1 .. E /\ g \in 1 .. E
  BY DEF E
<1>5. 0 \in T
  <2>1. CASE e + 1 <= E
    <3>1. e # E /\ foff(e) \in Nat /\ size(e) \in Nat /\ e + 1 + 0 = e + 1
      BY <1>1, <1>2, <1>4, <2>1
    <3>2. foff(e) + size(e) = foff(e + 1)
      BY <1>3, <1>4, <3>1
    <3>3. foff(e) + size(e) <= foff(e + 1)
      BY <3>1, <3>2
    <3> QED BY <3>1, <3>3
  <2>2. CASE ~(e + 1 <= E)
    BY <1>4, <2>2
  <2> QED BY <2>1, <2>2
<1>6. ASSUME NEW d \in T PROVE d + 1 \in T
  <2>1. d \in Nat /\ (e + 1 + d <= E => foff(e) + size(e) <= foff(e + 1 + d))
    OBVIOUS
  <2>2. ASSUME e + 1 + (d + 1) <= E PROVE foff(e) + size(e) <= foff(e + 1 + (d + 1))
    <3> DEFINE i == e + 1 + d
    <3>1. i \in 1 .. E /\ i # E /\ i + 1 = e + 1 + (d + 1) /\ i + 1 \in 1 .. E
      BY <1>1, <1>4, <2>1, <2>2
    <3>2. foff(e) + size(e) <= foff(i)
      BY <1>1, <2>1, <3>1
    <3> HIDE DEF i
    <3>3. foff(i) + size(i) = foff(i + 1)
      BY <1>3, <3>1
    <3>4. /\ foff(i) \in Nat /\ size(i) \in Nat /\ foff(i + 1) \in Nat
          /\ foff(e) \in Nat /\ size(e) \in Nat
      BY <1>2, <1>4, <3>1
    <3>5. foff(e) + size(e) <= foff(i + 1)
      BY <3>2, <3>3, <3>4
    <3> QED BY <3>1, <3>5
  <2> QED BY <2>1, <2>2
<1>7. T = Nat
  <2>1. T \in SUBSET Nat
    OBVIOUS
  <2> HIDE DEF T
  <2> QED BY <1>5, <1>6, <2>1, AllNat
<1>8. g - e - 1 \in Nat /\ e + 1 + (g - e - 1) = g /\ g <= E
  BY <1>1, <1>4
<1>9. g - e - 1 \in T
  BY <1>7, <1>8
<1>10. foff(e) + size(e) <= foff(g)
  BY <1>8, <1>9
<1> QED BY <1>10 DEF foff, size

\* A hit without a gap is inside the block it lies in.
LEMMA FoundInside ==
  ASSUME NEW n \in Nat, NEW entries, NEW h \in Found(n, entries), ~Gap(h)
  PROVE  Inside(n, h)
<1>1. /\ h \in Hits(n)
      /\ \E e \in 1 .. Len(entries) : \E k \in 1 .. Len(entries[e].sels) :
           LiesIn(n, h, entries[e].sels[k])
  BY DEF Found
<1>2. \A i \in 1 .. n : /\ 0 <= h.dstart[i] /\ h.count[i] # 0
                        /\ h.count[i] > 0 => h.dstart[i] + h.count[i] <= h.dsize[i]
  BY <1>1 DEF LiesIn
<1>3. DOMAIN h.count = 1 .. n /\ \A i \in 1 .. n : h.count[i] \in Int
  BY <1>1 DEF Hits
<1>4. \A i \in 1 .. n : ~(h.count[i] < 0)
  BY <1>3 DEF Gap
<1>5. ASSUME NEW i \in 1 .. n
      PROVE  /\ 0 <= h.dstart[i] /\ 0 < h.count[i]
             /\ h.dstart[i] + h.count[i] <= h.dsize[i]
  <2> DEFINE c == h.count[i]
  <2>3. /\ 0 <= h.dstart[i] /\ c # 0
        /\ c > 0 => h.dstart[i] + c <= h.dsize[i]
    BY <1>2
  <2>4. ~(c < 0) /\ c \in Int
    BY <1>3, <1>4
  <2>1. c \in Int /\ c # 0 /\ ~(c < 0)
    BY <2>3, <2>4
  <2> HIDE DEF c
  <2>2. c > 0 /\ 0 < c
    BY <2>1
  <2>5. 0 <= h.dstart[i] /\ h.dstart[i] + c <= h.dsize[i]
    BY <2>2, <2>3
  <2> QED BY <2>2, <2>5 DEF c
<1> QED BY <1>1, <1>5 DEF Inside

\* The number of elements of a selection of one block.
LEMMA SizeOfOne ==
  ASSUME NEW n \in Nat, NEW sels \in Seq(Sels(n)), Len(sels) = 1
  PROVE  SelSize(sels) = Volume(sels[1].count)
<1> DEFINE v == Volume(sels[1].count)
           f == [i \in DOMAIN sels |-> Volume(sels[i].count)]
<1>1. DOMAIN sels = {1} /\ sels[1] \in Sels(n)
  <2>1. DOMAIN sels = 1 .. 1 /\ 1 \in 1 .. Len(sels)
    BY LenProperties
  <2> QED BY <2>1, ElementOfSeq
<1>2. v \in Nat
  <2>1. sels[1].count \in [1 .. n -> Nat]
    BY <1>1, SelFields
  <2>2. v = Product(sels[1].count, 1 .. n)
    BY <2>1 DEF Volume, Product
  <2>3. IsFiniteSet(1 .. n)
    BY FS_Interval
  <2> QED BY <2>1, <2>2, <2>3, ProductNat
<1>3. DOMAIN f = {1} /\ f[1] = v
  BY <1>1
<1>4. SelSize(sels) = SumFunctionOnSet(f, {1})
  BY <1>3 DEF SelSize, SumFunction
<1> HIDE DEF f, v
<1>5. SumFunctionOnSet(f, {1}) = f[1] + SumFunctionOnSet(f, {1} \ {1})
  <2> DEFINE S == {1}
  <2>1. IsFiniteSet(S) /\ 1 \in S /\ \A x \in S : f[x] \in Int
    <3>1. IsFiniteSet(S)
      BY FS_Singleton
    <3>2. v \in Int
      BY <1>2
    <3> QED BY <1>3, <3>1, <3>2
  <2> HIDE DEF S
  <2>2. SumFunctionOnSet(f, S) = f[1] + SumFunctionOnSet(f, S \ {1})
    BY <2>1, SumRemove
  <2> QED BY <2>2 DEF S
<1>6. SumFunctionOnSet(f, {1} \ {1}) = 0
  <2>1. {1} \ {1} = {}
    OBVIOUS
  <2> QED BY <2>1, SumEmpty
<1> QED BY <1>2, <1>3, <1>4, <1>5, <1>6 DEF v

\* Three different elements are more than two.
LEMMA ThreeElements ==
  ASSUME NEW S, IsFiniteSet(S), Cardinality(S) <= 2, NEW x \in S, NEW y \in S, NEW z \in S
  PROVE  x = y \/ y = z \/ x = z
<1> SUFFICES ASSUME x # y, y # z, x # z PROVE FALSE
  OBVIOUS
<1>1. IsFiniteSet({x}) /\ Cardinality({x}) = 1
  BY FS_Singleton
<1>2. IsFiniteSet({x} \cup {y}) /\ Cardinality({x} \cup {y}) = 2
  <2>1. y \notin {x}
    OBVIOUS
  <2> QED BY <1>1, <2>1, FS_AddElement
<1>3. Cardinality({x} \cup {y} \cup {z}) = 3
  <2> DEFINE P == {x} \cup {y}
  <2>1. z \notin P
    OBVIOUS
  <2>2. IsFiniteSet(P) /\ Cardinality(P) = 2
    BY <1>2
  <2> HIDE DEF P
  <2>4. Cardinality(P \cup {z}) = IF z \in P THEN Cardinality(P) ELSE Cardinality(P) + 1
    BY <2>2, FS_AddElement
  <2>3. Cardinality(P \cup {z}) = 3
    BY <2>1, <2>2, <2>4
  <2> QED BY <2>3 DEF P
<1>4. {x} \cup {y} \cup {z} \in SUBSET S
  OBVIOUS
<1>5. Cardinality({x} \cup {y} \cup {z}) <= Cardinality(S) /\ Cardinality(S) \in Nat
  BY <1>4, FS_Subset, FS_CardinalityType
<1> QED BY <1>3, <1>5

\* The runs of a read ascend if entries have one block and at most two hits each.
LEMMA ReadAscends ==
  ASSUME NEW n \in Nat \ {0}, NEW width \in Nat \ {0}, NEW entries, Chained(n, entries, width),
         \A e \in 1 .. Len(entries) : Len(entries[e].sels) = 1,
         NEW rsels \in Seq(Sels(n)),
         \A h \in ToSet(Search(entries, rsels)) :
           Cardinality({i \in DOMAIN Search(entries, rsels) :
                          Search(entries, rsels)[i].foff = h.foff}) <= 2
  PROVE  Ascending(PlanOf(Search(entries, rsels), width).runs)
<1> DEFINE hits == Search(entries, rsels)
           groups == HitGroups(SortHits(hits))
           F == Found(n, entries)
           N == Len(hits)
<1>1. hits \in Seq(F)
  BY SearchFinds DEF Chained
<1>2. \A h \in ToSet(hits) : Cardinality({i \in DOMAIN hits : hits[i].foff = h.foff}) <= 2
  OBVIOUS
<1>3. CASE PlanOutcome(groups) # "ok"
  <2>1. PlanOf(hits, width).runs = <<>>
    BY <1>3 DEF PlanOf
  <2> QED BY <2>1 DEF Ascending
<1>4. CASE PlanOutcome(groups) = "ok"
  <2>1. PlanOf(hits, width).runs = RunsOfPlans(GroupPlans(groups, width))
    BY <1>4 DEF PlanOf, RunsOfPlans, GroupPlans
  <2> HIDE DEF hits, F
  <2>2. N \in Nat /\ DOMAIN hits = 1 .. N /\ \A i \in 1 .. N : hits[i] \in F
    BY <1>1, LenProperties, ElementOfSeq
  <2>3. \A h \in F : h \in Hits(n)
    BY DEF F, Found
  <2>4. hits \in [1 .. N -> Hits(n)]
    <3>1. hits \in [1 .. N -> F]
      BY <1>1, LenProperties
    <3> QED BY <2>3, <3>1
  <2> HIDE DEF N
  <2>5. ASSUME NEW i \in 1 .. N PROVE Inside(n, hits[i])
    <3>1. ~Gap(hits[i])
      BY <1>4, <2>2, <2>4, NoGaps
    <3> QED BY <2>2, <3>1, FoundInside DEF F
  <2>6. ASSUME NEW i \in 1 .. N, NEW j \in 1 .. N PROVE BlocksApart(hits[i], hits[j], width)
    <3> DEFINE a == hits[i]
               b == hits[j]
    <3>1. PICK e \in 1 .. Len(entries) : \E k \in 1 .. Len(entries[e].sels) :
            a.foff = entries[e].foff /\ LiesIn(n, a, entries[e].sels[k])
      BY <2>2 DEF F, Found
    <3>2. PICK g \in 1 .. Len(entries) : \E k \in 1 .. Len(entries[g].sels) :
            b.foff = entries[g].foff /\ LiesIn(n, b, entries[g].sels[k])
      BY <2>2 DEF F, Found
    <3>3. Len(entries[e].sels) = 1 /\ Len(entries[g].sels) = 1
      OBVIOUS
    <3>4. /\ a.foff = entries[e].foff /\ a.dsize = entries[e].sels[1].count
          /\ b.foff = entries[g].foff /\ b.dsize = entries[g].sels[1].count
      BY <3>1, <3>2, <3>3 DEF LiesIn
    <3>5. \A x \in 1 .. Len(entries) : entries[x].sels \in Seq(Sels(n))
      <4>1. \A x \in 1 .. Len(entries) : entries[x] \in Entries(n)
        BY ElementOfSeq DEF Chained
      <4> QED BY <4>1 DEF Entries
    <3>6. /\ SelSize(entries[e].sels) = Volume(a.dsize)
          /\ SelSize(entries[g].sels) = Volume(b.dsize)
      BY <3>3, <3>4, <3>5, SizeOfOne
    <3>7. e \in Int /\ g \in Int
      <4>1. Len(entries) \in Nat
        BY LenProperties DEF Chained
      <4> QED BY <4>1
    <3> HIDE DEF a, b
    <3>8. CASE e = g
      BY <3>4, <3>8 DEF BlocksApart, a, b
    <3>9. CASE e < g
      <4>1. entries[e].foff + width * SelSize(entries[e].sels) <= entries[g].foff
        BY <3>9, EntriesApart
      <4>2. a.foff + width * Volume(a.dsize) <= b.foff
        BY <3>4, <3>6, <4>1
      <4> QED BY <4>2 DEF BlocksApart, a, b
    <3>10. CASE g < e
      <4>1. entries[g].foff + width * SelSize(entries[g].sels) <= entries[e].foff
        BY <3>10, EntriesApart
      <4>2. b.foff + width * Volume(b.dsize) <= a.foff
        BY <3>4, <3>6, <4>1
      <4> QED BY <4>2 DEF BlocksApart, a, b
    <3>11. e = g \/ e < g \/ g < e
      BY <3>7
    <3> QED BY <3>8, <3>9, <3>10, <3>11
  <2>7. AtMostTwo(N, hits)
    <3> SUFFICES ASSUME NEW i \in 1 .. N, NEW j \in 1 .. N, NEW k \in 1 .. N,
                        hits[i].foff = hits[j].foff, hits[j].foff = hits[k].foff
                 PROVE  i = j \/ j = k \/ i = k
      BY DEF AtMostTwo
    <3> DEFINE S == {x \in DOMAIN hits : hits[x].foff = hits[i].foff}
    <3>1. hits[i] \in ToSet(hits)
      BY <2>2 DEF ToSet
    <3>2. Cardinality(S) <= 2
      BY <1>2, <3>1
    <3>3. i \in S /\ j \in S /\ k \in S /\ S \in SUBSET (1 .. N)
      BY <2>2
    <3>4. IsFiniteSet(1 .. N)
      BY <2>2, FS_Interval
    <3> HIDE DEF S
    <3>5. IsFiniteSet(S)
      BY <3>3, <3>4, FS_Subset
    <3> QED BY <3>2, <3>3, <3>5, ThreeElements
  <2>8. Ascending(RunsOfPlans(GroupPlans(groups, width)))
    BY <2>2, <2>4, <2>5, <2>6, <2>7, PlanAscends
  <2> QED BY <2>1, <2>8 DEF hits
<1> QED BY <1>3, <1>4
=============================================================================
