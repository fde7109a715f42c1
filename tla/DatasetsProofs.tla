---------------------------- MODULE DatasetsProofs ----------------------------
(***************************************************************************)
(* Theorems about Datasets for any handles, spaces, extents, selections    *)
(* and bounds, in three parts.                                             *)
(*                                                                         *)
(* First the encoding of MetaEntry: coordinates below the dimensions of    *)
(* the steps come back from their offset, a request is a prefix and two    *)
(* rows of vectors, Decode finds them, and two requests of the same words  *)
(* are of the same selection.  Then TypeOK and TableCoversEntries, from an *)
(* invariant that says when fp->dsets has a slot for every dataset.  Last  *)
(* the entries: an invariant that keeps for every entry the request it was *)
(* made of, for every key of the deduplication table the queued entry it   *)
(* stands for, and for every entry of the index what it was decoded from.  *)
(***************************************************************************)
EXTENDS Datasets, FoldLemmas

-----------------------------------------------------------------------------
(* Numbers *)

\* Two multiples of b that are less than b apart are the same.
LEMMA NoMultiple ==
  ASSUME NEW b \in Nat, NEW x \in Int, NEW y \in Int, x * b < y * b + b, y * b < x * b + b
  PROVE  x = y
<1>1. ASSUME NEW c \in Int, NEW d \in Int, c < d PROVE c * b + b <= d * b
  <2>1. PICK k \in Nat : d = c + 1 + k
    <3>1. d - c - 1 \in Nat /\ d = c + 1 + (d - c - 1) BY <1>1
    <3> QED BY <3>1
  <2>2. d * b = c * b + b + k * b /\ k * b >= 0
    BY <2>1
  <2> QED BY <2>2
<1>2. CASE x < y
  BY <1>2, <1>1
<1>3. CASE y < x
  BY <1>3, <1>1
<1> QED BY <1>2, <1>3

\* Division takes a multiple and a smaller rest apart.
LEMMA DivMod ==
  ASSUME NEW a \in Nat, NEW b \in Nat, NEW t \in Nat, t < b
  PROVE  (a * b + t) % b = t /\ (a * b + t) \div b = a
<1> DEFINE n == a * b + t
           q == n \div b
           r == n % b
<1>1. n \in Nat /\ q \in Int /\ r \in 0 .. b - 1 /\ n = b * q + r
  OBVIOUS
<1>2. n = q * b + r
  BY <1>1
<1>3. q = a
  BY <1>1, <1>2, NoMultiple
<1> QED BY <1>2, <1>3

\* A place in a row before the last lies before the end of the last.
LEMMA InRow ==
  ASSUME NEW c \in Nat, NEW d \in Nat, NEW w \in Nat, NEW u \in Nat, c < d, u < w
  PROVE  c * w + u \in Nat /\ c * w + u < d * w
<1>1. c + 1 \in Nat /\ c + 1 <= d
  OBVIOUS
<1>2. (c + 1) * w <= d * w /\ (c + 1) * w = c * w + w /\ c * w \in Nat /\ d * w \in Nat
  BY <1>1, Multiples
<1> DEFINE x == c * w
           y == d * w
           z == (c + 1) * w
<1>3. x \in Nat /\ y \in Nat /\ z = x + w /\ z <= y
  BY <1>2
<1> HIDE DEF x, y, z
<1>4. x + u \in Nat /\ x + u < y
  BY <1>3
<1> QED BY <1>4 DEF x, y

-----------------------------------------------------------------------------
(* Steps and offsets *)

\* A step skips the elements of all later dimensions.
LEMMA StepsNext ==
  ASSUME NEW dims \in Seq(Nat)
  PROVE  /\ Steps(dims) = [i \in 1 .. Len(dims) |-> Steps(dims)[i]]
         /\ \A i \in 1 .. Len(dims) : Steps(dims)[i] \in Nat
         /\ dims # <<>> => Steps(dims)[Len(dims)] = 1
         /\ \A i \in 1 .. Len(dims) - 1 : Steps(dims)[i] = dims[i + 1] * Steps(dims)[i + 1]
<1> DEFINE n == Len(dims)
           rest(i) == [j \in i + 1 .. n |-> dims[j]]
           vol(i) == Product(rest(i), i + 1 .. n)
<1>1. n \in Nat /\ DOMAIN dims = 1 .. n /\ \A i \in 1 .. n : dims[i] \in Nat
  BY ElementOfSeq, LenProperties
<1>2. Steps(dims) = [i \in 1 .. n |-> vol(i)]
  BY <1>1 DEF Steps, Volume, Product
<1> HIDE DEF n
<1>3. vol(n) = 1
  <2>1. n + 1 .. n = {}
    BY <1>1
  <2> QED BY <2>1, ProductEmpty
<1>4. ASSUME NEW i \in 0 .. n - 1 PROVE vol(i) = dims[i + 1] * vol(i + 1)
  <2> DEFINE S == i + 1 .. n
             f == rest(i)
             g == rest(i + 1)
  <2>1. IsFiniteSet(S) /\ (i + 1) \in S /\ S \ {i + 1} = i + 2 .. n /\ (i + 1) + 1 = i + 2
        /\ IsFiniteSet(i + 2 .. n)
    <3>1. i \in Int /\ n \in Int /\ i + 1 <= n
      BY <1>1
    <3>2. IsFiniteSet(i + 1 .. n) /\ IsFiniteSet(i + 2 .. n)
      <4>1. i + 1 \in Int /\ i + 2 \in Int
        BY <3>1
      <4> QED BY <3>1, <4>1, FS_Interval
    <3>3. i + 1 \in S /\ S \ {i + 1} = i + 2 .. n /\ (i + 1) + 1 = i + 2
      BY <3>1
    <3> QED BY <3>2, <3>3
  <2>2. \A x \in S : f[x] \in Int /\ f[x] = dims[x]
    BY <1>1
  <2>3. \A x \in i + 2 .. n : f[x] \in Int /\ g[x] = f[x]
    BY <1>1, <2>1
  <2> HIDE DEF f, g, S
  <2>4. Product(f, S) = f[i + 1] * Product(f, S \ {i + 1})
    BY <2>1, <2>2, ProductRemove
  <2>5. Product(g, i + 2 .. n) = Product(f, i + 2 .. n)
    BY <2>1, <2>3, ProductSame
  <2> QED BY <2>1, <2>2, <2>4, <2>5 DEF f, g, S
<1> HIDE DEF vol
<1>5. \A i \in 0 .. n : vol(i) \in Nat
  <2> DEFINE T == {m \in Nat : m <= n => vol(n - m) \in Nat}
  <2>1. 0 \in T
    BY <1>1, <1>3
  <2>2. ASSUME NEW m \in T PROVE m + 1 \in T
    <3>1. SUFFICES ASSUME m + 1 <= n PROVE vol(n - (m + 1)) \in Nat
      OBVIOUS
    <3>2. n - (m + 1) \in 0 .. n - 1 /\ (n - (m + 1)) + 1 = n - m /\ n - m \in 1 .. n
      BY <3>1, <1>1
    <3>3. vol(n - m) \in Nat /\ dims[n - m] \in Nat
      BY <3>1, <3>2, <1>1
    <3> QED BY <1>4, <3>2, <3>3
  <2>3. T = Nat
    <3>1. T \in SUBSET Nat OBVIOUS
    <3> HIDE DEF T
    <3> QED BY <2>1, <2>2, <3>1, AllNat
  <2>4. SUFFICES ASSUME NEW i \in 0 .. n PROVE vol(i) \in Nat
    OBVIOUS
  <2>5. n - i \in Nat /\ n - i <= n /\ n - (n - i) = i
    BY <1>1
  <2>6. n - i \in T
    <3> HIDE DEF T
    <3> QED BY <2>3, <2>5
  <2> QED BY <2>5, <2>6
<1>6. dims # <<>> => n \in 1 .. n
  BY <1>1, EmptySeq DEF n
<1>7. \A i \in 1 .. n : Steps(dims)[i] = vol(i)
  BY <1>2
<1>8. Steps(dims) = [i \in 1 .. n |-> Steps(dims)[i]]
  BY <1>2
<1>9. \A i \in 1 .. n - 1 : Steps(dims)[i] = dims[i + 1] * Steps(dims)[i + 1]
  BY <1>1, <1>4, <1>7
<1>10. \A i \in 1 .. n : Steps(dims)[i] \in Nat
  BY <1>1, <1>5, <1>7
<1>11. dims # <<>> => Steps(dims)[n] = 1
  BY <1>3, <1>6, <1>7
<1> HIDE DEF rest
<1> QED BY <1>8, <1>9, <1>10, <1>11 DEF n

\* What the coordinates from the one after i on add to the offset.
TailSum(steps, cord, i) ==
  SumFunctionOnSet([k \in DOMAIN cord |-> cord[k] * steps[k]], i + 1 .. Len(cord))

\* Every coordinate but the first lies below its dimension.
Below(cord, dims) == \A i \in 2 .. Len(dims) : cord[i] < dims[i]

\* The offset of coordinates is made of their tails, and a tail stays below the
\* step in front of it.
LEMMA Tails ==
  ASSUME NEW dims \in Seq(Nat), NEW cord \in Seq(Nat), Len(cord) = Len(dims), dims # <<>>,
         Below(cord, dims)
  PROVE  LET steps == Steps(dims) t(i) == TailSum(steps, cord, i)
         IN  /\ SelEncode(steps, cord) = t(0)
             /\ \A i \in 0 .. Len(dims) : t(i) \in Nat
             /\ \A i \in 1 .. Len(dims) : t(i) < steps[i]
                                          /\ t(i - 1) = cord[i] * steps[i] + t(i)
<1> DEFINE n == Len(dims)
           steps == Steps(dims)
           f == [k \in DOMAIN cord |-> cord[k] * steps[k]]
           t(i) == SumFunctionOnSet(f, i + 1 .. n)
<1>1. n \in Nat /\ n >= 1 /\ DOMAIN cord = 1 .. n
      /\ \A i \in 1 .. n : dims[i] \in Nat /\ cord[i] \in Nat
  BY ElementOfSeq, LenProperties, EmptySeq
<1>2. /\ \A i \in 1 .. n : steps[i] \in Nat
      /\ steps[n] = 1 /\ \A i \in 1 .. n - 1 : steps[i] = dims[i + 1] * steps[i + 1]
  BY StepsNext
<1>3. \A i : TailSum(steps, cord, i) = t(i)
  BY DEF TailSum
<1>4. SelEncode(steps, cord) = t(0)
  BY <1>1 DEF SelEncode
<1> HIDE DEF n, steps
<1>5. \A i \in 1 .. n : f[i] \in Nat /\ f[i] = cord[i] * steps[i]
  BY <1>1, <1>2
<1> HIDE DEF f
<1>6. t(n) = 0
  <2>1. n + 1 .. n = {}
    BY <1>1
  <2> QED BY <2>1, SumEmpty
<1>7. ASSUME NEW i \in 1 .. n PROVE t(i - 1) = cord[i] * steps[i] + t(i)
  <2> DEFINE S == i .. n
  <2>1. IsFiniteSet(S) /\ i \in S /\ S \ {i} = i + 1 .. n /\ (i - 1) + 1 = i
    <3>1. i \in Int /\ n \in Int /\ i <= n
      BY <1>1
    <3>2. IsFiniteSet(i .. n)
      BY <3>1, FS_Interval
    <3>3. i \in i .. n /\ (i .. n) \ {i} = i + 1 .. n /\ (i - 1) + 1 = i
      BY <3>1
    <3> QED BY <3>2, <3>3
  <2>2. \A x \in S : f[x] \in Int
    BY <1>1, <1>5
  <2> HIDE DEF S
  <2>3. SumFunctionOnSet(f, S) = f[i] + SumFunctionOnSet(f, S \ {i})
    BY <2>1, <2>2, SumRemove
  <2> QED BY <2>1, <2>3, <1>5 DEF S
<1> HIDE DEF t
<1>8. \A i \in 1 .. n : t(i) \in Nat /\ t(i) < steps[i]
  <2> DEFINE T == {m \in Nat : m + 1 <= n => t(n - m) \in Nat /\ t(n - m) < steps[n - m]}
  <2>1. 0 \in T
    BY <1>1, <1>2, <1>6
  <2>2. ASSUME NEW m \in T PROVE m + 1 \in T
    <3> DEFINE k == n - m
    <3>1. SUFFICES ASSUME (m + 1) + 1 <= n
                   PROVE  t(n - (m + 1)) \in Nat /\ t(n - (m + 1)) < steps[n - (m + 1)]
      OBVIOUS
    <3>2. n - (m + 1) = k - 1 /\ k \in 2 .. n /\ k \in 1 .. n /\ k - 1 \in 1 .. n - 1
          /\ (k - 1) + 1 = k
      BY <3>1, <1>1
    <3>3. t(k) \in Nat /\ t(k) < steps[k]
      <4>1. m + 1 <= n /\ m \in T
        BY <3>1, <1>1
      <4> QED BY <4>1
    <3> HIDE DEF k
    <3>4. t(k - 1) = cord[k] * steps[k] + t(k)
      BY <1>7, <3>2
    <3>5. steps[k - 1] = dims[k] * steps[k]
      BY <1>2, <3>2
    <3>6. cord[k] \in Nat /\ dims[k] \in Nat /\ steps[k] \in Nat /\ cord[k] < dims[k]
      BY <1>1, <1>2, <3>2 DEF Below, n
    <3>7. cord[k] * steps[k] + t(k) \in Nat
          /\ cord[k] * steps[k] + t(k) < dims[k] * steps[k]
      BY <3>3, <3>6, InRow
    <3>8. t(k - 1) \in Nat /\ t(k - 1) < steps[k - 1]
      BY <3>4, <3>5, <3>7
    <3> QED BY <3>2, <3>8
  <2>3. T = Nat
    <3>1. T \in SUBSET Nat OBVIOUS
    <3> HIDE DEF T
    <3> QED BY <2>1, <2>2, <3>1, AllNat
  <2>4. SUFFICES ASSUME NEW i \in 1 .. n PROVE t(i) \in Nat /\ t(i) < steps[i]
    OBVIOUS
  <2>5. n - i \in Nat /\ (n - i) + 1 <= n /\ n - (n - i) = i
    BY <1>1
  <2>6. n - i \in T
    <3> HIDE DEF T
    <3> QED BY <2>3, <2>5
  <2> QED BY <2>5, <2>6
<1>9. \A i \in 0 .. n : t(i) \in Nat
  <2>1. 1 \in 1 .. n /\ 1 - 1 = 0
    BY <1>1
  <2>2. t(0) = cord[1] * steps[1] + t(1)
    BY <1>7, <2>1
  <2>3. cord[1] * steps[1] \in Nat
    BY <1>1, <1>2, <2>1
  <2>4. t(0) \in Nat
    BY <1>8, <2>1, <2>2, <2>3
  <2> QED BY <1>8, <2>4
<1> QED BY <1>3, <1>4, <1>7, <1>8, <1>9 DEF n, steps

\* The offset of coordinates decodes to these coordinates.
LEMMA DecodeEncode ==
  ASSUME NEW dims \in Seq(Nat), NEW cord \in Seq(Nat), Len(cord) = Len(dims), dims # <<>>,
         Below(cord, dims)
  PROVE  SelEncode(Steps(dims), cord) \in Nat
         /\ SelDecode(Steps(dims), SelEncode(Steps(dims), cord)) = cord
<1> DEFINE n == Len(dims)
           steps == Steps(dims)
           off == SelEncode(steps, cord)
           t(i) == TailSum(steps, cord, i)
           Eq(g) == g = [i \in 0 .. Len(steps) |->
                           IF i = 0 THEN off ELSE g[i - 1] % steps[i]]
<1>1. n \in Nat /\ n >= 1 /\ \A j \in 1 .. n : cord[j] \in Nat
      /\ cord = [i \in 1 .. n |-> cord[i]]
  BY ElementOfSeq, LenProperties, EmptySeq
<1>2. steps = [i \in 1 .. n |-> steps[i]] /\ \A i \in 1 .. n : steps[i] \in Nat
  BY StepsNext
<1>3. Len(steps) = n /\ DOMAIN steps = 1 .. n
  BY <1>1, <1>2
<1>4. /\ off = t(0) /\ \A i \in 0 .. n : t(i) \in Nat
      /\ \A i \in 1 .. n : t(i) < steps[i] /\ t(i - 1) = cord[i] * steps[i] + t(i)
  BY Tails
<1> HIDE DEF n, steps, off, t
<1>5. off \in Nat
  BY <1>1, <1>4
<1>6. ASSUME NEW i \in 1 .. n
      PROVE  t(i - 1) % steps[i] = t(i) /\ t(i - 1) \div steps[i] = cord[i]
  <2>1. cord[i] \in Nat /\ steps[i] \in Nat /\ t(i) \in Nat
    BY <1>1, <1>2, <1>4
  <2> DEFINE a == cord[i]
             b == steps[i]
             u == t(i)
  <2>2. u < b /\ t(i - 1) = a * b + u
    BY <1>4
  <2>3. a \in Nat /\ b \in Nat /\ u \in Nat
    BY <2>1
  <2> HIDE DEF a, b, u
  <2>4. (a * b + u) % b = u /\ (a * b + u) \div b = a
    BY <2>2, <2>3, DivMod
  <2> QED BY <2>2, <2>4 DEF a, b, u
<1>7. ASSUME NEW g, Eq(g) PROVE \A i \in 0 .. n : g[i] = t(i)
  <2>1. g[0] = off /\ \A i \in 1 .. n : g[i] = g[i - 1] % steps[i]
    <3>1. g = [i \in 0 .. n |-> IF i = 0 THEN off ELSE g[i - 1] % steps[i]]
      BY <1>3, <1>7
    <3>2. \A i \in 0 .. n : g[i] = IF i = 0 THEN off ELSE g[i - 1] % steps[i]
      BY <3>1, Zenon
    <3>3. 0 \in 0 .. n /\ \A i \in 1 .. n : i \in 0 .. n /\ i # 0
      BY <1>1
    <3> HIDE DEF Eq
    <3> QED BY <3>2, <3>3, Zenon
  <2> DEFINE T == {m \in Nat : m <= n => g[m] = t(m)}
  <2>2. 0 \in T
    BY <2>1, <1>4
  <2>3. ASSUME NEW m \in T PROVE m + 1 \in T
    <3>1. m \in Nat /\ (m + 1) - 1 = m
      OBVIOUS
    <3>2. SUFFICES ASSUME m + 1 <= n PROVE g[m + 1] = t(m + 1)
      BY <3>1
    <3>3. m + 1 \in 1 .. n /\ g[m] = t(m)
      BY <3>1, <3>2, <1>1
    <3>4. g[m + 1] = t(m) % steps[m + 1]
      BY <2>1, <3>1, <3>3
    <3>5. t(m) % steps[m + 1] = t(m + 1)
      BY <1>6, <3>1, <3>3
    <3> QED BY <3>4, <3>5
  <2>4. T = Nat
    <3>1. T \in SUBSET Nat OBVIOUS
    <3> HIDE DEF T
    <3> QED BY <2>2, <2>3, <3>1, AllNat
  <2> QED BY <2>4
<1>8. \E g : Eq(g)
  <2> DEFINE g == [i \in 0 .. n |-> t(i)]
  <2>1. \A i \in 0 .. n : g[i] = IF i = 0 THEN off ELSE g[i - 1] % steps[i]
    <3> SUFFICES ASSUME NEW i \in 0 .. n, i # 0 PROVE g[i] = g[i - 1] % steps[i]
      BY <1>4
    <3>1. i \in 1 .. n /\ i - 1 \in 0 .. n
      BY <1>1
    <3>2. g[i] = t(i) /\ g[i - 1] = t(i - 1)
      BY <3>1
    <3> HIDE DEF g
    <3> QED BY <3>1, <3>2, <1>6
  <2>2. g = [i \in 0 .. n |-> g[i]]
    OBVIOUS
  <2> HIDE DEF g
  <2>3. Eq(g)
    BY <1>3, <2>1, <2>2
  <2> HIDE DEF Eq
  <2> QED BY <2>3
<1>9. Eq(CHOOSE g : Eq(g))
  <2> HIDE DEF Eq
  <2> QED BY <1>8
<1> DEFINE r == CHOOSE g : Eq(g)
<1>10. SelDecode(steps, off) = [i \in DOMAIN steps |-> r[i - 1] \div steps[i]]
  <2>1. Odd \notin Range(steps) \cup {off}
    BY <1>2, <1>3, <1>5 DEF Odd, Range
  <2> QED BY <2>1, Zenon DEF SelDecode
<1>11. \A i \in 1 .. n : r[i - 1] \div steps[i] = cord[i]
  <2> HIDE DEF r
  <2> SUFFICES ASSUME NEW i \in 1 .. n PROVE r[i - 1] \div steps[i] = cord[i]
    OBVIOUS
  <2>1. i - 1 \in 0 .. n
    BY <1>1
  <2>2. r[i - 1] = t(i - 1)
    <3> HIDE DEF Eq
    <3> QED BY <2>1, <1>7, <1>9 DEF r
  <2> QED BY <2>2, <1>6
<1>12. SelDecode(steps, off) = cord
  <2> HIDE DEF r
  <2> QED BY <1>1, <1>3, <1>10, <1>11
<1> QED BY <1>5, <1>12 DEF off, steps

-----------------------------------------------------------------------------
(* Words *)

\* A function on 1 .. n is a sequence of length n.
LEMMA SeqOfFunction ==
  ASSUME NEW S, NEW n \in Nat, NEW f \in [1 .. n -> S]
  PROVE  f \in Seq(S) /\ Len(f) = n
OBVIOUS

\* Numbers as pairs of words, and the numbers read back.
LEMMA LongsWords ==
  ASSUME NEW s \in Seq(Int)
  PROVE  /\ Longs(s) \in Seq(Int) /\ Len(Longs(s)) = Len(s) * 2
         /\ \A i \in 1 .. Len(s) : Longs(s)[(i - 1) * 2 + 1] = s[i]
                                   /\ Longs(s)[(i - 1) * 2 + 2] = 0
<1> DEFINE n == Len(s)
           p == [i \in DOMAIN s |-> <<s[i], 0>>]
<1>1. n \in Nat /\ DOMAIN s = 1 .. n /\ \A i \in 1 .. n : s[i] \in Int
  BY ElementOfSeq, LenProperties
<1>2. p \in Seq(Seq(Int)) /\ Len(p) = n
  <2>1. \A i \in 1 .. n : <<s[i], 0>> \in Seq(Int)
    BY <1>1
  <2>2. p \in [1 .. n -> Seq(Int)]
    BY <1>1, <2>1
  <2> HIDE DEF p
  <2> QED BY <1>1, <2>2
<1>3. \A i \in 1 .. n : Len(p[i]) = 2 /\ p[i][1] = s[i] /\ p[i][2] = 0
  BY <1>1
<1>4. Longs(s) = FlattenSeq(p)
  BY DEF Longs
<1> HIDE DEF p, n
<1>5. /\ FlattenSeq(p) \in Seq(Int) /\ Len(FlattenSeq(p)) = Len(p) * 2
      /\ \A i \in 1 .. Len(p), j \in 1 .. 2 : FlattenSeq(p)[(i - 1) * 2 + j] = p[i][j]
  <2>1. p \in Seq(Seq(Int)) /\ 2 \in Nat /\ \A i \in 1 .. Len(p) : Len(p[i]) = 2
    BY <1>2, <1>3
  <2> QED BY <2>1, FlattenEqual
<1>6. 1 \in 1 .. 2 /\ 2 \in 1 .. 2
  OBVIOUS
<1>7. \A i \in 1 .. n : FlattenSeq(p)[(i - 1) * 2 + 1] = s[i]
                        /\ FlattenSeq(p)[(i - 1) * 2 + 2] = 0
  BY <1>2, <1>3, <1>5, <1>6
<1> QED BY <1>2, <1>4, <1>5, <1>7 DEF n

\* A number read from the second of two parts, or within the first.
LEMMA LongAtParts ==
  ASSUME NEW s \in Seq(Int), NEW t \in Seq(Int), NEW k \in Nat, k >= 1
  PROVE  /\ k + 1 <= Len(s) => LongAt(s \o t, k) = LongAt(s, k)
         /\ k + 1 <= Len(t) => LongAt(s \o t, Len(s) + k) = LongAt(t, k)
<1>1. /\ Len(s) \in Nat /\ Len(t) \in Nat /\ Len(s \o t) = Len(s) + Len(t)
      /\ \A i \in 1 .. Len(s) + Len(t) :
           (s \o t)[i] = IF i <= Len(s) THEN s[i] ELSE t[i - Len(s)]
  BY ConcatProperties, LenProperties, Zenon
<1>2. ASSUME k + 1 <= Len(s) PROVE LongAt(s \o t, k) = LongAt(s, k)
  <2>1. k \in 1 .. Len(s) + Len(t) /\ k + 1 \in 1 .. Len(s) + Len(t)
        /\ k <= Len(s) /\ k < Len(s) /\ k < Len(s) + Len(t)
    BY <1>1, <1>2
  <2>2. (s \o t)[k] = s[k] /\ (s \o t)[k + 1] = s[k + 1]
    BY <1>1, <1>2, <2>1
  <2> QED BY <1>1, <2>1, <2>2 DEF LongAt
<1>3. ASSUME k + 1 <= Len(t) PROVE LongAt(s \o t, Len(s) + k) = LongAt(t, k)
  <2> DEFINE i == Len(s) + k
  <2>1. i \in 1 .. Len(s) + Len(t) /\ i + 1 \in 1 .. Len(s) + Len(t) /\ ~(i <= Len(s))
        /\ ~(i + 1 <= Len(s)) /\ i < Len(s) + Len(t) /\ i - Len(s) = k
        /\ (i + 1) - Len(s) = k + 1 /\ k < Len(t)
    BY <1>1, <1>3
  <2> HIDE DEF i
  <2>2. (s \o t)[i] = t[k] /\ (s \o t)[i + 1] = t[k + 1]
    BY <1>1, <2>1
  <2>3. LongAt(s \o t, i) = LongAt(t, k)
    BY <1>1, <2>1, <2>2 DEF LongAt
  <2> QED BY <2>3 DEF i
<1> QED BY <1>2, <1>3

\* Every number of such a sequence can be read.
LEMMA LongsRead ==
  ASSUME NEW s \in Seq(Int), NEW i \in 1 .. Len(s)
  PROVE  LongAt(Longs(s), (i - 1) * 2 + 1) = s[i]
         /\ (i - 1) * 2 + 1 >= 1 /\ (i - 1) * 2 + 2 <= Len(Longs(s))
<1> DEFINE w == Longs(s)
           k == (i - 1) * 2 + 1
<1>1. Len(w) = Len(s) * 2 /\ w[k] = s[i] /\ w[(i - 1) * 2 + 2] = 0
  BY LongsWords
<1>2. (i - 1) * 2 + 2 = k + 1 /\ k \in Nat /\ Len(s) \in Nat /\ k < Len(s) * 2 /\ k >= 1
  BY LenProperties
<1> HIDE DEF w, k
<1>3. LongAt(w, k) = s[i]
  BY <1>1, <1>2 DEF LongAt
<1> QED BY <1>1, <1>2, <1>3 DEF w, k

\* The vectors of a request, one behind the other.
LEMMA VectorsRead ==
  ASSUME NEW L \in Nat, NEW p \in Seq(Seq(Int)), \A i \in 1 .. Len(p) : Len(p[i]) = L
  PROVE  LET w == FlattenSeq([i \in 1 .. Len(p) |-> Longs(p[i])])
         IN  /\ w \in Seq(Int) /\ Len(w) = Len(p) * (L * 2)
             /\ \A i \in 1 .. Len(p), j \in 1 .. L :
                  LET k == (i - 1) * (L * 2) + (j - 1) * 2 + 1
                  IN  LongAt(w, k) = p[i][j] /\ k \in Nat /\ k >= 1 /\ k + 1 <= Len(w)
<1> DEFINE n == Len(p)
           q == [i \in 1 .. n |-> Longs(p[i])]
           M == L * 2
           w == FlattenSeq(q)
<1>1. n \in Nat /\ M \in Nat /\ \A i \in 1 .. n : p[i] \in Seq(Int) /\ Len(p[i]) = L
  BY ElementOfSeq, LenProperties
<1>2. \A i \in 1 .. n : /\ Longs(p[i]) \in Seq(Int) /\ Len(Longs(p[i])) = M
                        /\ \A j \in 1 .. L : Longs(p[i])[(j - 1) * 2 + 1] = p[i][j]
                                             /\ Longs(p[i])[(j - 1) * 2 + 2] = 0
  <2> SUFFICES ASSUME NEW i \in 1 .. n
               PROVE  /\ Longs(p[i]) \in Seq(Int) /\ Len(Longs(p[i])) = M
                      /\ \A j \in 1 .. L : Longs(p[i])[(j - 1) * 2 + 1] = p[i][j]
                                           /\ Longs(p[i])[(j - 1) * 2 + 2] = 0
    OBVIOUS
  <2> DEFINE s == p[i]
  <2>1. s \in Seq(Int) /\ Len(s) = L
    BY <1>1
  <2> HIDE DEF s
  <2>2. /\ Longs(s) \in Seq(Int) /\ Len(Longs(s)) = L * 2
        /\ \A j \in 1 .. L : Longs(s)[(j - 1) * 2 + 1] = s[j]
                             /\ Longs(s)[(j - 1) * 2 + 2] = 0
    BY <2>1, LongsWords
  <2> QED BY <2>2 DEF s
<1>3. q \in Seq(Seq(Int)) /\ Len(q) = n /\ \A i \in 1 .. n : q[i] = Longs(p[i])
  <2>1. q \in [1 .. n -> Seq(Int)]
    BY <1>2
  <2>2. \A i \in 1 .. n : q[i] = Longs(p[i])
    OBVIOUS
  <2> HIDE DEF q
  <2>3. q \in Seq(Seq(Int)) /\ Len(q) = n
    BY <1>1, <2>1, SeqOfFunction
  <2> QED BY <2>2, <2>3
<1> HIDE DEF q, n, M
<1>4. /\ w \in Seq(Int) /\ Len(w) = n * M
      /\ \A i \in 1 .. n, j \in 1 .. M : w[(i - 1) * M + j] = q[i][j]
  <2>1. q \in Seq(Seq(Int)) /\ M \in Nat /\ \A i \in 1 .. Len(q) : Len(q[i]) = M
    BY <1>1, <1>2, <1>3
  <2>2. /\ FlattenSeq(q) \in Seq(Int) /\ Len(FlattenSeq(q)) = Len(q) * M
        /\ \A i \in 1 .. Len(q), j \in 1 .. M : FlattenSeq(q)[(i - 1) * M + j] = q[i][j]
    BY <2>1, FlattenEqual
  <2> QED BY <1>3, <2>2
<1> HIDE DEF w
<1>5. ASSUME NEW i \in 1 .. n, NEW j \in 1 .. L
      PROVE  LET k == (i - 1) * M + (j - 1) * 2 + 1
             IN  LongAt(w, k) = p[i][j] /\ k \in Nat /\ k >= 1 /\ k + 1 <= Len(w)
  <2> DEFINE a == (i - 1) * M
             k == a + (j - 1) * 2 + 1
  <2>1. (j - 1) * 2 + 1 \in 1 .. M /\ (j - 1) * 2 + 2 \in 1 .. M /\ M \in Nat
    BY <1>1 DEF M
  <2>2. w[a + ((j - 1) * 2 + 1)] = p[i][j] /\ w[a + ((j - 1) * 2 + 2)] = 0
    <3> DEFINE x == (j - 1) * 2 + 1
               y == (j - 1) * 2 + 2
    <3>1. x \in 1 .. M /\ y \in 1 .. M
      BY <2>1
    <3>2. Longs(p[i])[x] = p[i][j] /\ Longs(p[i])[y] = 0
      BY <1>2
    <3> HIDE DEF x, y
    <3>3. w[a + x] = q[i][x] /\ w[a + y] = q[i][y]
      BY <1>4, <3>1
    <3>4. w[a + x] = p[i][j] /\ w[a + y] = 0
      BY <1>3, <3>2, <3>3
    <3> QED BY <3>4 DEF x, y
  <2>3. a \in Nat /\ a + M <= n * M /\ n * M \in Nat
    <3>1. i \in Nat /\ i - 1 \in Nat /\ (i - 1) + 1 = i /\ i <= n
      BY <1>1
    <3>2. i * M <= n * M /\ a \in Nat /\ ((i - 1) + 1) * M = a + M /\ n * M \in Nat
      BY <1>1, <3>1, Multiples
    <3> QED BY <3>1, <3>2
  <2> HIDE DEF a
  <2>4. k = a + ((j - 1) * 2 + 1) /\ k + 1 = a + ((j - 1) * 2 + 2)
        /\ k \in Nat /\ k >= 1 /\ k + 1 <= Len(w) /\ k < Len(w)
    BY <1>4, <2>1, <2>3
  <2> HIDE DEF k
  <2>5. LongAt(w, k) = p[i][j]
    BY <2>2, <2>4 DEF LongAt
  <2> QED BY <2>4, <2>5 DEF k, a
<1> QED BY <1>4, <1>5 DEF n, M, w, q

-----------------------------------------------------------------------------
(* A request *)

\* The vectors of a request that is not of a record, one behind the other.
Words(flags, steps, sels, field) ==
  FlattenSeq([i \in DOMAIN sels |-> Encoded(steps, 0, flags, sels[i][field])])

\* What is in front of them: the number of blocks and the steps.
Prefix(flags, n, steps, sels) ==
  (IF Len(sels) > 1 THEN <<Len(sels)>> ELSE <<>>)
    \o (IF "SEL_ENCODE" \in flags THEN Longs(SubSeq(steps, 1, n - 0 - 1)) ELSE <<>>)

\* The flags and the words of a request that is not of a record.
LEMMA RequestWords ==
  ASSUME NEW dp, NEW cfg, NEW sels, "REC" \notin Request(dp, cfg, sels).flags
  PROVE  LET r == Request(dp, cfg, sels)
         IN  /\ r.rec = <<>> /\ "SEL_REF" \notin r.flags
             /\ "MUL_SEL" \in r.flags <=> Len(sels) > 1
             /\ "SEL_DEFLATE" \in r.flags <=> Len(sels) > 1 /\ "SEL_DEFLATE" \in cfg
             /\ "SEL_ENCODE" \in r.flags <=>
                  Len(sels) > 1 /\ Len(dp.dims) - 0 > 1 /\ "SEL_ENCODE" \in cfg
             /\ r.sel = (Prefix(r.flags, Len(dp.dims), dp.dsteps, sels)
                          \o Words(r.flags, dp.dsteps, sels, "start"))
                          \o Words(r.flags, dp.dsteps, sels, "count")
<1> DEFINE r == Request(dp, cfg, sels)
           rec == IsRecord(dp.mdims, sels)
           off == IF rec THEN 1 ELSE 0
           multi == Len(sels) > 1
           flags == {f \in {"REC", "MUL_SEL", "SEL_ENCODE", "SEL_DEFLATE"} :
                   CASE f = "REC"         -> rec
                     [] f = "MUL_SEL"     -> multi
                     [] f = "SEL_ENCODE"  -> multi /\ Len(dp.dims) - off > 1 /\ f \in cfg
                     [] f = "SEL_DEFLATE" -> multi /\ f \in cfg}
           words(field) == FlattenSeq([i \in DOMAIN sels |->
                             Encoded(dp.dsteps, off, flags, sels[i][field])])
<1>1. r = [flags |-> flags,
           rec |-> IF rec THEN Longs(<<Len(sels)>>) ELSE <<>>,
           sel |-> (IF multi THEN <<Len(sels)>> ELSE <<>>)
                   \o (IF "SEL_ENCODE" \in flags
                       THEN Longs(SubSeq(dp.dsteps, 1, Len(dp.dims) - off - 1)) ELSE <<>>)
                   \o words("start") \o words("count")]
  BY DEF Request
<1>2. r.flags = flags
  <2> HIDE DEF flags, r, words
  <2> QED BY <1>1
<1>3. ~rec /\ off = 0
  <2>1. "REC" \in flags <=> rec
    <3> HIDE DEF rec, multi, off
    <3> QED OBVIOUS
  <2> QED BY <1>2, <2>1
<1>4. /\ "SEL_REF" \notin flags
      /\ "MUL_SEL" \in flags <=> multi
      /\ "SEL_DEFLATE" \in flags <=> multi /\ "SEL_DEFLATE" \in cfg
      /\ "SEL_ENCODE" \in flags <=> multi /\ Len(dp.dims) - off > 1 /\ "SEL_ENCODE" \in cfg
  <2> HIDE DEF rec, multi, off
  <2> QED OBVIOUS
<1>5. words("start") = Words(flags, dp.dsteps, sels, "start")
      /\ words("count") = Words(flags, dp.dsteps, sels, "count")
  <2> HIDE DEF flags, rec
  <2> QED BY <1>3 DEF Words
<1>6. r.rec = <<>> /\ r.sel = (Prefix(flags, Len(dp.dims), dp.dsteps, sels)
                                 \o words("start")) \o words("count")
  <2> HIDE DEF flags, words, rec, r
  <2>1. r.rec = <<>>
    BY <1>1, <1>3
  <2> DEFINE a == (IF multi THEN <<Len(sels)>> ELSE <<>>)
                  \o (IF "SEL_ENCODE" \in flags
                      THEN Longs(SubSeq(dp.dsteps, 1, Len(dp.dims) - off - 1)) ELSE <<>>)
  <2>2. r.sel = (a \o words("start")) \o words("count")
    BY <1>1
  <2>3. a = Prefix(flags, Len(dp.dims), dp.dsteps, sels)
    <3>1. off = 0
      BY <1>3
    <3> HIDE DEF off, multi
    <3> QED BY <3>1 DEF Prefix, multi
  <2> HIDE DEF a
  <2> QED BY <2>1, <2>2, <2>3
<1> HIDE DEF flags, words, r, off
<1> QED BY <1>2, <1>3, <1>4, <1>5, <1>6 DEF r

-----------------------------------------------------------------------------
(* A decoded entry *)

\* What Decode takes for the number of blocks, for the steps, and for the k-th
\* vector.
BlocksRead(flags, body) ==
  IF "MUL_SEL" \notin flags THEN 1 ELSE IF body = <<>> THEN Odd ELSE body[1]
FirstWord(flags) == IF "MUL_SEL" \in flags THEN 2 ELSE 1
StepsRead(info, flags, body) ==
  [i \in 1 .. info.ndim |->
     IF i = info.ndim THEN 1 ELSE LongAt(body, FirstWord(flags) + 2 * (i - 1))]
VectorRead(info, flags, body, k) ==
  LET vecs == IF "SEL_ENCODE" \in flags THEN FirstWord(flags) + 2 * (info.ndim - 1)
                                        ELSE FirstWord(flags)
  IN  IF "SEL_ENCODE" \in flags
      THEN SelDecode(StepsRead(info, flags, body), LongAt(body, vecs + 2 * k))
      ELSE [i \in 1 .. info.ndim |-> LongAt(body, vecs + 2 * (k * info.ndim + i - 1))]
CountsRead(info, flags, body) ==
  [i \in 1 .. BlocksRead(flags, body) |->
     VectorRead(info, flags, body, BlocksRead(flags, body) + i - 1)]

\* The parts of a decoded entry.
LEMMA DecodeParts ==
  ASSUME NEW info, NEW flags, NEW body,
         Outcome(info, flags, BlocksRead(flags, body)) = "ok"
  PROVE  LET d == Decode(info, flags, body)
             N == BlocksRead(flags, body)
             c == CountsRead(info, flags, body)
             o == DataOffsets(info.esize, c)
         IN  /\ d.outcome = "ok" /\ DOMAIN d.sels = 1 .. N
             /\ \A i \in 1 .. N : d.sels[i].start = VectorRead(info, flags, body, i - 1)
                                  /\ d.sels[i].count = c[i] /\ d.sels[i].doff = o[i]
             /\ d.dsize = o[N] + info.esize * Volume(c[N])
<1> DEFINE N == BlocksRead(flags, body)
           c == CountsRead(info, flags, body)
           o == DataOffsets(info.esize, c)
           v(k) == VectorRead(info, flags, body, k)
           sels == [i \in 1 .. N |-> [start |-> v(i - 1), count |-> c[i], doff |-> o[i]]]
           d == Decode(info, flags, body)
<1>1. d = IF Outcome(info, flags, N) # "ok"
          THEN [outcome |-> Outcome(info, flags, N), sels |-> <<>>, dsize |-> 0]
          ELSE [outcome |-> "ok", sels |-> sels,
                dsize |-> o[N] + info.esize * Volume(c[N])]
  BY DEF Decode, BlocksRead, FirstWord, StepsRead, VectorRead, CountsRead
<1> HIDE DEF N, c, o, v, d
<1>2. d.outcome = "ok" /\ d.sels = sels /\ d.dsize = o[N] + info.esize * Volume(c[N])
  BY <1>1 DEF N
<1>3. DOMAIN sels = 1 .. N
      /\ \A i \in 1 .. N : sels[i].start = v(i - 1) /\ sels[i].count = c[i]
                           /\ sels[i].doff = o[i]
  OBVIOUS
<1> HIDE DEF sels
<1> QED BY <1>2, <1>3 DEF N, c, o, v, d

-----------------------------------------------------------------------------
(* Reading back what was written *)

\* Blocks of a dataset of n dimensions.
Blocks(n) ==
  {b \in [start : Seq(Nat), count : Seq(Nat)] : Len(b.start) = n /\ Len(b.count) = n}

Fields == {"start", "count"}

\* Every vector of a selection has the rank of its dataset.
LEMMA BlockVectors ==
  ASSUME NEW n, NEW sels \in Seq(Blocks(n)), NEW field \in Fields, NEW i \in 1 .. Len(sels)
  PROVE  sels[i][field] \in Seq(Nat) /\ Len(sels[i][field]) = n
<1>1. sels[i] \in Blocks(n)
  BY ElementOfSeq
<1> QED BY <1>1 DEF Blocks, Fields

\* A selection without encoding: each vector is its numbers.
LEMMA WordsPlain ==
  ASSUME NEW dims \in Seq(Nat), NEW flags, "SEL_ENCODE" \notin flags, NEW steps,
         NEW sels \in Seq(Blocks(Len(dims))), NEW field \in Fields
  PROVE  LET n == Len(dims) N == Len(sels) w == Words(flags, steps, sels, field)
         IN  /\ w \in Seq(Int) /\ Len(w) = N * (n * 2)
             /\ \A i \in 1 .. N, j \in 1 .. n :
                  LET k == (i - 1) * (n * 2) + (j - 1) * 2 + 1
                  IN  LongAt(w, k) = sels[i][field][j] /\ k \in Nat /\ k >= 1 /\ k + 1 <= Len(w)
<1> DEFINE n == Len(dims)
           N == Len(sels)
           p == [i \in 1 .. N |-> sels[i][field]]
           w == Words(flags, steps, sels, field)
<1>1. n \in Nat /\ N \in Nat /\ DOMAIN sels = 1 .. N
  BY LenProperties
<1>2. \A i \in 1 .. N : sels[i][field] \in Seq(Nat) /\ Len(sels[i][field]) = n
  BY BlockVectors
<1>3. \A i \in 1 .. N : sels[i][field] \in Seq(Int)
  BY <1>2, SeqMonotonic
<1>4. p \in Seq(Seq(Int)) /\ Len(p) = N /\ \A i \in 1 .. Len(p) : Len(p[i]) = n
  <2>1. p \in [1 .. N -> Seq(Int)]
    BY <1>3
  <2>2. \A i \in 1 .. N : p[i] = sels[i][field]
    OBVIOUS
  <2> HIDE DEF p, N
  <2>3. p \in Seq(Seq(Int)) /\ Len(p) = N
    BY <1>1, <2>1, SeqOfFunction
  <2>4. \A i \in 1 .. N : Len(p[i]) = n
    BY <1>2, <2>2
  <2> QED BY <2>3, <2>4, Zenon
<1>5. \A i \in 1 .. N : Encoded(steps, 0, flags, sels[i][field]) = Longs(p[i])
  <2> SUFFICES ASSUME NEW i \in 1 .. N
               PROVE  Encoded(steps, 0, flags, sels[i][field]) = Longs(p[i])
    OBVIOUS
  <2> DEFINE v == sels[i][field]
  <2>1. v \in Seq(Nat) /\ p[i] = v
    BY <1>2
  <2> HIDE DEF v, p
  <2>2. SubSeq(v, 0 + 1, Len(v)) = v
    BY <2>1, SubSeqFull
  <2>3. Encoded(steps, 0, flags, v) = Longs(v)
    BY <2>2 DEF Encoded
  <2> QED BY <2>1, <2>3 DEF v
<1>6. w = FlattenSeq([i \in 1 .. Len(p) |-> Longs(p[i])])
  <2> HIDE DEF p, N
  <2>1. [i \in 1 .. N |-> Encoded(steps, 0, flags, sels[i][field])]
        = [i \in 1 .. N |-> Longs(p[i])]
    BY <1>5
  <2> QED BY <1>1, <1>4, <2>1 DEF Words
<1>7. \A i \in 1 .. N, j \in 1 .. n : p[i][j] = sels[i][field][j]
  OBVIOUS
<1> HIDE DEF p, w, N, n
<1>8. /\ w \in Seq(Int) /\ Len(w) = Len(p) * (n * 2)
      /\ \A i \in 1 .. Len(p), j \in 1 .. n :
           LET k == (i - 1) * (n * 2) + (j - 1) * 2 + 1
           IN  LongAt(w, k) = p[i][j] /\ k \in Nat /\ k >= 1 /\ k + 1 <= Len(w)
  <2>1. n \in Nat /\ p \in Seq(Seq(Int)) /\ \A i \in 1 .. Len(p) : Len(p[i]) = n
    BY <1>1, <1>4
  <2> DEFINE u == FlattenSeq([i \in 1 .. Len(p) |-> Longs(p[i])])
  <2>2. /\ u \in Seq(Int) /\ Len(u) = Len(p) * (n * 2)
        /\ \A i \in 1 .. Len(p), j \in 1 .. n :
             LET k == (i - 1) * (n * 2) + (j - 1) * 2 + 1
             IN  LongAt(u, k) = p[i][j] /\ k \in Nat /\ k >= 1 /\ k + 1 <= Len(u)
    BY <2>1, VectorsRead
  <2> HIDE DEF u
  <2>3. w = u
    BY <1>6 DEF u
  <2> QED BY <2>2, <2>3, Zenon
<1> QED BY <1>4, <1>7, <1>8 DEF w, N, n

\* How many words these are.
LEMMA WordsPlainSize ==
  ASSUME NEW dims \in Seq(Nat), NEW flags, "SEL_ENCODE" \notin flags, NEW steps,
         NEW sels \in Seq(Blocks(Len(dims))), NEW field \in Fields
  PROVE  /\ Words(flags, steps, sels, field) \in Seq(Int)
         /\ Len(Words(flags, steps, sels, field)) = Len(sels) * (Len(dims) * 2)
<1>1. LET n == Len(dims) N == Len(sels) w == Words(flags, steps, sels, field)
      IN  /\ w \in Seq(Int) /\ Len(w) = N * (n * 2)
          /\ \A i \in 1 .. N, j \in 1 .. n :
               LET k == (i - 1) * (n * 2) + (j - 1) * 2 + 1
               IN  LongAt(w, k) = sels[i][field][j] /\ k \in Nat /\ k >= 1 /\ k + 1 <= Len(w)
  BY WordsPlain, Zenon
<1> QED BY <1>1

\* The offset of any coordinates is a number.
LEMMA EncodeType ==
  ASSUME NEW dims \in Seq(Nat), NEW cord \in Seq(Nat), Len(cord) = Len(dims)
  PROVE  SelEncode(Steps(dims), cord) \in Int
<1> DEFINE f == [k \in DOMAIN cord |-> cord[k] * Steps(dims)[k]]
<1>1. DOMAIN cord = 1 .. Len(dims) /\ Len(dims) \in Nat
      /\ \A i \in 1 .. Len(dims) : cord[i] \in Nat /\ Steps(dims)[i] \in Nat
  BY LenProperties, ElementOfSeq, StepsNext
<1>2. \A k \in DOMAIN cord : f[k] \in Int
  BY <1>1
<1>3. IsFiniteSet(DOMAIN cord)
  <2>1. 1 \in Int /\ Len(dims) \in Int
    BY <1>1
  <2> QED BY <1>1, <2>1, FS_Interval
<1> HIDE DEF f
<1>4. SumFunctionOnSet(f, DOMAIN cord) \in Int
  BY <1>2, <1>3, SumType
<1> QED BY <1>4 DEF SelEncode, f

\* With encoding each vector is one offset.
LEMMA WordsEncoded ==
  ASSUME NEW dims \in Seq(Nat), NEW flags, "SEL_ENCODE" \in flags,
         NEW sels \in Seq(Blocks(Len(dims))), NEW field \in Fields
  PROVE  LET N == Len(sels) w == Words(flags, Steps(dims), sels, field)
         IN  /\ w \in Seq(Int) /\ Len(w) = N * 2
             /\ \A i \in 1 .. N :
                  LET k == (i - 1) * 2 + 1
                  IN  /\ LongAt(w, k) = SelEncode(Steps(dims), sels[i][field])
                      /\ k \in Nat /\ k >= 1 /\ k + 1 <= Len(w)
<1> DEFINE n == Len(dims)
           N == Len(sels)
           steps == Steps(dims)
           p == [i \in 1 .. N |-> <<SelEncode(steps, sels[i][field])>>]
           w == Words(flags, steps, sels, field)
<1>1. n \in Nat /\ N \in Nat /\ DOMAIN sels = 1 .. N
  BY LenProperties
<1>2. \A i \in 1 .. N : sels[i][field] \in Seq(Nat) /\ Len(sels[i][field]) = n
  BY BlockVectors
<1>3. \A i \in 1 .. N : SelEncode(steps, sels[i][field]) \in Int
  BY <1>2, EncodeType
<1>4. p \in Seq(Seq(Int)) /\ Len(p) = N /\ \A i \in 1 .. Len(p) : Len(p[i]) = 1
  <2>1. \A i \in 1 .. N : <<SelEncode(steps, sels[i][field])>> \in Seq(Int)
    <3> HIDE DEF steps
    <3> QED BY <1>3
  <2>2. p \in [1 .. N -> Seq(Int)]
    <3> HIDE DEF steps
    <3> QED BY <2>1
  <2>3. \A i \in 1 .. N : p[i] = <<SelEncode(steps, sels[i][field])>>
    OBVIOUS
  <2> HIDE DEF p, N, steps
  <2>4. p \in Seq(Seq(Int)) /\ Len(p) = N
    BY <1>1, <2>2, SeqOfFunction
  <2>5. \A i \in 1 .. N : Len(p[i]) = 1
    <3>1. \A x : Len(<<x>>) = 1
      OBVIOUS
    <3> QED BY <2>3, <3>1, Zenon
  <2> QED BY <2>4, <2>5, Zenon
<1>5. \A i \in 1 .. N : Encoded(steps, 0, flags, sels[i][field]) = Longs(p[i])
  <2> SUFFICES ASSUME NEW i \in 1 .. N
               PROVE  Encoded(steps, 0, flags, sels[i][field]) = Longs(p[i])
    OBVIOUS
  <2> DEFINE v == sels[i][field]
  <2>1. v \in Seq(Nat) /\ p[i] = <<SelEncode(steps, v)>>
    BY <1>2
  <2>2. steps \in Seq(Nat)
    <3>1. steps \in [1 .. n -> Nat]
      <4>1. steps = [j \in 1 .. n |-> steps[j]] /\ \A j \in 1 .. n : steps[j] \in Nat
        BY StepsNext
      <4> HIDE DEF steps, n
      <4> QED BY <4>1
    <3> HIDE DEF steps
    <3> QED BY <1>1, <3>1, SeqOfFunction
  <2> HIDE DEF v, p, steps
  <2>3. SubSeq(v, 0 + 1, Len(v)) = v /\ SubSeq(steps, 0 + 1, Len(steps)) = steps
    BY <2>1, <2>2, SubSeqFull
  <2>4. Encoded(steps, 0, flags, v) = Longs(<<SelEncode(steps, v)>>)
    BY <2>3 DEF Encoded
  <2> QED BY <2>1, <2>4 DEF v
<1>6. w = FlattenSeq([i \in 1 .. Len(p) |-> Longs(p[i])])
  <2> HIDE DEF p, N, steps
  <2>1. [i \in 1 .. N |-> Encoded(steps, 0, flags, sels[i][field])]
        = [i \in 1 .. N |-> Longs(p[i])]
    BY <1>5
  <2> QED BY <1>1, <1>4, <2>1 DEF Words
<1>7. \A i \in 1 .. N : p[i][1] = SelEncode(steps, sels[i][field])
  <2> HIDE DEF steps
  <2> QED OBVIOUS
<1> HIDE DEF p, w, N, n, steps
<1>8. /\ w \in Seq(Int) /\ Len(w) = Len(p) * (1 * 2)
      /\ \A i \in 1 .. Len(p), j \in 1 .. 1 :
           LET k == (i - 1) * (1 * 2) + (j - 1) * 2 + 1
           IN  LongAt(w, k) = p[i][j] /\ k \in Nat /\ k >= 1 /\ k + 1 <= Len(w)
  <2>1. 1 \in Nat
    OBVIOUS
  <2>2. p \in Seq(Seq(Int)) /\ \A i \in 1 .. Len(p) : Len(p[i]) = 1
    BY <1>4
  <2> QED BY <1>6, <2>1, <2>2, VectorsRead, Zenon
<1>9. ASSUME NEW i \in 1 .. N
      PROVE  LET k == (i - 1) * 2 + 1
             IN  /\ LongAt(w, k) = SelEncode(steps, sels[i][field])
                 /\ k \in Nat /\ k >= 1 /\ k + 1 <= Len(w)
  <2>1. 1 \in 1 .. 1 /\ i \in 1 .. Len(p)
    BY <1>4
  <2>2. LET k == (i - 1) * (1 * 2) + (1 - 1) * 2 + 1
        IN  LongAt(w, k) = p[i][1] /\ k \in Nat /\ k >= 1 /\ k + 1 <= Len(w)
    BY <1>8, <2>1
  <2>3. (i - 1) * (1 * 2) + (1 - 1) * 2 + 1 = (i - 1) * 2 + 1
    BY <1>1
  <2> QED BY <1>7, <2>2, <2>3
<1>10. Len(w) = N * 2
  BY <1>1, <1>4, <1>8
<1> QED BY <1>8, <1>9, <1>10 DEF w, N, steps

\* The word at which Decode begins to read the vectors.
VectorsAt(flags, n) ==
  IF "SEL_ENCODE" \in flags THEN FirstWord(flags) + 2 * (n - 1) ELSE FirstWord(flags)

\* The prefix ends where the vectors begin, and holds the number of blocks and
\* the steps.
LEMMA PrefixRead ==
  ASSUME NEW dims \in Seq(Nat), NEW flags, NEW sels, Len(sels) \in Nat,
         "MUL_SEL" \in flags <=> Len(sels) > 1,
         "SEL_ENCODE" \in flags => Len(sels) > 1 /\ Len(dims) > 1
  PROVE  LET n == Len(dims) a == Prefix(flags, n, Steps(dims), sels)
         IN  /\ a \in Seq(Int) /\ Len(a) + 1 = VectorsAt(flags, n)
             /\ "MUL_SEL" \in flags => Len(a) >= 1 /\ a[1] = Len(sels)
             /\ "SEL_ENCODE" \in flags =>
                  \A i \in 1 .. n - 1 : LET k == FirstWord(flags) + 2 * (i - 1)
                                        IN  LongAt(a, k) = Steps(dims)[i] /\ k \in Nat
                                            /\ k >= 1 /\ k + 1 <= Len(a)
<1> DEFINE n == Len(dims)
           N == Len(sels)
           steps == Steps(dims)
           b == IF N > 1 THEN <<N>> ELSE <<>>
           c == IF "SEL_ENCODE" \in flags THEN Longs(SubSeq(steps, 1, n - 0 - 1)) ELSE <<>>
           a == Prefix(flags, n, steps, sels)
<1>1. n \in Nat /\ N \in Nat /\ a = b \o c
  BY LenProperties DEF Prefix
<1>2. b \in Seq(Int) /\ Len(b) = (IF N > 1 THEN 1 ELSE 0) /\ (N > 1 => b[1] = N)
  <2> HIDE DEF N
  <2> QED BY <1>1
<1>3. CASE "SEL_ENCODE" \notin flags
  <2>1. c = <<>> /\ a = b
    <3>1. c = <<>>
      BY <1>3
    <3> HIDE DEF a, b, c
    <3> QED BY <1>1, <1>2, <3>1, ConcatEmptySeq
  <2> HIDE DEF a, b, c, N
  <2>2. a \in Seq(Int) /\ Len(a) = IF N > 1 THEN 1 ELSE 0
    BY <1>2, <2>1
  <2>3. VectorsAt(flags, n) = Len(a) + 1
    BY <1>3, <2>2 DEF VectorsAt, FirstWord, N
  <2>4. "MUL_SEL" \in flags => Len(a) >= 1 /\ a[1] = N
    <3>1. "MUL_SEL" \in flags => N > 1
      BY DEF N
    <3>2. N > 1 => Len(a) >= 1
      BY <2>2
    <3>3. N > 1 => a[1] = N
      BY <1>2, <2>1, Zenon
    <3> QED BY <3>1, <3>2, <3>3
  <2> HIDE DEF steps
  <2> QED BY <1>3, <2>2, <2>3, <2>4 DEF a, N, n, steps
<1>4. CASE "SEL_ENCODE" \in flags
  <2> DEFINE t == SubSeq(steps, 1, n - 1)
  <2>1. N > 1 /\ n > 1 /\ n - 0 - 1 = n - 1 /\ n - 1 \in Nat
    BY <1>1, <1>4
  <2>2. \A i \in 1 .. n : steps[i] \in Int
    <3>1. \A i \in 1 .. n : steps[i] \in Nat
      BY StepsNext
    <3> HIDE DEF steps, n
    <3> QED BY <3>1
  <2> HIDE DEF steps, n, N
  <2>3. t \in Seq(Int) /\ Len(t) = n - 1 /\ \A i \in 1 .. n - 1 : t[i] = steps[i]
    <3>1. 1 \in Int /\ n - 1 \in Int /\ \A i \in 1 .. n - 1 : steps[i] \in Int
      BY <1>1, <2>1, <2>2
    <3>2. /\ t \in Seq(Int) /\ Len(t) = IF 1 <= n - 1 THEN (n - 1) - 1 + 1 ELSE 0
          /\ \A i \in 1 .. (n - 1) - 1 + 1 : t[i] = steps[1 + i - 1]
      BY <3>1, SubSeqProperties
    <3>3. (n - 1) - 1 + 1 = n - 1 /\ 1 <= n - 1 /\ \A i \in 1 .. n - 1 : 1 + i - 1 = i
      BY <2>1, <1>1
    <3> HIDE DEF t
    <3> QED BY <3>2, <3>3
  <2>4. c = Longs(t)
    BY <1>4, <2>1
  <2> HIDE DEF t, a, b, c
  <2>5. c \in Seq(Int) /\ Len(c) = (n - 1) * 2
    BY <2>3, <2>4, LongsWords
  <2>6. a \in Seq(Int) /\ Len(a) = 1 + (n - 1) * 2 /\ a[1] = N
    <3>1. /\ b \o c \in Seq(Int) /\ Len(b \o c) = Len(b) + Len(c)
          /\ \A i \in 1 .. Len(b) + Len(c) :
               (b \o c)[i] = IF i <= Len(b) THEN b[i] ELSE c[i - Len(b)]
      BY <1>2, <2>5, ConcatProperties, Zenon
    <3>2. Len(b) = 1 /\ b[1] = N /\ (n - 1) * 2 \in Nat
      BY <1>2, <2>1
    <3>3. 1 \in 1 .. Len(b) + Len(c) /\ 1 <= Len(b)
      BY <3>2, <2>5
    <3> QED BY <1>1, <2>5, <3>1, <3>2, <3>3
  <2>7. FirstWord(flags) = 2
    BY <2>1 DEF FirstWord, N
  <2>8. VectorsAt(flags, n) = Len(a) + 1
    BY <1>1, <1>4, <2>6, <2>7 DEF VectorsAt
  <2>9. ASSUME NEW i \in 1 .. n - 1
        PROVE  LET k == 2 + 2 * (i - 1)
               IN  LongAt(a, k) = steps[i] /\ k \in Nat /\ k >= 1 /\ k + 1 <= Len(a)
    <3> DEFINE k == (i - 1) * 2 + 1
    <3>1. LongAt(Longs(t), k) = t[i] /\ k >= 1 /\ k + 1 <= Len(c) /\ k \in Nat
      <4>1. i \in 1 .. Len(t) /\ (i - 1) * 2 + 2 = k + 1 /\ k \in Nat
        BY <2>3
      <4>2. LongAt(Longs(t), k) = t[i] /\ k >= 1 /\ (i - 1) * 2 + 2 <= Len(Longs(t))
        BY <2>3, <4>1, LongsRead
      <4> QED BY <4>1, <4>2, <2>4
    <3>2. Len(b) = 1 /\ 2 + 2 * (i - 1) = Len(b) + k
      BY <1>2, <2>1
    <3> HIDE DEF k
    <3>3. LongAt(b \o c, Len(b) + k) = LongAt(c, k)
      BY <1>2, <2>5, <3>1, LongAtParts
    <3>4. LongAt(a, 2 + 2 * (i - 1)) = steps[i]
      BY <1>1, <2>3, <2>4, <3>1, <3>2, <3>3
    <3>5. 2 + 2 * (i - 1) \in Nat /\ 2 + 2 * (i - 1) >= 1 /\ 2 + 2 * (i - 1) + 1 <= Len(a)
      BY <2>1, <2>6
    <3> QED BY <3>4, <3>5
  <2>10. Len(a) >= 1
    BY <2>1, <2>6
  <2> QED BY <2>6, <2>7, <2>8, <2>9, <2>10 DEF a, N, n, steps
<1> QED BY <1>3, <1>4

\* The words w stand in the entry behind the word base.
StandsAt(body, base, w) ==
  \A k \in Nat : k >= 1 /\ k + 1 <= Len(w) => LongAt(body, base + k) = LongAt(w, k)

\* Decode gets the vectors of this field, k of which come before them, back.
ReadsBack(dims, flags, sels, field, info, body, before) ==
  \A i \in 1 .. Len(sels) :
    ("SEL_ENCODE" \in flags => Below(sels[i][field], dims)) =>
      VectorRead(info, flags, body, before + i - 1) = sels[i][field]

\* Vectors that begin at a word of an entry, k of which come before those of
\* this field.
LEMMA VectorsRecovered ==
  ASSUME NEW dims \in Seq(Nat), dims # <<>>, NEW flags, NEW of,
         "SEL_ENCODE" \in flags <=> "SEL_ENCODE" \in of,
         NEW sels \in Seq(Blocks(Len(dims))), NEW field \in Fields,
         NEW info, info.ndim = Len(dims), NEW body, NEW before \in Nat, NEW base \in Nat,
         "SEL_ENCODE" \in flags => StepsRead(info, flags, body) = Steps(dims),
         base + 1 = VectorsAt(flags, Len(dims))
                    + (IF "SEL_ENCODE" \in flags THEN before * 2
                                                 ELSE before * (Len(dims) * 2)),
         StandsAt(body, base, Words(of, Steps(dims), sels, field))
  PROVE  ReadsBack(dims, flags, sels, field, info, body, before)
<1> DEFINE n == Len(dims)
           N == Len(sels)
           w == Words(of, Steps(dims), sels, field)
<1>1. n \in Nat /\ N \in Nat
  BY LenProperties
<1>4. \A k \in Nat : k >= 1 /\ k + 1 <= Len(w) => LongAt(body, base + k) = LongAt(w, k)
  BY DEF StandsAt
<1>2. ASSUME NEW i \in 1 .. N, "SEL_ENCODE" \in flags, Below(sels[i][field], dims)
      PROVE  VectorRead(info, flags, body, before + i - 1) = sels[i][field]
  <2> DEFINE v == sels[i][field]
             k == (i - 1) * 2 + 1
  <2>1. LongAt(w, k) = SelEncode(Steps(dims), v) /\ k \in Nat /\ k >= 1 /\ k + 1 <= Len(w)
    <3>1. "SEL_ENCODE" \in of
      BY <1>2
    <3> QED BY <3>1, WordsEncoded
  <2>2. v \in Seq(Nat) /\ Len(v) = n
    BY BlockVectors
  <2> HIDE DEF w
  <2>3. LongAt(body, base + k) = SelEncode(Steps(dims), v)
    BY <1>4, <2>1 DEF w
  <2>4. VectorsAt(flags, n) + 2 * (before + i - 1) = base + k
    <3>1. VectorsAt(flags, n) = base + 1 - before * 2
      <4>1. VectorsAt(flags, n) \in Int
        BY <1>1 DEF VectorsAt, FirstWord
      <4> DEFINE z == VectorsAt(flags, n)
      <4>2. base + 1 = z + before * 2
        BY <1>2
      <4>3. z \in Int
        BY <4>1
      <4> HIDE DEF z
      <4>4. z = base + 1 - before * 2
        BY <4>2, <4>3
      <4> QED BY <4>4 DEF z
    <3> QED BY <3>1
  <2> HIDE DEF k, v
  <2>5. SelDecode(Steps(dims), SelEncode(Steps(dims), v)) = v
    BY <1>2, <2>2, DecodeEncode DEF v
  <2>6. VectorRead(info, flags, body, before + i - 1)
        = SelDecode(StepsRead(info, flags, body),
                    LongAt(body, VectorsAt(flags, n) + 2 * (before + i - 1)))
    BY <1>2 DEF VectorRead, VectorsAt, n
  <2> QED BY <1>2, <2>3, <2>4, <2>5, <2>6 DEF v
<1>3. ASSUME NEW i \in 1 .. N, "SEL_ENCODE" \notin flags
      PROVE  VectorRead(info, flags, body, before + i - 1) = sels[i][field]
  <2> DEFINE v == sels[i][field]
             k(j) == (i - 1) * (n * 2) + (j - 1) * 2 + 1
  <2>1. \A j \in 1 .. n : LongAt(w, k(j)) = v[j] /\ k(j) \in Nat /\ k(j) >= 1 /\ k(j) + 1 <= Len(w)
    <3>1. "SEL_ENCODE" \notin of
      BY <1>3
    <3> QED BY <3>1, WordsPlain
  <2>2. v \in Seq(Nat) /\ Len(v) = n
    BY BlockVectors
  <2> HIDE DEF w, k, v
  <2>3. \A j \in 1 .. n : LongAt(body, base + k(j)) = v[j]
    BY <1>4, <2>1 DEF w
  <2>4. ASSUME NEW j \in 1 .. n
        PROVE  VectorsAt(flags, n) + 2 * ((before + i - 1) * n + j - 1) = base + k(j)
    <3>1. VectorsAt(flags, n) = base + 1 - before * (n * 2)
      <4>1. VectorsAt(flags, n) \in Int
        BY <1>1 DEF VectorsAt, FirstWord
      <4> DEFINE x == before * (n * 2)
                 z == VectorsAt(flags, n)
      <4>2. base + 1 = z + x
        BY <1>3
      <4>3. x \in Int /\ z \in Int
        BY <1>1, <4>1
      <4> HIDE DEF x, z
      <4>4. z = base + 1 - x
        BY <4>2, <4>3
      <4> QED BY <4>4 DEF x, z
    <3>2. 2 * ((before + i - 1) * n + j - 1)
          = before * (n * 2) + (i - 1) * (n * 2) + (j - 1) * 2
      <4>1. n \in Nat /\ i \in Int /\ j \in Int
        BY <1>1
      <4> HIDE DEF n
      <4> QED BY <4>1
    <3> DEFINE x == before * (n * 2)
               y == (i - 1) * (n * 2)
    <3>3. x \in Int /\ y \in Int
      BY <1>1
    <3>4. k(j) = y + (j - 1) * 2 + 1
      BY DEF k
    <3> HIDE DEF x, y
    <3>5. VectorsAt(flags, n) + (x + y + (j - 1) * 2) = base + (y + (j - 1) * 2 + 1)
      <4>1. VectorsAt(flags, n) = base + 1 - x
        BY <3>1 DEF x
      <4> QED BY <3>3, <4>1
    <3> QED BY <3>2, <3>4, <3>5 DEF x, y
  <2>5. VectorRead(info, flags, body, before + i - 1)
        = [j \in 1 .. n |-> LongAt(body, VectorsAt(flags, n)
                                           + 2 * ((before + i - 1) * n + j - 1))]
    BY <1>3 DEF VectorRead, VectorsAt, n
  <2>6. v = [j \in 1 .. n |-> v[j]]
    BY <2>2, LenProperties
  <2> HIDE DEF n
  <2>7. VectorRead(info, flags, body, before + i - 1) = [j \in 1 .. n |-> v[j]]
    BY <2>3, <2>4, <2>5
  <2> QED BY <2>6, <2>7 DEF v
<1> QED BY <1>2, <1>3 DEF ReadsBack

\* A request that H5VL_log_wreq_t makes of a selection with these steps.
Writes(dims, cfg, sels, r) ==
  \E dp : dp.dsteps = Steps(dims) /\ Len(dp.dims) = Len(dims) /\ r = Request(dp, cfg, sels)

\* Flags that Decode treats like those of the request.
SameFlags(flags, r) ==
  /\ "SEL_DEFLATE" \notin flags
  /\ "MUL_SEL" \in flags <=> "MUL_SEL" \in r.flags
  /\ "SEL_ENCODE" \in flags <=> "SEL_ENCODE" \in r.flags

\* How many words a request has.
WordsIn(flags, n, N) ==
  (VectorsAt(flags, n) - 1)
    + (IF "SEL_ENCODE" \in flags THEN N * 2 ELSE N * (n * 2))
    + (IF "SEL_ENCODE" \in flags THEN N * 2 ELSE N * (n * 2))

\* Decode finds the blocks in the words, and each vector that is not encoded or
\* lies below the dimensions of the steps.
Rereads(dims, sels, info, flags, body) ==
  LET N == Len(sels)
      enc == "SEL_ENCODE" \in flags
  IN  /\ body \in Seq(Int) /\ body # <<>>
      /\ BlocksRead(flags, body) = N /\ Outcome(info, flags, N) = "ok"
      /\ \A i \in 1 .. N :
           /\ (enc => Below(sels[i].start, dims)) =>
                VectorRead(info, flags, body, i - 1) = sels[i].start
           /\ (enc => Below(sels[i].count, dims)) =>
                VectorRead(info, flags, body, N + i - 1) = sels[i].count

\* The words of a request that is not of a record decode to its selection, as
\* far as the coordinates lie below the dimensions of its steps.
LEMMA RequestRead ==
  ASSUME NEW dims \in Seq(Nat), dims # <<>>, NEW cfg,
         NEW sels \in Seq(Blocks(Len(dims))), sels # <<>>,
         NEW r, Writes(dims, cfg, sels, r), "REC" \notin r.flags,
         NEW info, info.ndim = Len(dims), NEW flags, SameFlags(flags, r)
  PROVE  Rereads(dims, sels, info, flags, r.sel)
         /\ Len(r.sel) = WordsIn(flags, Len(dims), Len(sels))
<1> DEFINE n == Len(dims)
           N == Len(sels)
           a == Prefix(r.flags, n, Steps(dims), sels)
           s == Words(r.flags, Steps(dims), sels, "start")
           c == Words(r.flags, Steps(dims), sels, "count")
           size == IF "SEL_ENCODE" \in r.flags THEN N * 2 ELSE N * (n * 2)
<1>1. n \in Nat /\ N \in Nat /\ n >= 1 /\ N >= 1
  <2>1. n \in Nat /\ N \in Nat
    BY LenProperties
  <2>2. n # 0
    BY EmptySeq
  <2>3. N # 0
    BY EmptySeq
  <2> QED BY <2>1, <2>2, <2>3
<1>2. /\ "MUL_SEL" \in r.flags <=> N > 1
      /\ "SEL_ENCODE" \in r.flags => N > 1 /\ n > 1
      /\ r.sel = (a \o s) \o c
  <2>1. PICK dp : dp.dsteps = Steps(dims) /\ Len(dp.dims) = Len(dims)
                  /\ r = Request(dp, cfg, sels)
    BY DEF Writes
  <2>2. /\ "MUL_SEL" \in r.flags <=> N > 1
        /\ "SEL_ENCODE" \in r.flags => N > 1 /\ Len(dp.dims) - 0 > 1
        /\ r.sel = (Prefix(r.flags, Len(dp.dims), dp.dsteps, sels)
                      \o Words(r.flags, dp.dsteps, sels, "start"))
                      \o Words(r.flags, dp.dsteps, sels, "count")
    BY <2>1, RequestWords
  <2>3. Len(dp.dims) = n /\ (n - 0 > 1 => n > 1)
    BY <2>1, <1>1
  <2> QED BY <2>1, <2>2, <2>3
<1>3. /\ a \in Seq(Int) /\ Len(a) + 1 = VectorsAt(flags, n)
      /\ "MUL_SEL" \in flags => Len(a) >= 1 /\ a[1] = N
      /\ "SEL_ENCODE" \in flags =>
           \A i \in 1 .. n - 1 : LET k == FirstWord(flags) + 2 * (i - 1)
                                 IN  LongAt(a, k) = Steps(dims)[i] /\ k \in Nat
                                     /\ k >= 1 /\ k + 1 <= Len(a)
  <2>1. FirstWord(r.flags) = FirstWord(flags) /\ VectorsAt(r.flags, n) = VectorsAt(flags, n)
    BY DEF SameFlags, FirstWord, VectorsAt
  <2>2. /\ a \in Seq(Int) /\ Len(a) + 1 = VectorsAt(r.flags, n)
        /\ "MUL_SEL" \in r.flags => Len(a) >= 1 /\ a[1] = N
        /\ "SEL_ENCODE" \in r.flags =>
             \A i \in 1 .. n - 1 : LET k == FirstWord(r.flags) + 2 * (i - 1)
                                   IN  LongAt(a, k) = Steps(dims)[i] /\ k \in Nat
                                       /\ k >= 1 /\ k + 1 <= Len(a)
    BY <1>1, <1>2, PrefixRead
  <2> HIDE DEF a, n, N
  <2> QED BY <2>1, <2>2 DEF SameFlags
<1>4. s \in Seq(Int) /\ Len(s) = size /\ c \in Seq(Int) /\ Len(c) = size /\ size \in Nat
  <2>1. "start" \in Fields /\ "count" \in Fields
    BY DEF Fields
  <2>2. CASE "SEL_ENCODE" \in r.flags
    BY <1>1, <2>1, <2>2, WordsEncoded, SMTT(20)
  <2>3. CASE "SEL_ENCODE" \notin r.flags
    <3>1. ASSUME NEW field \in Fields
          PROVE  LET w == Words(r.flags, Steps(dims), sels, field)
                 IN  w \in Seq(Int) /\ Len(w) = N * (n * 2)
      BY <2>3, WordsPlainSize
    <3>2. N * (n * 2) \in Nat
      BY <1>1
    <3> DEFINE z == N * (n * 2)
    <3>3. size = z
      BY <2>3
    <3> HIDE DEF z, size
    <3> QED BY <2>1, <3>1, <3>2, <3>3 DEF z
  <2> QED BY <2>2, <2>3
<1>5. size = IF "SEL_ENCODE" \in flags THEN N * 2 ELSE N * (n * 2)
  BY DEF SameFlags
<1>6. "SEL_ENCODE" \in flags <=> "SEL_ENCODE" \in r.flags
  BY DEF SameFlags
<1> HIDE DEF a, s, c, size
<1>7. /\ a \o s \in Seq(Int) /\ Len(a \o s) = Len(a) + size /\ Len(a) \in Nat
      /\ r.sel \in Seq(Int) /\ Len(r.sel) = Len(a) + size + size
  <2>1. a \o s \in Seq(Int) /\ Len(a \o s) = Len(a) + Len(s) /\ Len(a) \in Nat
    BY <1>3, <1>4, ConcatProperties, LenProperties
  <2>2. (a \o s) \o c \in Seq(Int) /\ Len((a \o s) \o c) = Len(a \o s) + Len(c)
    BY <2>1, <1>4, ConcatProperties
  <2> QED BY <1>2, <1>4, <2>1, <2>2
<1>8. size >= 1
  <2>1. N * 2 >= 1
    BY <1>1
  <2>2. n * 2 \in Nat /\ n * 2 >= 1 /\ 1 * (n * 2) = n * 2
    BY <1>1
  <2>3. N * (n * 2) >= 1 * (n * 2)
    <3> DEFINE m == n * 2
    <3>1. m \in Nat
      BY <2>2
    <3> HIDE DEF m
    <3>2. 1 * m <= N * m
      BY <1>1, <3>1, Multiples
    <3>3. 1 * m \in Nat /\ N * m \in Nat
      BY <1>1, <3>1
    <3>4. N * m >= 1 * m
      BY <3>2, <3>3
    <3> QED BY <3>4 DEF m
  <2>4. N * (n * 2) >= 1
    <3> DEFINE x == N * (n * 2)
    <3>1. x \in Int
      BY <1>1
    <3>2. x >= n * 2 /\ n * 2 >= 1 /\ n * 2 \in Nat
      BY <2>2, <2>3
    <3> HIDE DEF x
    <3>3. x >= 1
      BY <3>1, <3>2
    <3> QED BY <3>3 DEF x
  <2> QED BY <2>1, <2>4 DEF size
<1>9. r.sel # <<>>
  <2>1. Len(r.sel) # 0
    BY <1>4, <1>7, <1>8
  <2> QED BY <2>1
<1>10. \A k \in Nat : k >= 1 /\ k + 1 <= Len(a) => LongAt(r.sel, k) = LongAt(a, k)
  <2> SUFFICES ASSUME NEW k \in Nat, k >= 1, k + 1 <= Len(a)
               PROVE  LongAt((a \o s) \o c, k) = LongAt(a, k)
    BY <1>2
  <2>1. k + 1 <= Len(a \o s)
    BY <1>4, <1>7
  <2>2. LongAt((a \o s) \o c, k) = LongAt(a \o s, k)
    BY <1>4, <1>7, <2>1, LongAtParts
  <2>3. LongAt(a \o s, k) = LongAt(a, k)
    BY <1>3, <1>4, LongAtParts
  <2> QED BY <2>2, <2>3
<1>11. \A k \in Nat : k >= 1 /\ k + 1 <= Len(s) => LongAt(r.sel, Len(a) + k) = LongAt(s, k)
  <2> SUFFICES ASSUME NEW k \in Nat, k >= 1, k + 1 <= Len(s)
               PROVE  LongAt((a \o s) \o c, Len(a) + k) = LongAt(s, k)
    BY <1>2
  <2> DEFINE m == Len(a) + k
  <2>1. m \in Nat /\ m >= 1 /\ m + 1 <= Len(a \o s)
    BY <1>4, <1>7, SMTT(20)
  <2>2. LongAt(a \o s, m) = LongAt(s, k)
    BY <1>3, <1>4, LongAtParts
  <2> HIDE DEF m
  <2>3. LongAt((a \o s) \o c, m) = LongAt(a \o s, m)
    BY <1>4, <1>7, <2>1, LongAtParts
  <2> QED BY <2>2, <2>3 DEF m
<1>12. \A k \in Nat : k >= 1 /\ k + 1 <= Len(c) =>
         LongAt(r.sel, (Len(a) + size) + k) = LongAt(c, k)
  <2> SUFFICES ASSUME NEW k \in Nat, k >= 1, k + 1 <= Len(c)
               PROVE  LongAt((a \o s) \o c, (Len(a) + size) + k) = LongAt(c, k)
    BY <1>2
  <2>1. LongAt((a \o s) \o c, Len(a \o s) + k) = LongAt(c, k)
    BY <1>4, <1>7, LongAtParts
  <2> QED BY <1>7, <2>1
<1>13. BlocksRead(flags, r.sel) = N
  <2>1. CASE "MUL_SEL" \in flags
    <3>1. 1 <= Len(a) /\ a[1] = N
      BY <1>3, <1>7, <2>1
    <3>2. (a \o s)[1] = a[1] /\ ((a \o s) \o c)[1] = (a \o s)[1]
      <4> a \in Seq(Int) /\ s \in Seq(Int) /\ a \o s \in Seq(Int) /\ c \in Seq(Int)
        BY <1>3, <1>4, <1>7
      <4>1. \A i \in 1 .. Len(a) + Len(s) :
              (a \o s)[i] = IF i <= Len(a) THEN a[i] ELSE s[i - Len(a)]
        BY ConcatProperties, Zenon
      <4>2. \A i \in 1 .. Len(a \o s) + Len(c) :
              ((a \o s) \o c)[i] = IF i <= Len(a \o s) THEN (a \o s)[i]
                                                       ELSE c[i - Len(a \o s)]
        BY ConcatProperties, Zenon
      <4>3. 1 \in 1 .. Len(a) + Len(s) /\ 1 <= Len(a \o s) /\ 1 \in 1 .. Len(a \o s) + Len(c)
        BY <1>4, <1>7, <3>1
      <4> QED BY <3>1, <4>1, <4>2, <4>3
    <3> QED BY <1>2, <1>9, <2>1, <3>1, <3>2 DEF BlocksRead
  <2>2. CASE "MUL_SEL" \notin flags
    <3>1. ~(N > 1)
      BY <1>2, <2>2 DEF SameFlags
    <3>2. N = 1
      <4> HIDE DEF N
      <4> QED BY <1>1, <3>1
    <3> HIDE DEF N
    <3> QED BY <2>2, <3>2 DEF BlocksRead
  <2> QED BY <2>1, <2>2
<1>14. Outcome(info, flags, N) = "ok"
  <2>1. N # Odd /\ info.ndim # 0 /\ "SEL_DEFLATE" \notin flags
    BY <1>1 DEF Odd, SameFlags
  <2> HIDE DEF N, n
  <2> QED BY <2>1 DEF Outcome
<1>15. "SEL_ENCODE" \in flags => StepsRead(info, flags, r.sel) = Steps(dims)
  <2> SUFFICES ASSUME "SEL_ENCODE" \in flags
               PROVE  StepsRead(info, flags, r.sel) = Steps(dims)
    OBVIOUS
  <2>1. Steps(dims) = [i \in 1 .. n |-> Steps(dims)[i]] /\ Steps(dims)[n] = 1
    BY StepsNext
  <2>2. \A i \in 1 .. n - 1 : LongAt(r.sel, FirstWord(flags) + 2 * (i - 1)) = Steps(dims)[i]
    BY <1>3, <1>10
  <2>3. \A i \in 1 .. n : i # n => i \in 1 .. n - 1
    BY <1>1
  <2>4. info.ndim = n
    OBVIOUS
  <2> HIDE DEF n
  <2>5. \A i \in 1 .. n : Steps(dims)[i] =
          IF i = n THEN 1 ELSE LongAt(r.sel, FirstWord(flags) + 2 * (i - 1))
    BY <2>1, <2>2, <2>3
  <2> DEFINE f == Steps(dims)
  <2> HIDE DEF f
  <2>6. StepsRead(info, flags, r.sel) = [i \in 1 .. n |-> f[i]]
    BY <2>4, <2>5 DEF StepsRead, f
  <2> QED BY <2>1, <2>6 DEF f
<1>16. \A i \in 1 .. N : ("SEL_ENCODE" \in flags => Below(sels[i].start, dims)) =>
                           VectorRead(info, flags, r.sel, i - 1) = sels[i].start
  <2>1. "start" \in Fields /\ 0 \in Nat
    BY DEF Fields
  <2>2. Len(a) + 1 = VectorsAt(flags, n)
                     + (IF "SEL_ENCODE" \in flags THEN 0 * 2 ELSE 0 * (n * 2))
    <3>1. 0 * 2 = 0 /\ 0 * (n * 2) = 0
      BY <1>1
    <3> QED BY <1>3, <1>7, <3>1
  <2>3. StandsAt(r.sel, Len(a), Words(r.flags, Steps(dims), sels, "start"))
    BY <1>11 DEF s, StandsAt
  <2>4. ReadsBack(dims, flags, sels, "start", info, r.sel, 0)
    BY <1>6, <1>7, <1>15, <2>1, <2>2, <2>3, VectorsRecovered
  <2>5. \A i \in 1 .. N : 0 + i - 1 = i - 1
    OBVIOUS
  <2> QED BY <2>4, <2>5 DEF ReadsBack
<1>17. \A i \in 1 .. N : ("SEL_ENCODE" \in flags => Below(sels[i].count, dims)) =>
                           VectorRead(info, flags, r.sel, N + i - 1) = sels[i].count
  <2>1. "count" \in Fields
    BY DEF Fields
  <2> DEFINE base == Len(a) + size
  <2>2. base + 1 = VectorsAt(flags, n)
                   + (IF "SEL_ENCODE" \in flags THEN N * 2 ELSE N * (n * 2))
    <3>1. base + 1 = (Len(a) + 1) + size
      BY <1>4, <1>7
    <3> QED BY <1>3, <1>5, <3>1
  <2>3. StandsAt(r.sel, base, Words(r.flags, Steps(dims), sels, "count"))
    BY <1>12 DEF c, StandsAt
  <2>4. base \in Nat
    BY <1>4, <1>7
  <2> HIDE DEF base
  <2>5. ReadsBack(dims, flags, sels, "count", info, r.sel, N)
    BY <1>1, <1>6, <1>15, <2>1, <2>2, <2>3, <2>4, VectorsRecovered
  <2> QED BY <2>5 DEF ReadsBack
<1>18. Len(r.sel) = WordsIn(flags, n, N)
  <2>1. VectorsAt(flags, n) - 1 = Len(a)
    <3>1. Len(a) \in Nat /\ Len(a) + 1 = VectorsAt(flags, n)
      BY <1>3, <1>7
    <3> QED BY <3>1
  <2> HIDE DEF n, N
  <2> QED BY <1>5, <1>7, <2>1 DEF WordsIn
<1> QED BY <1>7, <1>9, <1>13, <1>14, <1>16, <1>17, <1>18 DEF Rereads

-----------------------------------------------------------------------------
(* Where the data of a block is *)

\* A block has a number of elements.
LEMMA VolumeType ==
  ASSUME NEW v \in Seq(Nat)
  PROVE  Volume(v) \in Int
<1>1. DOMAIN v = 1 .. Len(v) /\ Len(v) \in Nat /\ \A i \in 1 .. Len(v) : v[i] \in Int
  BY LenProperties, ElementOfSeq
<1>2. IsFiniteSet(1 .. Len(v))
  <2>1. 1 \in Int /\ Len(v) \in Int
    BY <1>1
  <2> QED BY <2>1, FS_Interval
<1>3. Product(v, 1 .. Len(v)) \in Int
  BY <1>1, <1>2, ProductType
<1> QED BY <1>1, <1>3 DEF Volume, Product

\* The number of elements of the blocks before the i-th.
Before(vol, i) == SumFunctionOnSet(vol, 1 .. i - 1)

\* Each block adds its own.
LEMMA BeforeNext ==
  ASSUME NEW N \in Nat, NEW vol, \A i \in 1 .. N : vol[i] \in Int
  PROVE  /\ Before(vol, 1) = 0
         /\ \A i \in 1 .. N : Before(vol, i) \in Int
                              /\ Before(vol, i + 1) = vol[i] + Before(vol, i)
<1>1. Before(vol, 1) = 0
  <2>1. 1 .. 1 - 1 = {}
    OBVIOUS
  <2> QED BY <2>1, SumEmpty DEF Before
<1>2. ASSUME NEW i \in 1 .. N
      PROVE  Before(vol, i) \in Int /\ Before(vol, i + 1) = vol[i] + Before(vol, i)
  <2>1. IsFiniteSet(1 .. i)
    <3>1. 1 \in Int /\ i \in Int
      OBVIOUS
    <3> QED BY <3>1, FS_Interval
  <2>2. i \in 1 .. i /\ (1 .. i) \ {i} = 1 .. i - 1 /\ i + 1 - 1 = i
    OBVIOUS
  <2>3. \A j \in 1 .. i : vol[j] \in Int
    OBVIOUS
  <2>4. SumFunctionOnSet(vol, (1 .. i) \ {i}) \in Int
        /\ SumFunctionOnSet(vol, 1 .. i) = vol[i] + SumFunctionOnSet(vol, (1 .. i) \ {i})
    BY <2>1, <2>2, <2>3, SumRemove
  <2>5. Before(vol, i) = SumFunctionOnSet(vol, 1 .. i - 1)
    BY DEF Before
  <2>6. Before(vol, i + 1) = SumFunctionOnSet(vol, 1 .. i + 1 - 1)
    BY DEF Before
  <2>7. SumFunctionOnSet(vol, 1 .. i + 1 - 1) = SumFunctionOnSet(vol, 1 .. i)
    BY <2>2, Zenon
  <2> QED BY <2>2, <2>4, <2>5, <2>6, <2>7, Zenon
<1> QED BY <1>1, <1>2

\* Elements of size 1: the offset of a block is the number of elements of those
\* before it.
LEMMA OffsetsTile ==
  ASSUME NEW N \in Nat, NEW counts, DOMAIN counts = 1 .. N,
         \A i \in 1 .. N : Volume(counts[i]) \in Int
  PROVE  LET vol == [j \in 1 .. N |-> Volume(counts[j])]
         IN  \A i \in 1 .. N : DataOffsets(1, counts)[i] = Before(vol, i)
<1> DEFINE vol == [j \in 1 .. N |-> Volume(counts[j])]
           Right(h) == h = [i \in 1 .. N |->
                              IF i = 1 THEN 0 ELSE 1 * Volume(counts[i - 1]) + h[i - 1]]
           g == [i \in 1 .. N |-> Before(vol, i)]
           f == DataOffsets(1, counts)
<1>1. \A i \in 1 .. N : vol[i] = Volume(counts[i]) /\ vol[i] \in Int
  OBVIOUS
<1> HIDE DEF vol
<1>2. /\ Before(vol, 1) = 0
      /\ \A i \in 1 .. N : Before(vol, i) \in Int
                           /\ Before(vol, i + 1) = vol[i] + Before(vol, i)
  BY <1>1, BeforeNext
<1>3. \A i \in 1 .. N : i # 1 => i - 1 \in 1 .. N /\ i - 1 + 1 = i
  OBVIOUS
<1>4. ASSUME NEW i \in 1 .. N, i # 1
      PROVE  g[i] = 1 * Volume(counts[i - 1]) + g[i - 1]
  <2>1. i - 1 \in 1 .. N /\ i - 1 + 1 = i
    BY <1>3, <1>4
  <2> DEFINE p == i - 1
  <2> HIDE DEF p
  <2>2. p \in 1 .. N /\ p + 1 = i
    BY <2>1 DEF p
  <2>3. Before(vol, p + 1) = vol[p] + Before(vol, p) /\ vol[p] = Volume(counts[p])
        /\ vol[p] \in Int
    BY <1>1, <1>2, <2>2
  <2>4. g[i] = Before(vol, p + 1) /\ g[p] = Before(vol, p)
    BY <2>2
  <2> HIDE DEF g
  <2>5. g[i] = 1 * Volume(counts[p]) + g[p]
    BY <2>3, <2>4
  <2> QED BY <2>5 DEF p
<1>5. Right(g)
  <2>1. \A i \in 1 .. N : g[i] = IF i = 1 THEN 0 ELSE 1 * Volume(counts[i - 1]) + g[i - 1]
    <3>1. 1 \in 1 .. N => g[1] = 0
      BY <1>2
    <3> HIDE DEF g
    <3> QED BY <1>4, <3>1
  <2>2. g = [i \in 1 .. N |-> g[i]]
    OBVIOUS
  <2> HIDE DEF g
  <2> QED BY <2>1, <2>2
<1>6. f = CHOOSE h : Right(h)
  BY DEF DataOffsets
<1>7. Right(f)
  <2> HIDE DEF Right, f
  <2> QED BY <1>5, <1>6
<1> HIDE DEF f
<1>8. \A i \in 1 .. N : f[i] = IF i = 1 THEN 0 ELSE 1 * Volume(counts[i - 1]) + f[i - 1]
  BY <1>7
<1> DEFINE T == {n \in Nat : n + 1 \in 1 .. N => f[n + 1] = Before(vol, n + 1)}
<1>9. T = Nat
  <2>1. T \in SUBSET Nat
    OBVIOUS
  <2>2. 0 \in T
    BY <1>2, <1>8
  <2>3. ASSUME NEW n \in T PROVE n + 1 \in T
    <3> SUFFICES ASSUME n + 2 \in 1 .. N PROVE f[n + 2] = Before(vol, n + 2)
      <4>1. n \in Nat /\ n + 1 \in Nat /\ n + 1 + 1 = n + 2
        OBVIOUS
      <4> QED BY <4>1
    <3>1. n \in Nat /\ n + 1 \in 1 .. N /\ n + 2 # 1 /\ n + 2 - 1 = n + 1
      OBVIOUS
    <3>2. f[n + 1] = Before(vol, n + 1)
      BY <3>1
    <3>3. f[n + 2] = 1 * Volume(counts[n + 1]) + f[n + 1]
      BY <1>8, <3>1
    <3> DEFINE p == n + 1
    <3>4. p + 1 = n + 2
      BY <3>1
    <3> HIDE DEF p
    <3>5. Before(vol, p + 1) = vol[p] + Before(vol, p) /\ vol[p] = Volume(counts[p])
          /\ vol[p] \in Int
      BY <1>1, <1>2, <3>1 DEF p
    <3> QED BY <3>2, <3>3, <3>4, <3>5 DEF p
  <2> HIDE DEF T
  <2> QED BY <2>1, <2>2, <2>3, AllNat
<1>10. ASSUME NEW i \in 1 .. N PROVE f[i] = Before(vol, i)
  <2>1. i - 1 \in Nat /\ i - 1 + 1 = i
    OBVIOUS
  <2>2. i - 1 \in T
    <3> HIDE DEF T
    <3> QED BY <1>9, <2>1
  <2> QED BY <2>1, <2>2
<1> QED BY <1>10 DEF f, vol

\* The sizes of the blocks, and whether their counts decode.
Volumes(sels) == [j \in DOMAIN sels |-> Volume(sels[j].count)]
CountsBelow(flags, sels, dims) ==
  "SEL_ENCODE" \in flags => \A i \in DOMAIN sels : Below(sels[i].count, dims)

\* An entry d decoded from these flags has the blocks of the selection, as far as
\* their vectors decode, and where the data of each is.
Recovered(dims, sels, flags, d) ==
  /\ DOMAIN d.sels = DOMAIN sels
  /\ \A i \in DOMAIN sels :
       /\ ("SEL_ENCODE" \in flags => Below(sels[i].start, dims)) =>
            d.sels[i].start = sels[i].start
       /\ ("SEL_ENCODE" \in flags => Below(sels[i].count, dims)) =>
            d.sels[i].count = sels[i].count
       /\ CountsBelow(flags, sels, dims) => d.sels[i].doff = Before(Volumes(sels), i)
  /\ CountsBelow(flags, sels, dims) => d.dsize = Before(Volumes(sels), Len(sels) + 1)

\* So it is with what Decode makes of the words of a request.
LEMMA DecodedRequest ==
  ASSUME NEW dims \in Seq(Nat), dims # <<>>, NEW cfg,
         NEW sels \in Seq(Blocks(Len(dims))), sels # <<>>,
         NEW r, Writes(dims, cfg, sels, r), "REC" \notin r.flags,
         NEW info, info.ndim = Len(dims), info.esize = 1, NEW flags, SameFlags(flags, r)
  PROVE  Recovered(dims, sels, flags, Decode(info, flags, r.sel))
<1> DEFINE N == Len(sels)
           body == r.sel
           enc == "SEL_ENCODE" \in flags
           vec(k) == VectorRead(info, flags, body, k)
           c == CountsRead(info, flags, body)
           o == DataOffsets(info.esize, c)
           d == Decode(info, flags, body)
           vol == Volumes(sels)
<1>1. N \in Nat /\ DOMAIN sels = 1 .. N /\ N >= 1
  <2>1. N \in Nat /\ DOMAIN sels = 1 .. N
    BY LenProperties
  <2>2. N # 0
    BY EmptySeq
  <2> QED BY <2>1, <2>2
<1>2. /\ BlocksRead(flags, body) = N /\ Outcome(info, flags, N) = "ok"
      /\ \A i \in 1 .. N : /\ (enc => Below(sels[i].start, dims)) => vec(i - 1) = sels[i].start
                           /\ (enc => Below(sels[i].count, dims)) => vec(N + i - 1) = sels[i].count
  <2>1. Rereads(dims, sels, info, flags, r.sel)
    BY RequestRead
  <2> QED BY <2>1 DEF Rereads
<1>3. /\ DOMAIN d.sels = 1 .. N
      /\ \A i \in 1 .. N : d.sels[i].start = vec(i - 1) /\ d.sels[i].count = c[i]
                           /\ d.sels[i].doff = o[i]
      /\ d.dsize = o[N] + info.esize * Volume(c[N])
  BY <1>2, DecodeParts
<1>4. DOMAIN c = 1 .. N /\ \A i \in 1 .. N : c[i] = vec(N + i - 1)
  <2> HIDE DEF vec, N
  <2> QED BY <1>2 DEF CountsRead, vec
<1> HIDE DEF d, c, vec, body, enc
<1>5. \A i \in 1 .. N : (enc => Below(sels[i].count, dims)) => d.sels[i].count = sels[i].count
  BY <1>2, <1>3, <1>4
<1>6. \A i \in 1 .. N : (enc => Below(sels[i].start, dims)) => d.sels[i].start = sels[i].start
  BY <1>2, <1>3
<1>7. ASSUME CountsBelow(flags, sels, dims)
      PROVE  /\ \A i \in 1 .. N : d.sels[i].doff = Before(vol, i)
             /\ d.dsize = Before(vol, N + 1)
  <2>1. \A i \in 1 .. N : c[i] = sels[i].count
    BY <1>1, <1>2, <1>4, <1>7 DEF CountsBelow, enc
  <2>2. \A i \in 1 .. N : Volume(sels[i].count) \in Int
    <3>1. \A i \in 1 .. N : sels[i].count \in Seq(Nat)
      <4>1. \A i \in 1 .. N : sels[i] \in Blocks(Len(dims))
        BY <1>1, ElementOfSeq
      <4> QED BY <4>1 DEF Blocks
    <3> QED BY <3>1, VolumeType
  <2>3. vol = [j \in 1 .. N |-> Volume(c[j])] /\ \A i \in 1 .. N : vol[i] = Volume(c[i])
    <3> HIDE DEF N
    <3> QED BY <1>1, <2>1 DEF Volumes
  <2>4. \A i \in 1 .. N : Volume(c[i]) \in Int
    BY <2>1, <2>2
  <2>5. \A i \in 1 .. N : o[i] = Before([j \in 1 .. N |-> Volume(c[j])], i)
    <3> HIDE DEF N
    <3>1. \A i \in 1 .. N : DataOffsets(1, c)[i] = Before([j \in 1 .. N |-> Volume(c[j])], i)
      BY <1>1, <1>4, <2>4, OffsetsTile
    <3> QED BY <3>1 DEF o
  <2>6. \A i \in 1 .. N : o[i] = Before(vol, i)
    BY <2>3, <2>5
  <2> HIDE DEF vol, o, N
  <2>7. Before(vol, N) \in Int /\ Before(vol, N + 1) = vol[N] + Before(vol, N)
        /\ N \in 1 .. N
    <3>1. \A i \in 1 .. N : vol[i] \in Int
      BY <2>3, <2>4
    <3>2. \A i \in 1 .. N : Before(vol, i) \in Int
                             /\ Before(vol, i + 1) = vol[i] + Before(vol, i)
      BY <1>1, <3>1, BeforeNext
    <3>3. N \in 1 .. N
      BY <1>1
    <3> QED BY <3>2, <3>3
  <2>8. vol[N] = Volume(c[N]) /\ vol[N] \in Int /\ o[N] = Before(vol, N)
    BY <2>3, <2>4, <2>6, <2>7
  <2>9. d.dsize = Before(vol, N + 1)
    <3>1. d.dsize = o[N] + 1 * Volume(c[N])
      BY <1>3
    <3> QED BY <2>7, <2>8, <3>1
  <2> QED BY <1>3, <2>6, <2>9
<1> QED BY <1>1, <1>3, <1>5, <1>6, <1>7 DEF d, enc, body, Recovered

-----------------------------------------------------------------------------
(* Requests of the same words *)

\* The flags of a request depend on the numbers of blocks and of dimensions.
LEMMA RequestFlags ==
  ASSUME NEW dims \in Seq(Nat), NEW cfg, NEW sels, NEW r,
         Writes(dims, cfg, sels, r), "REC" \notin r.flags
  PROVE  /\ r.rec = <<>> /\ "SEL_REF" \notin r.flags
         /\ "MUL_SEL" \in r.flags <=> Len(sels) > 1
         /\ "SEL_ENCODE" \in r.flags <=>
              Len(sels) > 1 /\ Len(dims) > 1 /\ "SEL_ENCODE" \in cfg
<1>1. PICK dp : dp.dsteps = Steps(dims) /\ Len(dp.dims) = Len(dims)
                /\ r = Request(dp, cfg, sels)
  BY DEF Writes
<1>2. /\ r.rec = <<>> /\ "SEL_REF" \notin r.flags
      /\ "MUL_SEL" \in r.flags <=> Len(sels) > 1
      /\ "SEL_ENCODE" \in r.flags <=>
           Len(sels) > 1 /\ Len(dp.dims) - 0 > 1 /\ "SEL_ENCODE" \in cfg
  BY <1>1, RequestWords
<1>3. Len(dims) - 0 > 1 <=> Len(dims) > 1
  <2>1. Len(dims) \in Nat
    BY LenProperties
  <2> QED BY <2>1
<1> QED BY <1>1, <1>2, <1>3

\* The flags of a request of N blocks and n dimensions that are in its entry.
FlagsOf(flags, n, N, cfg) ==
  /\ "MUL_SEL" \in flags <=> N > 1
  /\ "SEL_ENCODE" \in flags <=> N > 1 /\ n > 1 /\ "SEL_ENCODE" \in cfg

\* Requests of the same words have as many blocks and dimensions.
LEMMA SameShape ==
  ASSUME NEW n1 \in Nat, NEW n2 \in Nat, NEW N1 \in Nat, NEW N2 \in Nat,
         n1 >= 1, n2 >= 1, N1 >= 1, N2 >= 1,
         NEW f1, NEW f2, NEW cfg,
         FlagsOf(f1, n1, N1, cfg), FlagsOf(f2, n2, N2, cfg),
         WordsIn(f1, n1, N1) = WordsIn(f2, n2, N2),
         N1 > 1 /\ N2 > 1 => N1 = N2
  PROVE  n1 = n2 /\ N1 = N2
<1> DEFINE S(f, n, N) == IF "SEL_ENCODE" \in f THEN N * 2 ELSE N * (n * 2)
           P(f, n) == VectorsAt(f, n) - 1
           s1 == S(f1, n1, N1)
           s2 == S(f2, n2, N2)
           p1 == P(f1, n1)
           p2 == P(f2, n2)
<1>1. p1 + s1 + s1 = p2 + s2 + s2
  BY DEF WordsIn
<1>0. /\ "MUL_SEL" \in f1 <=> N1 > 1
      /\ "SEL_ENCODE" \in f1 <=> N1 > 1 /\ n1 > 1 /\ "SEL_ENCODE" \in cfg
      /\ "MUL_SEL" \in f2 <=> N2 > 1
      /\ "SEL_ENCODE" \in f2 <=> N2 > 1 /\ n2 > 1 /\ "SEL_ENCODE" \in cfg
  BY DEF FlagsOf
<1>2. ASSUME NEW f, NEW n \in Nat, NEW N \in Nat, n >= 1, N >= 1,
             "MUL_SEL" \in f <=> N > 1,
             "SEL_ENCODE" \in f <=> N > 1 /\ n > 1 /\ "SEL_ENCODE" \in cfg
      PROVE  /\ S(f, n, N) \in Nat
             /\ N = 1 => P(f, n) = 0 /\ S(f, n, N) = n * 2
             /\ N > 1 /\ "SEL_ENCODE" \in f => P(f, n) = 1 + 2 * (n - 1) /\ S(f, n, N) = N * 2
             /\ N > 1 /\ "SEL_ENCODE" \notin f => P(f, n) = 1 /\ S(f, n, N) = N * (n * 2)
  <2>1. S(f, n, N) \in Nat
    BY <1>2
  <2>2. N = 1 => "SEL_ENCODE" \notin f /\ "MUL_SEL" \notin f
    BY <1>2
  <2>3. N > 1 => "MUL_SEL" \in f
    BY <1>2
  <2>4. "MUL_SEL" \notin f /\ "SEL_ENCODE" \notin f => P(f, n) = 0
    BY DEF VectorsAt, FirstWord
  <2>5. "MUL_SEL" \in f /\ "SEL_ENCODE" \in f => P(f, n) = 1 + 2 * (n - 1)
    BY DEF VectorsAt, FirstWord
  <2>6. "MUL_SEL" \in f /\ "SEL_ENCODE" \notin f => P(f, n) = 1
    BY DEF VectorsAt, FirstWord
  <2>7. 1 * (n * 2) = n * 2
    OBVIOUS
  <2> QED BY <2>1, <2>2, <2>3, <2>4, <2>5, <2>6, <2>7
<1> HIDE DEF S, P
<1>3. /\ s1 \in Nat
      /\ N1 = 1 => p1 = 0 /\ s1 = n1 * 2
      /\ N1 > 1 /\ "SEL_ENCODE" \in f1 => p1 = 1 + 2 * (n1 - 1) /\ s1 = N1 * 2
      /\ N1 > 1 /\ "SEL_ENCODE" \notin f1 => p1 = 1 /\ s1 = N1 * (n1 * 2)
  BY <1>0, <1>2
<1>4. /\ s2 \in Nat
      /\ N2 = 1 => p2 = 0 /\ s2 = n2 * 2
      /\ N2 > 1 /\ "SEL_ENCODE" \in f2 => p2 = 1 + 2 * (n2 - 1) /\ s2 = N2 * 2
      /\ N2 > 1 /\ "SEL_ENCODE" \notin f2 => p2 = 1 /\ s2 = N2 * (n2 * 2)
  BY <1>0, <1>2
<1> HIDE DEF s1, s2, p1, p2
<1>5. N1 > 1 <=> N2 > 1
  <2>1. N1 > 1 => \E k \in Nat : p1 = 1 + 2 * k
    <3>1. n1 - 1 \in Nat /\ 1 = 1 + 2 * 0
      OBVIOUS
    <3> QED BY <1>3, <3>1
  <2>2. N2 > 1 => \E k \in Nat : p2 = 1 + 2 * k
    <3>1. n2 - 1 \in Nat /\ 1 = 1 + 2 * 0
      OBVIOUS
    <3> QED BY <1>4, <3>1
  <2>3. ~(N1 > 1) => N1 = 1
    OBVIOUS
  <2>4. ~(N2 > 1) => N2 = 1
    OBVIOUS
  <2>5. ASSUME NEW k \in Nat, 0 + s1 + s1 = (1 + 2 * k) + s2 + s2 PROVE FALSE
    BY <1>3, <1>4, <2>5
  <2>6. ASSUME NEW k \in Nat, (1 + 2 * k) + s1 + s1 = 0 + s2 + s2 PROVE FALSE
    BY <1>3, <1>4, <2>6
  <2>7. ASSUME N1 > 1, ~(N2 > 1) PROVE FALSE
    <3>1. PICK k \in Nat : p1 = 1 + 2 * k
      BY <2>1, <2>7
    <3>2. p2 = 0
      BY <1>4, <2>4, <2>7
    <3> QED BY <1>1, <2>6, <3>1, <3>2
  <2>8. ASSUME N2 > 1, ~(N1 > 1) PROVE FALSE
    <3>1. PICK k \in Nat : p2 = 1 + 2 * k
      BY <2>2, <2>8
    <3>2. p1 = 0
      BY <1>3, <2>3, <2>8
    <3> QED BY <1>1, <2>5, <3>1, <3>2
  <2> QED BY <2>7, <2>8
<1>6. CASE N1 = 1
  <2>1. N2 = 1
    BY <1>5, <1>6
  <2> QED BY <1>1, <1>3, <1>4, <1>6, <2>1
<1>7. CASE N1 > 1
  <2>1. N2 = N1
    BY <1>5, <1>7
  <2>2. CASE "SEL_ENCODE" \in f1 /\ "SEL_ENCODE" \in f2
    BY <1>1, <1>3, <1>4, <1>7, <2>1, <2>2
  <2>3. CASE "SEL_ENCODE" \notin cfg
    <3>1. p1 = 1 /\ p2 = 1 /\ s1 = N1 * (n1 * 2) /\ s2 = N1 * (n2 * 2)
      BY <1>0, <1>3, <1>4, <1>7, <2>1, <2>3
    <3>2. s1 = s2
      BY <1>1, <1>3, <1>4, <3>1
    <3>3. n1 * N1 = n2 * N1
      <4>1. N1 * (n1 * 2) = 2 * (n1 * N1) /\ N1 * (n2 * 2) = 2 * (n2 * N1)
        OBVIOUS
      <4>2. n1 * N1 \in Int /\ n2 * N1 \in Int
        OBVIOUS
      <4> DEFINE x == n1 * N1
                 y == n2 * N1
      <4>3. 2 * x = 2 * y
        BY <3>1, <3>2, <4>1
      <4>4. x \in Int /\ y \in Int
        BY <4>2
      <4> HIDE DEF x, y
      <4>5. x = y
        BY <4>3, <4>4
      <4> QED BY <4>5 DEF x, y
    <3>4. n1 * N1 < n2 * N1 + N1 /\ n2 * N1 < n1 * N1 + N1
      <4> DEFINE x == n1 * N1
      <4>1. x \in Int
        OBVIOUS
      <4> HIDE DEF x
      <4>2. x < x + N1
        BY <4>1
      <4> QED BY <3>3, <4>2 DEF x
    <3>5. n1 = n2
      BY <3>4, NoMultiple
    <3> QED BY <2>1, <3>5
  <2>4. CASE "SEL_ENCODE" \in cfg /\ n1 = 1
    <3>1. p1 = 1 /\ s1 = N1 * (1 * 2)
      BY <1>0, <1>3, <1>7, <2>4
    <3>2. n2 > 1 => p2 = 1 + 2 * (n2 - 1) /\ s2 = N1 * 2
      BY <1>0, <1>4, <1>7, <2>1, <2>4
    <3>3. N1 * (1 * 2) = N1 * 2
      OBVIOUS
    <3>4. ~(n2 > 1)
      BY <1>1, <1>3, <1>4, <3>1, <3>2, <3>3
    <3> QED BY <2>1, <2>4, <3>4
  <2>5. CASE "SEL_ENCODE" \in cfg /\ n2 = 1
    <3>1. p2 = 1 /\ s2 = N1 * (1 * 2)
      BY <1>0, <1>4, <1>7, <2>1, <2>5
    <3>2. n1 > 1 => p1 = 1 + 2 * (n1 - 1) /\ s1 = N1 * 2
      BY <1>0, <1>3, <1>7, <2>5
    <3>3. N1 * (1 * 2) = N1 * 2
      OBVIOUS
    <3>4. ~(n1 > 1)
      BY <1>1, <1>3, <1>4, <3>1, <3>2, <3>3
    <3> QED BY <2>1, <2>5, <3>4
  <2> QED BY <1>0, <1>7, <2>1, <2>2, <2>3, <2>4, <2>5
<1> QED BY <1>6, <1>7

\* Every vector lies below the dimensions of the steps.
AllBelow(dims, sels) ==
  \A i \in DOMAIN sels : Below(sels[i].start, dims) /\ Below(sels[i].count, dims)

\* A request, not of a record, whose steps make its selection unambiguous.
Unambiguous(dims, cfg, sels, r) ==
  /\ dims \in Seq(Nat) /\ dims # <<>> /\ sels \in Seq(Blocks(Len(dims))) /\ sels # <<>>
  /\ Writes(dims, cfg, sels, r) /\ "REC" \notin r.flags /\ AllBelow(dims, sels)

\* Two requests with the same words, neither of a record, are of the same
\* selection, as far as the steps of each make it unambiguous.
LEMMA SameSelection ==
  ASSUME NEW cfg, NEW d1, NEW s1, NEW r1, NEW d2, NEW s2, NEW r2,
         Unambiguous(d1, cfg, s1, r1), Unambiguous(d2, cfg, s2, r2), r1.sel = r2.sel
  PROVE  s1 = s2
<1> DEFINE n1 == Len(d1)
           n2 == Len(d2)
           N1 == Len(s1)
           N2 == Len(s2)
           f1 == r1.flags \ {"SEL_DEFLATE"}
           f2 == r2.flags \ {"SEL_DEFLATE"}
           i1 == [ndim |-> n1]
           i2 == [ndim |-> n2]
<1>0. /\ d1 \in Seq(Nat) /\ d1 # <<>> /\ s1 \in Seq(Blocks(Len(d1))) /\ s1 # <<>>
      /\ Writes(d1, cfg, s1, r1) /\ "REC" \notin r1.flags /\ AllBelow(d1, s1)
      /\ d2 \in Seq(Nat) /\ d2 # <<>> /\ s2 \in Seq(Blocks(Len(d2))) /\ s2 # <<>>
      /\ Writes(d2, cfg, s2, r2) /\ "REC" \notin r2.flags /\ AllBelow(d2, s2)
  BY DEF Unambiguous
<1>1. /\ n1 \in Nat /\ n2 \in Nat /\ N1 \in Nat /\ N2 \in Nat
      /\ n1 >= 1 /\ n2 >= 1 /\ N1 >= 1 /\ N2 >= 1
      /\ DOMAIN s1 = 1 .. N1 /\ DOMAIN s2 = 1 .. N2
  <2>1. /\ n1 \in Nat /\ n2 \in Nat /\ N1 \in Nat /\ N2 \in Nat
        /\ DOMAIN s1 = 1 .. N1 /\ DOMAIN s2 = 1 .. N2
    BY <1>0, LenProperties
  <2>2. n1 # 0 /\ n2 # 0 /\ N1 # 0 /\ N2 # 0
    BY <1>0, EmptySeq
  <2> HIDE DEF n1, n2, N1, N2
  <2> QED BY <2>1, <2>2
<1>2. SameFlags(f1, r1) /\ SameFlags(f2, r2)
  BY DEF SameFlags
<1>3. i1.ndim = Len(d1) /\ i2.ndim = Len(d2)
  OBVIOUS
<1>4. /\ "MUL_SEL" \in r1.flags <=> Len(s1) > 1
      /\ "SEL_ENCODE" \in r1.flags <=> Len(s1) > 1 /\ Len(d1) > 1 /\ "SEL_ENCODE" \in cfg
  BY <1>0, RequestFlags
<1>5. /\ "MUL_SEL" \in r2.flags <=> Len(s2) > 1
      /\ "SEL_ENCODE" \in r2.flags <=> Len(s2) > 1 /\ Len(d2) > 1 /\ "SEL_ENCODE" \in cfg
  BY <1>0, RequestFlags
<1>6. FlagsOf(f1, n1, N1, cfg) /\ FlagsOf(f2, n2, N2, cfg)
  BY <1>4, <1>5 DEF FlagsOf
<1> HIDE DEF f1, f2, i1, i2
<1>7. Rereads(d1, s1, i1, f1, r1.sel) /\ Len(r1.sel) = WordsIn(f1, Len(d1), Len(s1))
  BY <1>0, <1>2, <1>3, RequestRead
<1>8. Rereads(d2, s2, i2, f2, r2.sel) /\ Len(r2.sel) = WordsIn(f2, Len(d2), Len(s2))
  BY <1>0, <1>2, <1>3, RequestRead
<1>9. N1 > 1 /\ N2 > 1 => N1 = N2
  <2>1. BlocksRead(f1, r1.sel) = N1 /\ BlocksRead(f2, r2.sel) = N2
    BY <1>7, <1>8 DEF Rereads
  <2>2. r1.sel # <<>>
    BY <1>7 DEF Rereads
  <2> HIDE DEF N1, N2
  <2>3. N1 > 1 => N1 = r1.sel[1]
    BY <1>6, <2>1, <2>2 DEF BlocksRead, FlagsOf
  <2>4. N2 > 1 => N2 = r2.sel[1]
    BY <1>6, <2>1, <2>2 DEF BlocksRead, FlagsOf
  <2> QED BY <2>3, <2>4
<1>10. n1 = n2 /\ N1 = N2
  <2>1. WordsIn(f1, n1, N1) = WordsIn(f2, n2, N2)
    BY <1>0, <1>7, <1>8
  <2> HIDE DEF n1, n2, N1, N2
  <2> QED BY <1>1, <1>6, <1>9, <2>1, SameShape
<1>11. /\ "SEL_ENCODE" \in f1 <=> "SEL_ENCODE" \in f2
       /\ "MUL_SEL" \in f1 <=> "MUL_SEL" \in f2
  <2> HIDE DEF n1, n2, N1, N2
  <2> QED BY <1>6, <1>10 DEF FlagsOf
<1>12. \A k : VectorRead(i1, f1, r1.sel, k) = VectorRead(i2, f2, r2.sel, k)
  <2>1. i1 = i2
    <3> HIDE DEF n1, n2
    <3> QED BY <1>10 DEF i1, i2
  <2>2. FirstWord(f1) = FirstWord(f2)
    BY <1>11 DEF FirstWord
  <2> QED BY <1>11, <2>1, <2>2 DEF VectorRead, StepsRead
<1>13. \A i \in 1 .. N1 : VectorRead(i1, f1, r1.sel, i - 1) = s1[i].start
                          /\ VectorRead(i1, f1, r1.sel, N1 + i - 1) = s1[i].count
  BY <1>0, <1>1, <1>7 DEF Rereads, AllBelow
<1>14. \A i \in 1 .. N2 : VectorRead(i2, f2, r2.sel, i - 1) = s2[i].start
                          /\ VectorRead(i2, f2, r2.sel, N2 + i - 1) = s2[i].count
  BY <1>0, <1>1, <1>8 DEF Rereads, AllBelow
<1>15. \A i \in 1 .. N1 : s1[i].start = s2[i].start /\ s1[i].count = s2[i].count
  <2> HIDE DEF N1, N2
  <2> QED BY <1>10, <1>12, <1>13, <1>14
<1>16. \A i \in 1 .. N1 : s1[i] \in Blocks(n1) /\ s2[i] \in Blocks(n2)
  <2>1. \A i \in 1 .. N1 : s1[i] \in Blocks(n1)
    BY <1>0, ElementOfSeq
  <2>2. \A i \in 1 .. N2 : s2[i] \in Blocks(n2)
    BY <1>0, ElementOfSeq
  <2> HIDE DEF N1, N2, n1, n2
  <2> QED BY <1>10, <2>1, <2>2
<1>17. \A i \in 1 .. N1 : s1[i] = s2[i]
  <2> HIDE DEF N1, n1, n2
  <2>1. ASSUME NEW a \in [start : Seq(Nat), count : Seq(Nat)],
               NEW b \in [start : Seq(Nat), count : Seq(Nat)],
               a.start = b.start, a.count = b.count
        PROVE  a = b
    <3>1. a = [start |-> a.start, count |-> a.count] /\ b = [start |-> b.start, count |-> b.count]
      OBVIOUS
    <3> QED BY <2>1, <3>1
  <2>2. \A i \in 1 .. N1 : /\ s1[i] \in [start : Seq(Nat), count : Seq(Nat)]
                           /\ s2[i] \in [start : Seq(Nat), count : Seq(Nat)]
    BY <1>16 DEF Blocks
  <2> SUFFICES ASSUME NEW i \in 1 .. N1 PROVE s1[i] = s2[i]
    OBVIOUS
  <2> DEFINE a == s1[i]
             b == s2[i]
  <2>3. /\ a \in [start : Seq(Nat), count : Seq(Nat)] /\ a.start = b.start
        /\ b \in [start : Seq(Nat), count : Seq(Nat)] /\ a.count = b.count
    BY <1>15, <2>2
  <2> HIDE DEF a, b
  <2>4. a = b
    BY <2>1, <2>3
  <2> QED BY <2>4 DEF a, b
<1> QED
  <2>1. Len(s1) = Len(s2)
    BY <1>10
  <2>2. \A i \in 1 .. Len(s1) : s1[i] = s2[i]
    BY <1>17
  <2>3. s1 \in Seq(Blocks(n1)) /\ s2 \in Seq(Blocks(n1))
    BY <1>0, <1>10
  <2> QED BY <2>1, <2>2, <2>3, SeqEqual

-----------------------------------------------------------------------------
(* The table of datasets *)

\* The table is complete in the session that creates the datasets and, after a
\* reopen, from the first dataset opened on; an open dataset is described.
TableComplete ==
  /\ session = 1 => Len(dsets) = NDsets
  /\ \A h \in Handles : IsOpen(h) =>
       /\ Len(dsets) = NDsets
       /\ dsets[handle[h].id].ndim = Len(handle[h].dims)
       /\ Len(dsets[handle[h].id].dims) = Len(handle[h].dims)

\* A closed file has no open datasets.
ClosedIdle == status = "closed" => \A h \in Handles : ~IsOpen(h)

IInv == TypeOK /\ TableComplete /\ ClosedIdle

-----------------------------------------------------------------------------
(* Sequences and entries *)

\* Appending keeps a sequence one over its own elements.
LEMMA AppendRange ==
  ASSUME NEW s, s \in Seq(Range(s)), NEW e
  PROVE  /\ Append(s, e) \in Seq(Range(Append(s, e)))
         /\ Range(Append(s, e)) = Range(s) \cup {e}
<1> DEFINE R == Range(s) \cup {e}
<1>1. s \in Seq(R) /\ e \in R
  BY SeqMonotonic
<1>2. Append(s, e) \in Seq(R) /\ Append(s, e) = s \o <<e>>
  BY <1>1, AppendProperties, AppendIsConcat
<1>3. Range(Append(s, e)) = Range(s) \cup Range(<<e>>)
  <2>1. <<e>> \in Seq(R)
    BY <1>1
  <2> HIDE DEF R
  <2> QED BY <2>1, <1>1, <1>2, RangeConcatenation
<1>4. Range(<<e>>) = {e}
  BY DEF Range
<1> QED BY <1>2, <1>3, <1>4

\* So does concatenating.
LEMMA ConcatRange ==
  ASSUME NEW s, s \in Seq(Range(s)), NEW t, t \in Seq(Range(t))
  PROVE  /\ s \o t \in Seq(Range(s \o t))
         /\ Range(s \o t) = Range(s) \cup Range(t)
<1> DEFINE R == Range(s) \cup Range(t)
<1>1. s \in Seq(R) /\ t \in Seq(R)
  BY SeqMonotonic
<1>2. s \o t \in Seq(R) /\ Range(s \o t) = R
  BY <1>1, ConcatProperties, RangeConcatenation
<1> QED BY <1>2

\* A function on 1 .. n is a sequence of length n over its own elements.
LEMMA FunctionIsSeq ==
  ASSUME NEW n \in Nat, NEW f, f = [i \in 1 .. n |-> f[i]]
  PROVE  f \in Seq(Range(f)) /\ Len(f) = n
<1>1. \A i \in 1 .. n : f[i] \in Range(f)
  BY DEF Range
<1> QED BY <1>1

\* Decoding ends in one of three ways.
LEMMA DecodeOutcome ==
  ASSUME NEW info, NEW flags, NEW body
  PROVE  Decode(info, flags, body).outcome \in {"ok", "error", "crash"}
<1>1. \A nsel : Outcome(info, flags, nsel) \in {"ok", "error", "crash"}
  BY DEF Outcome
<1> QED BY <1>1 DEF Decode

-----------------------------------------------------------------------------
(* The invariant *)

\* What the parts of a handle and a slot look like when they are made.
LEMMA MadeDescriptions ==
  ASSUME NEW dims \in Seq(Nat)
  PROVE  /\ DOMAIN Steps(dims) = DOMAIN dims
         /\ \A s : s.dims = dims =>
              /\ Described(s).ndim = Len(dims)
              /\ Described(s).dims = dims
BY DEF Steps, Described

\* The creating session begins with an empty file.
THEOREM IInvInit == Init => IInv
<1> SUFFICES ASSUME Init PROVE IInv
  OBVIOUS
<1> USE Parameters
<1>1. <<>> \in Seq(Spaces) /\ <<>> \in Seq(Seq(Nat)) /\ <<>> \in Seq(BOOLEAN)
      /\ <<>> \in Seq(Range(<<>>)) /\ Len(<<>>) = 0 /\ Range(<<>>) = {}
  BY DEF Range
<1>2. TypeOK
  <2>1. HandlesOK
    BY DEF Init, HandlesOK, IsOpen
  <2>2. DsetsOK
    BY <1>1 DEF Init, DsetsOK, NDsets
  <2>3. QueuesOK
    BY <1>1 DEF Init, QueuesOK
  <2>4. session \in 1 .. MaxSessions
    BY DEF Init
  <2> QED BY <1>1, <2>1, <2>2, <2>3, <2>4 DEF Init, TypeOK, NDsets
<1>3. TableComplete /\ ClosedIdle
  BY <1>1 DEF Init, TableComplete, ClosedIdle, NDsets, IsOpen
<1> QED BY <1>2, <1>3 DEF IInv

\* A new dataset gets the next slot of every table.
LEMMA CreateStep ==
  ASSUME IInv, NEW h \in Handles, NEW space \in Spaces, H5Dcreate(h, space)
  PROVE  IInv'
<1> USE Parameters
<1> DEFINE n == NDsets
<1>0. TypeOK /\ TableComplete /\ ClosedIdle
  BY DEF IInv
<1>1. n \in Nat /\ NDsets' = n + 1 /\ atts' \in Seq(Spaces) /\ atts'[n + 1] = space
      /\ \A i \in 1 .. n : atts'[i] = atts[i]
  BY <1>0, AppendProperties DEF TypeOK, NDsets, H5Dcreate
<1>2. space.dims \in Seq(Nat)
  OBVIOUS
<1>3. /\ handle'[h].id = n + 1 /\ handle'[h].dims = space.dims
      /\ handle'[h].dsteps = Steps(space.dims) /\ handle'[h].stepped = space.dims
      /\ \A g \in Handles : g # h => handle'[g] = handle[g]
      /\ DOMAIN handle' = Handles
  BY <1>0 DEF TypeOK, H5Dcreate
<1>4. /\ dsets' \in Seq(Range(dsets')) /\ Len(dsets') = n + 1
      /\ dsets'[n + 1] = Described(space)
      /\ \A i \in 1 .. n : dsets'[i] = dsets[i]
      /\ Len(dsets) = n
  <2>1. Len(dsets) = n /\ dsets \in Seq(Range(dsets))
    BY <1>0 DEF TypeOK, DsetsOK, TableComplete, H5Dcreate, Writable
  <2>2. dsets' = Append(dsets, Described(space))
    BY DEF H5Dcreate
  <2> DEFINE R == Range(dsets) \cup {Described(space)}
  <2>3. dsets \in Seq(R) /\ Described(space) \in R
    BY <2>1, SeqMonotonic
  <2> HIDE DEF R
  <2> QED BY <2>1, <2>2, <2>3, AppendRange, AppendProperties
<1> HIDE DEF n
<1>5. HandlesOK'
  <2> SUFFICES ASSUME NEW g \in Handles, IsOpen(g)'
               PROVE  /\ handle'[g].id \in 1 .. n + 1
                      /\ handle'[g].dims \in Seq(Nat)
                      /\ Len(handle'[g].dims) = Len(atts'[handle'[g].id].dims)
                      /\ DOMAIN handle'[g].dsteps = DOMAIN handle'[g].dims
                      /\ handle'[g].stepped \in Seq(Nat)
                      /\ Len(handle'[g].stepped) = Len(handle'[g].dims)
    BY <1>1 DEF HandlesOK
  <2>1. CASE g = h
    BY <2>1, <1>1, <1>2, <1>3, MadeDescriptions
  <2>2. CASE g # h
    <3>1. IsOpen(g)
      BY <2>2, <1>3 DEF IsOpen
    <3>2. handle'[g] = handle[g] /\ handle[g].id \in 1 .. n
      BY <3>1, <2>2, <1>0, <1>3 DEF TypeOK, HandlesOK, n
    <3>3. /\ handle[g].dims \in Seq(Nat)
          /\ Len(handle[g].dims) = Len(atts[handle[g].id].dims)
          /\ DOMAIN handle[g].dsteps = DOMAIN handle[g].dims
          /\ handle[g].stepped \in Seq(Nat) /\ Len(handle[g].stepped) = Len(handle[g].dims)
      BY <3>1, <1>0 DEF TypeOK, HandlesOK
    <3> HIDE DEF IsOpen
    <3> QED BY <3>2, <3>3, <1>1
  <2> QED BY <2>1, <2>2
<1>6. DsetsOK'
  <2> SUFFICES ASSUME NEW i \in 1 .. n + 1
               PROVE  \/ dsets'[i] = Blank
                      \/ dsets'[i].ndim = Len(atts'[i].dims)
                         /\ Len(dsets'[i].dims) = dsets'[i].ndim
    BY <1>1, <1>4 DEF DsetsOK, Blank
  <2>1. CASE i = n + 1
    BY <2>1, <1>1, <1>2, <1>4, MadeDescriptions
  <2>2. CASE i \in 1 .. n
    <3>1. i \in DOMAIN dsets /\ dsets'[i] = dsets[i] /\ atts'[i] = atts[i]
      BY <2>2, <1>0, <1>1, <1>4 DEF TypeOK, DsetsOK
    <3> QED BY <3>1, <1>0 DEF TypeOK, DsetsOK
  <2> QED BY <1>1, <2>1, <2>2
<1>7. QueuesOK'
  BY <1>0, <1>1 DEF TypeOK, QueuesOK, H5Dcreate, queue, n
<1>8. TypeOK'
  <2>1. extent' \in Seq(Seq(Nat)) /\ Len(extent') = n + 1
    BY <1>0, <1>2, AppendProperties DEF TypeOK, H5Dcreate, n
  <2>2. mreqs' \in Seq(BOOLEAN) /\ Len(mreqs') = n + 1
    <3>1. mreqs \in Seq(BOOLEAN) /\ Len(mreqs) = n /\ mreqs' = Append(mreqs, TRUE)
      BY <1>0 DEF TypeOK, H5Dcreate, n
    <3>2. TRUE \in BOOLEAN
      OBVIOUS
    <3> QED BY <3>1, <3>2, AppendProperties
  <2> QED BY <1>0, <1>1, <1>3, <1>5, <1>6, <1>7, <2>1, <2>2
             DEF TypeOK, H5Dcreate, queue, index
<1>9. TableComplete'
  <2> SUFFICES ASSUME NEW g \in Handles, IsOpen(g)'
               PROVE  /\ dsets'[handle'[g].id].ndim = Len(handle'[g].dims)
                      /\ Len(dsets'[handle'[g].id].dims) = Len(handle'[g].dims)
    BY <1>1, <1>4 DEF TableComplete
  <2>1. CASE g = h
    BY <2>1, <1>2, <1>3, <1>4, MadeDescriptions
  <2>2. CASE g # h
    <3>1. IsOpen(g) /\ handle'[g] = handle[g] /\ handle[g].id \in 1 .. n
      BY <2>2, <1>0, <1>3 DEF IsOpen, TypeOK, HandlesOK, n
    <3> QED BY <3>1, <1>0, <1>4 DEF TableComplete
  <2> QED BY <2>1, <2>2
<1>10. ClosedIdle'
  BY DEF ClosedIdle, H5Dcreate, Writable
<1> QED BY <1>8, <1>9, <1>10 DEF IInv

\* An opened dataset completes the table.
LEMMA OpenStep ==
  ASSUME IInv, NEW h \in Handles, NEW d \in 1 .. NDsets, H5Dopen(h, d)
  PROVE  IInv'
<1> USE Parameters
<1> DEFINE n == NDsets
<1>0. TypeOK /\ TableComplete /\ ClosedIdle
  BY DEF IInv
<1>1. n \in Nat /\ NDsets' = n /\ atts' = atts /\ atts[d].dims \in Seq(Nat)
  BY <1>0 DEF TypeOK, NDsets, H5Dopen, file
<1>2. /\ handle'[h].id = d /\ handle'[h].dims = atts[d].dims
      /\ handle'[h].dsteps = Steps(atts[d].dims) /\ handle'[h].stepped = atts[d].dims
      /\ \A g \in Handles : g # h => handle'[g] = handle[g]
      /\ DOMAIN handle' = Handles
  BY <1>0 DEF TypeOK, H5Dopen
<1>3. /\ dsets' \in Seq(Range(dsets')) /\ Len(dsets') = n
      /\ dsets'[d] = Described(atts[d])
      /\ \A i \in 1 .. n : i # d =>
           dsets'[i] = IF i \in DOMAIN dsets THEN dsets[i] ELSE Blank
  <2>1. dsets' = [i \in 1 .. n |-> IF i = d THEN Described(atts[d])
                    ELSE IF i \in DOMAIN dsets THEN dsets[i] ELSE Blank]
    BY DEF H5Dopen, Recorded, Grown
  <2>2. dsets' = [i \in 1 .. n |-> dsets'[i]]
    BY <2>1
  <2>3. dsets' \in Seq(Range(dsets')) /\ Len(dsets') = n
    BY <1>1, <2>2, FunctionIsSeq
  <2> QED BY <2>1, <2>3
<1>4. DOMAIN dsets = 1 .. Len(dsets)
  BY <1>0 DEF TypeOK, DsetsOK
<1> HIDE DEF n
<1>5. HandlesOK'
  <2> SUFFICES ASSUME NEW g \in Handles, IsOpen(g)'
               PROVE  /\ handle'[g].id \in 1 .. n
                      /\ handle'[g].dims \in Seq(Nat)
                      /\ Len(handle'[g].dims) = Len(atts[handle'[g].id].dims)
                      /\ DOMAIN handle'[g].dsteps = DOMAIN handle'[g].dims
                      /\ handle'[g].stepped \in Seq(Nat)
                      /\ Len(handle'[g].stepped) = Len(handle'[g].dims)
    BY <1>1 DEF HandlesOK
  <2>1. CASE g = h
    BY <2>1, <1>1, <1>2, MadeDescriptions DEF n
  <2>2. CASE g # h
    <3>1. IsOpen(g)
      BY <2>2, <1>2 DEF IsOpen
    <3> QED BY <3>1, <2>2, <1>0, <1>2 DEF TypeOK, HandlesOK, n
  <2> QED BY <2>1, <2>2
<1>6. DsetsOK'
  <2> SUFFICES ASSUME NEW i \in 1 .. n
               PROVE  \/ dsets'[i] = Blank
                      \/ dsets'[i].ndim = Len(atts[i].dims)
                         /\ Len(dsets'[i].dims) = dsets'[i].ndim
    BY <1>1, <1>3 DEF DsetsOK, Blank
  <2>1. CASE i = d
    BY <2>1, <1>1, <1>3, MadeDescriptions
  <2>2. CASE i # d
    BY <2>2, <1>0, <1>3 DEF TypeOK, DsetsOK
  <2> QED BY <2>1, <2>2
<1>7. QueuesOK'
  BY <1>0, <1>1 DEF TypeOK, QueuesOK, H5Dopen, queue, n
<1>8. TypeOK'
  <2>1. mreqs' \in Seq(BOOLEAN) /\ Len(mreqs') = n
    BY <1>0, ExceptSeq DEF TypeOK, H5Dopen, n
  <2> QED BY <1>0, <1>1, <1>2, <1>5, <1>6, <1>7, <2>1
             DEF TypeOK, H5Dopen, file, queue, index, n
<1>9. TableComplete'
  <2> SUFFICES ASSUME NEW g \in Handles, IsOpen(g)'
               PROVE  /\ dsets'[handle'[g].id].ndim = Len(handle'[g].dims)
                      /\ Len(dsets'[handle'[g].id].dims) = Len(handle'[g].dims)
    BY <1>1, <1>3 DEF TableComplete
  <2>1. CASE handle'[g].id = d
    <3>1. handle'[g].dims \in Seq(Nat) /\ Len(handle'[g].dims) = Len(atts[d].dims)
      BY <2>1, <1>1, <1>5 DEF HandlesOK
    <3> QED BY <3>1, <2>1, <1>1, <1>3, MadeDescriptions
  <2>2. CASE handle'[g].id # d
    <3>1. g # h /\ IsOpen(g) /\ handle'[g] = handle[g] /\ handle[g].id \in 1 .. n
      BY <2>2, <1>0, <1>2 DEF IsOpen, TypeOK, HandlesOK, n
    <3>2. Len(dsets) = n
      BY <3>1, <1>0 DEF TableComplete, n
    <3> QED BY <3>1, <3>2, <2>2, <1>0, <1>3, <1>4 DEF TableComplete
  <2> QED BY <2>1, <2>2
<1>10. ClosedIdle'
  BY DEF ClosedIdle, H5Dopen, file
<1> QED BY <1>8, <1>9, <1>10 DEF IInv

\* A new extent changes a description and no shape.
LEMMA ExtendStep ==
  ASSUME IInv, NEW h \in Handles, NEW dims \in Extents, H5Dset_extent(h, dims)
  PROVE  IInv'
<1> USE Parameters
<1> DEFINE n == NDsets
           dp == handle[h]
           bad(i) == dp.mdims[i] # Unlimited /\ dims[i] > dp.mdims[i]
           ok == \A i \in DOMAIN dims : ~bad(i)
           set == [i \in DOMAIN dims |->
                     IF \E j \in 1 .. i : bad(j) THEN dp.dims[i] ELSE dims[i]]
           seen == [i \in DOMAIN dims |->
                     IF \E j \in 1 .. i : bad(j) THEN dsets[dp.id].dims[i] ELSE dims[i]]
<1>0. TypeOK /\ TableComplete /\ ClosedIdle
  BY DEF IInv
<1>1. /\ handle' = [handle EXCEPT
           ![h].dims = set, ![h].dsteps = IF ok THEN Steps(set) ELSE @,
           ![h].stepped = IF ok THEN set ELSE @]
      /\ dsets' = [dsets EXCEPT ![dp.id].dims = seen]
      /\ extent' = IF ok THEN [extent EXCEPT ![dp.id] = dims] ELSE extent
      /\ IsOpen(h) /\ Len(dims) = Len(dp.dims) /\ dims \in Seq(Nat)
      /\ UNCHANGED <<session, config, status, atts, mreqs, queue, index>>
      /\ Writable
  BY DEF H5Dset_extent
<1>2. /\ dp.dims \in Seq(Nat) /\ dp.id \in 1 .. n /\ n \in Nat
      /\ DOMAIN dp.dsteps = DOMAIN dp.dims /\ Len(dp.dims) = Len(atts[dp.id].dims)
      /\ dp.stepped \in Seq(Nat) /\ Len(dp.stepped) = Len(dp.dims)
      /\ dsets \in Seq(Range(dsets)) /\ Len(dsets) = n
      /\ dsets[dp.id].ndim = Len(dp.dims) /\ Len(dsets[dp.id].dims) = Len(dp.dims)
      /\ DOMAIN handle = Handles
  <2> HIDE DEF set, seen, bad, ok
  <2>1. IsOpen(h)
    BY <1>1
  <2> QED BY <1>0, <1>1, <2>1 DEF TypeOK, HandlesOK, DsetsOK, TableComplete, NDsets
<1> HIDE DEF n
<1>a. Len(dims) = Len(dp.dims) /\ dims \in Seq(Nat) /\ DOMAIN dims = 1 .. Len(dims)
      /\ Len(dims) \in Nat
  <2>1. dims \in Seq(Nat) /\ Len(dims) = Len(dp.dims)
    BY <1>1
  <2> QED BY <2>1
<1>3. set \in Seq(Nat) /\ Len(set) = Len(dp.dims)
  <2>1. \A i \in 1 .. Len(dims) : dims[i] \in Nat
    BY <1>a, ElementOfSeq
  <2>2. \A i \in 1 .. Len(dims) : dp.dims[i] \in Nat
    <3> HIDE DEF dp
    <3> QED BY <1>a, <1>2, ElementOfSeq
  <2>3. DOMAIN dims = 1 .. Len(dims) /\ Len(dims) \in Nat
    BY <1>a
  <2>4. set \in [1 .. Len(dims) -> Nat]
    <3> HIDE DEF bad, dp
    <3> QED BY <2>1, <2>2, <2>3
  <2> HIDE DEF set, dp
  <2>5. set \in Seq(Nat)
    BY <2>3, <2>4
  <2>6. Len(set) = Len(dims)
    BY <2>3, <2>4, <2>5
  <2> QED BY <2>5, <2>6, <1>a
<1>4. Len(seen) = Len(dp.dims)
  <2>1. DOMAIN seen = 1 .. Len(dims) /\ Len(dims) \in Nat
    BY <1>a
  <2>2. seen = [i \in 1 .. Len(dims) |-> seen[i]]
    <3>1. DOMAIN dims = 1 .. Len(dims)
      BY <1>a
    <3> HIDE DEF bad
    <3> QED BY <3>1
  <2> HIDE DEF seen
  <2> QED BY <2>1, <2>2, <1>a, FunctionIsSeq
<1>5. DOMAIN set = DOMAIN dp.dims /\ DOMAIN Steps(set) = DOMAIN set
  <2> HIDE DEF set, dp
  <2> QED BY <1>2, <1>3, MadeDescriptions
<1> HIDE DEF set, seen, bad, ok
<1>6. /\ handle'[h].id = dp.id /\ handle'[h].dims = set
      /\ DOMAIN handle'[h].dsteps = DOMAIN set
      /\ handle'[h].stepped \in Seq(Nat) /\ Len(handle'[h].stepped) = Len(set)
      /\ \A g \in Handles : g # h => handle'[g] = handle[g]
      /\ DOMAIN handle' = Handles
  BY <1>1, <1>2, <1>3, <1>5
<1> HIDE DEF dp
<1>7. /\ dsets' \in Seq(Range(dsets')) /\ Len(dsets') = n
      /\ dsets'[dp.id].ndim = Len(dp.dims) /\ Len(dsets'[dp.id].dims) = Len(dp.dims)
      /\ \A i \in 1 .. n : i # dp.id => dsets'[i] = dsets[i]
  <2>1. DOMAIN dsets = 1 .. n
    BY <1>2
  <2>3. dsets' = [i \in 1 .. n |-> dsets'[i]]
    BY <1>1, <2>1
  <2>4. dsets' \in Seq(Range(dsets')) /\ Len(dsets') = n
    BY <1>2, <2>3, FunctionIsSeq
  <2>5. dsets'[dp.id] = [dsets[dp.id] EXCEPT !.dims = seen]
    BY <1>1, <1>2, <2>1
  <2>6. \A i \in 1 .. n : i # dp.id => dsets'[i] = dsets[i]
    BY <1>1, <2>1
  <2> QED BY <1>2, <1>4, <2>4, <2>5, <2>6
<1>8. HandlesOK'
  <2> SUFFICES ASSUME NEW g \in Handles, IsOpen(g)'
               PROVE  /\ handle'[g].id \in 1 .. n
                      /\ handle'[g].dims \in Seq(Nat)
                      /\ Len(handle'[g].dims) = Len(atts[handle'[g].id].dims)
                      /\ DOMAIN handle'[g].dsteps = DOMAIN handle'[g].dims
                      /\ handle'[g].stepped \in Seq(Nat)
                      /\ Len(handle'[g].stepped) = Len(handle'[g].dims)
    BY <1>1 DEF HandlesOK, NDsets, n
  <2>1. CASE g = h
    BY <2>1, <1>2, <1>3, <1>5, <1>6
  <2>2. CASE g # h
    <3>1. IsOpen(g)
      BY <2>2, <1>6 DEF IsOpen
    <3> QED BY <3>1, <2>2, <1>0, <1>6 DEF TypeOK, HandlesOK, n
  <2> QED BY <2>1, <2>2
<1>9. DsetsOK'
  <2> SUFFICES ASSUME NEW i \in 1 .. n
               PROVE  \/ dsets'[i] = Blank
                      \/ dsets'[i].ndim = Len(atts[i].dims)
                         /\ Len(dsets'[i].dims) = dsets'[i].ndim
    <3>1. NDsets' = n /\ atts' = atts
      BY <1>1 DEF NDsets, n
    <3>2. DOMAIN dsets' = 1 .. n
      BY <1>7, <1>2
    <3> QED BY <1>2, <1>7, <3>1, <3>2 DEF DsetsOK, Blank
  <2>1. CASE i = dp.id
    BY <2>1, <1>2, <1>7
  <2>2. CASE i # dp.id
    <3>1. i \in DOMAIN dsets /\ dsets'[i] = dsets[i]
      <4>1. Len(dsets) = n /\ dsets \in Seq(Range(dsets)) /\ n \in Nat
        BY <1>2
      <4>2. DOMAIN dsets = 1 .. n
        BY <4>1
      <4> QED BY <4>2, <2>2, <1>7
    <3> QED BY <3>1, <1>0 DEF TypeOK, DsetsOK
  <2> QED BY <2>1, <2>2
<1>10. QueuesOK'
  BY <1>0, <1>1 DEF TypeOK, QueuesOK, queue, NDsets
<1>11. extent' \in Seq(Seq(Nat)) /\ Len(extent') = n
  BY <1>0, <1>1, <1>2, ExceptSeq DEF TypeOK, n
<1>12. TypeOK'
  BY <1>0, <1>1, <1>6, <1>8, <1>9, <1>10, <1>11 DEF TypeOK, queue, index, n, NDsets
<1>13. TableComplete'
  <2> SUFFICES ASSUME NEW g \in Handles, IsOpen(g)'
               PROVE  /\ dsets'[handle'[g].id].ndim = Len(handle'[g].dims)
                      /\ Len(dsets'[handle'[g].id].dims) = Len(handle'[g].dims)
    BY <1>1, <1>7 DEF TableComplete, NDsets, n
  <2>1. Len(atts[handle'[g].id].dims) = Len(handle'[g].dims)
    BY <1>1, <1>8 DEF HandlesOK
  <2>2. CASE handle'[g].id = dp.id
    BY <2>1, <2>2, <1>2, <1>7
  <2>3. CASE handle'[g].id # dp.id
    <3>1. g # h /\ IsOpen(g) /\ handle'[g] = handle[g] /\ handle[g].id \in 1 .. n
      BY <2>3, <1>0, <1>6 DEF IsOpen, TypeOK, HandlesOK, n
    <3> QED BY <3>1, <2>3, <1>0, <1>7 DEF TableComplete
  <2> QED BY <2>2, <2>3
<1>14. ClosedIdle'
  BY <1>1 DEF ClosedIdle, Writable
<1> QED BY <1>12, <1>13, <1>14 DEF IInv

\* What is said of the tables stays true while they do.
LEMMA TablesStay ==
  ASSUME HandlesOK, DsetsOK, TableComplete, UNCHANGED <<session, atts, handle, dsets>>
  PROVE  HandlesOK' /\ DsetsOK' /\ TableComplete'
<1>1. NDsets' = NDsets /\ \A g \in Handles : IsOpen(g)' = IsOpen(g)
  BY DEF NDsets, IsOpen
<1>2. HandlesOK'
  BY <1>1 DEF HandlesOK
<1>3. DsetsOK'
  BY <1>1 DEF DsetsOK
<1>4. TableComplete'
  BY <1>1 DEF TableComplete
<1> QED BY <1>2, <1>3, <1>4

\* A handle is gone, or the process is.
LEMMA CloseStep ==
  ASSUME IInv, NEW h \in Handles, H5Dclose(h)
  PROVE  IInv'
<1> USE Parameters
<1>0. TypeOK /\ TableComplete /\ ClosedIdle
  BY DEF IInv
<1>1. UNCHANGED <<session, config, atts, extent, dsets, queue, index>> /\ NDsets' = NDsets
  BY DEF H5Dclose, file, table, NDsets
<1>2. QueuesOK'
  BY <1>0, <1>1 DEF TypeOK, QueuesOK, queue
<1>3. CASE /\ mreqs' = [mreqs EXCEPT ![handle[h].id] = FALSE]
           /\ handle' = [handle EXCEPT ![h] = None] /\ status' = status
  <2>1. \A g \in Handles : IsOpen(g)' => IsOpen(g) /\ handle'[g] = handle[g]
    BY <1>0, <1>3 DEF TypeOK, IsOpen
  <2>2. HandlesOK'
    BY <1>0, <1>1, <2>1 DEF TypeOK, HandlesOK
  <2>3. DsetsOK'
    BY <1>0, <1>1 DEF TypeOK, DsetsOK
  <2>4. mreqs' \in Seq(BOOLEAN) /\ Len(mreqs') = NDsets /\ DOMAIN handle' = Handles
    <3>1. handle[h].id \in 1 .. Len(mreqs)
      BY <1>0 DEF TypeOK, HandlesOK, H5Dclose
    <3>2. mreqs' \in Seq(BOOLEAN) /\ Len(mreqs') = Len(mreqs)
      BY <1>0, <1>3, <3>1, ExceptSeq DEF TypeOK
    <3> QED BY <1>0, <1>3, <3>2 DEF TypeOK
  <2>5. TypeOK'
    BY <1>0, <1>1, <1>2, <1>3, <2>2, <2>3, <2>4 DEF TypeOK, queue, index
  <2>6. TableComplete'
    BY <1>0, <1>1, <2>1 DEF TableComplete
  <2>7. ClosedIdle'
    BY <1>3 DEF ClosedIdle, H5Dclose
  <2> QED BY <2>5, <2>6, <2>7 DEF IInv
<1>4. CASE status' = "crashed" /\ UNCHANGED table
  <2>1. HandlesOK' /\ DsetsOK' /\ TableComplete'
    BY <1>0, <1>1, <1>4, TablesStay DEF TypeOK, table
  <2>2. TypeOK'
    BY <1>0, <1>1, <1>2, <1>4, <2>1 DEF TypeOK, queue, index, table
  <2>3. ClosedIdle'
    BY <1>4 DEF ClosedIdle
  <2> QED BY <2>1, <2>2, <2>3 DEF IInv
<1> QED BY <1>3, <1>4 DEF H5Dclose, file

\* A write queues an entry of its handle's dataset, or fails after it was
\* entered in the table.
LEMMA WriteOutcome ==
  ASSUME NEW h \in Handles, H5Dwrite(h)
  PROVE  \/ /\ stray' = stray
            /\ \E e : e.id = handle[h].id /\ wreqs' = Append(wreqs, e)
         \/ stray' = stray + 1 /\ wreqs' = wreqs
BY DEF H5Dwrite, Entry

\* Either keeps the types.
LEMMA WriteStep ==
  ASSUME IInv, NEW h \in Handles, H5Dwrite(h)
  PROVE  IInv'
<1>0. TypeOK /\ TableComplete /\ ClosedIdle
  BY DEF IInv
<1>1. UNCHANGED <<file, table, md, metadirty, index>> /\ NDsets' = NDsets /\ IsOpen(h)
  BY SMTT(20) DEF H5Dwrite, file, NDsets
<1>2. handle[h].id \in 1 .. NDsets
  BY <1>0, <1>1 DEF TypeOK, HandlesOK
<1>3. QueuesOK' /\ stray' \in Nat
  <2>1. CASE stray' = stray + 1 /\ wreqs' = wreqs
    BY <2>1, <1>0, <1>1 DEF TypeOK, QueuesOK
  <2>2. ASSUME NEW e, e.id = handle[h].id, wreqs' = Append(wreqs, e), stray' = stray
        PROVE  QueuesOK' /\ stray' \in Nat
    <3>1. wreqs \in Seq(Range(wreqs))
      BY <1>0 DEF TypeOK, QueuesOK
    <3>2. wreqs' \in Seq(Range(wreqs')) /\ Range(wreqs') = Range(wreqs) \cup {e}
      BY <2>2, <3>1, AppendRange
    <3> QED BY <1>0, <1>1, <1>2, <2>2, <3>2 DEF TypeOK, QueuesOK
  <2> QED BY <2>1, <2>2, WriteOutcome
<1>5. HandlesOK' /\ DsetsOK' /\ TableComplete'
  BY <1>0, <1>1, TablesStay DEF TypeOK, file, table
<1>6. TypeOK'
  BY <1>0, <1>1, <1>3, <1>5 DEF TypeOK, file, table, index
<1>7. ClosedIdle'
  BY <1>0, <1>1 DEF ClosedIdle, file, table, IsOpen
<1> QED BY <1>5, <1>6, <1>7 DEF IInv

\* A metadata flush moves the queued entries to the file.
LEMMA MetaflushQueues ==
  ASSUME QueuesOK, Metaflush, NDsets' = NDsets
  PROVE  QueuesOK' /\ metadirty' \in BOOLEAN /\ stray' \in Nat
<1>1. md' \in Seq(Range(md')) /\ Range(md') = Range(md) \cup Range(wreqs)
  BY ConcatRange DEF QueuesOK, Metaflush
<1>2. wreqs' \in Seq(Range(wreqs')) /\ Range(wreqs') = {} /\ metadirty' = FALSE
      /\ stray' = 0
  BY DEF Metaflush, Range
<1> QED BY <1>1, <1>2 DEF QueuesOK

\* Loading an index sets it, the result and the status.
LEMMA LoadTypes ==
  ASSUME NEW entries, LoadIndex(entries), Len(entries) \in Nat,
         status = "open"
  PROVE  /\ idxvalid' \in BOOLEAN /\ result' \in {"ok", "error", "crash"}
         /\ status' \in {"open", "crashed"}
<1> DEFINE decoded == [k \in 1 .. Len(entries) |->
             Decode(dsets[entries[k].id], entries[k].flags, entries[k].body)]
<1>1. PICK last \in 0 .. Len(entries) :
        /\ idxvalid' = (last = Len(entries))
        /\ result' = IF last = Len(entries) THEN "ok" ELSE decoded[last + 1].outcome
        /\ status' = IF result' = "crash" THEN "crashed" ELSE status
  BY DEF LoadIndex
<1>2. last # Len(entries) => decoded[last + 1].outcome \in {"ok", "error", "crash"}
  <2> SUFFICES ASSUME last # Len(entries)
               PROVE  decoded[last + 1].outcome \in {"ok", "error", "crash"}
    OBVIOUS
  <2>1. last + 1 \in 1 .. Len(entries)
    BY <1>1
  <2> QED BY <2>1, DecodeOutcome
<1> HIDE DEF decoded
<1>3. idxvalid' \in BOOLEAN
  BY <1>1
<1>4. result' \in {"ok", "error", "crash"}
  BY <1>1, <1>2
<1> QED BY <1>1, <1>3, <1>4

\* A data flush and a read leave the tables alone.
LEMMA FlushStep ==
  ASSUME IInv, H5Fflush
  PROVE  IInv'
<1>0. TypeOK /\ TableComplete /\ ClosedIdle
  BY DEF IInv
<1>1. UNCHANGED <<file, table, wreqs, hash, stray, md, index>> /\ NDsets' = NDsets
      /\ metadirty' = TRUE
  BY DEF H5Fflush, file, NDsets
<1>2. HandlesOK' /\ DsetsOK' /\ TableComplete'
  BY <1>0, <1>1, TablesStay DEF TypeOK, file, table
<1>3. QueuesOK'
  BY <1>0, <1>1 DEF TypeOK, QueuesOK
<1>4. TypeOK'
  BY <1>0, <1>1, <1>2, <1>3 DEF TypeOK, file, table, index
<1>5. ClosedIdle'
  BY <1>0, <1>1 DEF ClosedIdle, file, table, IsOpen
<1> QED BY <1>2, <1>4, <1>5 DEF IInv

\* A read moves the queued entries and loads the index.
LEMMA ReadStep ==
  ASSUME IInv, H5Dread
  PROVE  IInv'
<1>0. TypeOK /\ TableComplete /\ ClosedIdle
  BY DEF IInv
<1>1. UNCHANGED <<session, config, atts, extent, table>> /\ NDsets' = NDsets
      /\ status = "open"
  BY DEF H5Dread, NDsets
<1>2. HandlesOK' /\ DsetsOK' /\ TableComplete'
  BY <1>0, <1>1, TablesStay DEF TypeOK, table
<1>3. /\ QueuesOK' /\ stray' \in Nat /\ metadirty' \in BOOLEAN /\ idxvalid' \in BOOLEAN
      /\ result' \in {"ok", "error", "crash"} /\ status' \in {"open", "crashed"}
  <2>1. CASE result' = "ok" /\ UNCHANGED <<status, queue, idxvalid, idx>>
    BY <2>1, <1>0, <1>1 DEF TypeOK, QueuesOK, queue
  <2>2. CASE Metaflush /\ LoadIndex(md \o wreqs)
    <3>1. Len(md \o wreqs) \in Nat
      BY <1>0, ConcatRange, LenProperties DEF TypeOK, QueuesOK
    <3> QED BY <2>2, <1>0, <1>1, <3>1, LoadTypes, MetaflushQueues DEF TypeOK
  <2>3. CASE LoadIndex(md) /\ UNCHANGED queue
    <3>1. Len(md) \in Nat
      BY <1>0, LenProperties DEF TypeOK, QueuesOK
    <3>2. QueuesOK' /\ stray' \in Nat /\ metadirty' \in BOOLEAN
      BY <2>3, <1>0, <1>1 DEF TypeOK, QueuesOK, queue
    <3> QED BY <2>3, <1>1, <3>1, <3>2, LoadTypes
  <2> QED BY <2>1, <2>2, <2>3 DEF H5Dread
<1>4. TypeOK'
  BY <1>0, <1>1, <1>2, <1>3 DEF TypeOK, table
<1>5. ClosedIdle'
  BY <1>3 DEF ClosedIdle
<1> QED BY <1>2, <1>4, <1>5 DEF IInv

\* Closing the file needs that no dataset is open.
LEMMA FcloseStep ==
  ASSUME IInv, H5Fclose
  PROVE  IInv'
<1>0. TypeOK /\ TableComplete /\ ClosedIdle
  BY DEF IInv
<1>1. /\ UNCHANGED <<session, config, atts, extent, table, index>> /\ NDsets' = NDsets
      /\ status' = "closed" /\ \A h \in Handles : ~IsOpen(h)
  BY DEF H5Fclose, NDsets
<1>2. HandlesOK' /\ DsetsOK' /\ TableComplete'
  BY <1>0, <1>1, TablesStay DEF TypeOK, table
<1>3. QueuesOK' /\ stray' \in Nat /\ metadirty' \in BOOLEAN
  <2>1. CASE Metaflush
    BY <2>1, <1>0, <1>1, MetaflushQueues DEF TypeOK
  <2>2. CASE UNCHANGED queue
    BY <2>2, <1>0, <1>1 DEF TypeOK, QueuesOK, queue
  <2> QED BY <2>1, <2>2 DEF H5Fclose
<1>4. TypeOK'
  BY <1>0, <1>1, <1>2, <1>3 DEF TypeOK, table, index
<1>5. ClosedIdle'
  BY <1>1 DEF ClosedIdle, table, IsOpen
<1> QED BY <1>2, <1>4, <1>5 DEF IInv

\* A reopened file has an empty table, and no handle that would need a slot.
LEMMA FopenStep ==
  ASSUME IInv, H5Fopen
  PROVE  IInv'
<1> USE Parameters
<1>0. TypeOK /\ TableComplete /\ ClosedIdle
  BY DEF IInv
<1>1. /\ UNCHANGED <<config, atts, extent, handle, queue>> /\ NDsets' = NDsets
      /\ session' = session + 1 /\ session < MaxSessions
      /\ status' = "open" /\ status = "closed"
      /\ dsets' = <<>> /\ mreqs' = [d \in 1 .. NDsets |-> FALSE]
      /\ idxvalid' = FALSE /\ result' = "none"
  BY DEF H5Fopen, NDsets
<1>2. NDsets \in Nat /\ session \in 1 .. MaxSessions
  BY <1>0 DEF TypeOK, NDsets
<1>3. \A h \in Handles : ~IsOpen(h)'
  BY <1>0, <1>1 DEF ClosedIdle, IsOpen
<1>4. HandlesOK' /\ TableComplete' /\ ClosedIdle'
  <2>1. session' # 1
    BY <1>1, <1>2
  <2> QED BY <1>1, <1>3, <2>1 DEF HandlesOK, TableComplete, ClosedIdle
<1>5. DsetsOK'
  <2>1. <<>> \in Seq(Range(<<>>)) /\ Len(<<>>) = 0 /\ DOMAIN <<>> = {}
    OBVIOUS
  <2> QED BY <1>1, <1>2, <2>1 DEF DsetsOK
<1>6. QueuesOK'
  BY <1>0, <1>1 DEF TypeOK, QueuesOK, queue
<1>7. mreqs' \in Seq(BOOLEAN) /\ Len(mreqs') = NDsets
  <2>1. mreqs' \in [1 .. NDsets -> BOOLEAN]
    BY <1>1
  <2>2. mreqs' \in Seq(BOOLEAN)
    BY <2>1, <1>2
  <2> QED BY <2>1, <2>2, <1>2
<1>8. session' \in 1 .. MaxSessions
  BY <1>1, <1>2
<1>9. TypeOK'
  BY <1>0, <1>1, <1>4, <1>5, <1>6, <1>7, <1>8 DEF TypeOK, queue
<1> QED BY <1>4, <1>9 DEF IInv

\* The invariant is inductive.
THEOREM IInvNext == IInv /\ [Next]_vars => IInv'
<1> SUFFICES ASSUME IInv, [Next]_vars PROVE IInv'
  OBVIOUS
<1>1. CASE UNCHANGED vars
  <2>1. UNCHANGED <<file, table, queue, index>>
    BY <1>1 DEF vars
  <2>2. TypeOK /\ TableComplete /\ ClosedIdle
    BY DEF IInv
  <2>3. HandlesOK' /\ DsetsOK' /\ TableComplete' /\ NDsets' = NDsets
    BY <2>1, <2>2, TablesStay DEF TypeOK, file, table, NDsets
  <2>4. QueuesOK'
    BY <2>1, <2>2, <2>3 DEF TypeOK, QueuesOK, queue
  <2>5. TypeOK'
    BY <2>1, <2>2, <2>3, <2>4 DEF TypeOK, file, table, queue, index
  <2>6. ClosedIdle'
    BY <2>1, <2>2 DEF ClosedIdle, file, table, IsOpen
  <2> QED BY <2>3, <2>5, <2>6 DEF IInv
<1>2. ASSUME NEW h \in Handles, NEW s \in Spaces, H5Dcreate(h, s) PROVE IInv'
  BY <1>2, CreateStep
<1>3. ASSUME NEW h \in Handles, NEW d \in 1 .. NDsets, H5Dopen(h, d) PROVE IInv'
  BY <1>3, OpenStep
<1>4. ASSUME NEW h \in Handles, NEW dims \in Extents, H5Dset_extent(h, dims) PROVE IInv'
  BY <1>4, ExtendStep
<1>5. ASSUME NEW h \in Handles, H5Dclose(h) PROVE IInv'
  BY <1>5, CloseStep
<1>6. ASSUME NEW h \in Handles, H5Dwrite(h) PROVE IInv'
  BY <1>6, WriteStep
<1>7. CASE H5Fflush
  BY <1>7, FlushStep
<1>8. CASE H5Dread
  BY <1>8, ReadStep
<1>9. CASE H5Fclose
  BY <1>9, FcloseStep
<1>10. CASE H5Fopen
  BY <1>10, FopenStep
<1> QED BY <1>1, <1>2, <1>3, <1>4, <1>5, <1>6, <1>7, <1>8, <1>9, <1>10
           DEF Next, Finished

-----------------------------------------------------------------------------
(* What follows *)

\* Every variable of Datasets has its type, whatever the program asks for.
THEOREM TypeCorrect == Spec => []TypeOK
<1>1. IInv => TypeOK
  BY DEF IInv
<1> QED BY <1>1, IInvInit, IInvNext, PTL DEF Spec

\* Loading the index never looks behind the end of fp->dsets, although opening
\* a dataset fills one slot and the metadata names them all.
THEOREM TableCovers == Spec => []TableCoversEntries
<1>1. IInv => TableCoversEntries
  <2> SUFFICES ASSUME IInv, NEW h \in Handles, IsOpen(h), NEW e \in Range(md)
               PROVE  e.id \in DOMAIN dsets
    BY DEF TableCoversEntries
  <2>1. Len(dsets) = NDsets /\ dsets \in Seq(Range(dsets)) /\ e.id \in 1 .. NDsets
    BY DEF IInv, TypeOK, TableComplete, DsetsOK, QueuesOK
  <2> QED BY <2>1
<1> QED BY <1>1, IInvInit, IInvNext, PTL DEF Spec

-----------------------------------------------------------------------------
(* The entries *)

\* A handle's steps are those of the dimensions it last computed them from, and
\* the extent and the slot of a dataset have its rank.
HandleSteps ==
  \A h \in Handles : IsOpen(h) =>
    /\ DOMAIN handle[h] = {"id", "dims", "mdims", "dsteps", "stepped"}
    /\ handle[h].dsteps = Steps(handle[h].stepped)
ExtentShape == \A d \in 1 .. NDsets : Len(extent[d]) = Len(atts[d].dims)
Describes(info, n) == info.ndim = 0 \/ (info.ndim = n /\ info.esize = 1)
SlotsDescribe == \A d \in DOMAIN dsets : Describes(dsets[d], Len(atts[d].dims))
ShapesOK == HandleSteps /\ ExtentShape /\ SlotsDescribe

\* An entry keeps blocks of the rank of its dataset and, when the reader can
\* decode it, the flags and the words of a request of them.
Written(e) ==
  \E r : Writes(e.dims, config, e.sels, r) /\ e.flags = r.flags /\ e.body = r.sel
EntryOK(e) ==
  /\ e.dims \in Seq(Nat) /\ Len(e.dims) = Len(atts[e.id].dims) /\ e.dims # <<>>
  /\ e.sels \in Seq(Blocks(Len(e.dims))) /\ e.sels # <<>>
  /\ Plain(e) => Written(e)
EntriesOK == \A e \in Range(wreqs) \cup Range(md) : EntryOK(e)

\* A key of the table is the request of a queued entry that is no reference,
\* unless a write has failed between the table and the queue.
Keeps(j, key) ==
  "SEL_REF" \notin wreqs[j].flags /\ Writes(wreqs[j].dims, config, wreqs[j].sels, key)
KeysOK == stray = 0 => \A key \in hash : \E j \in DOMAIN wreqs : Keeps(j, key)

\* The index has entries of the file, decoded with a slot that was blank or
\* described the dataset.
Decoded(k) ==
  \E info : /\ Describes(info, Len(md[k].dims))
            /\ idx[k] = Decode(info, md[k].flags, md[k].body) /\ idx[k].outcome = "ok"
IndexOK == \A k \in DOMAIN idx : k \in DOMAIN md /\ Decoded(k)

EInv == IInv /\ ShapesOK /\ EntriesOK /\ KeysOK /\ IndexOK /\ ReferencesStayInFlush

\* The dimensions of a dataset of the file.
LEMMA AttShape ==
  ASSUME TypeOK, NEW d \in 1 .. NDsets
  PROVE  atts[d].dims \in Seq(Nat) /\ atts[d].dims # <<>>
<1>1. atts[d] \in Spaces
  BY ElementOfSeq DEF TypeOK, NDsets
<1> QED BY <1>1, Parameters

\* Steps that move entries about, or leave them alone, while no dataset goes.
AttsStay == \A d \in 1 .. NDsets : atts'[d] = atts[d]

\* Moving entries keeps what is said of them.
LEMMA EntriesStay ==
  ASSUME QueuesOK, EntriesOK, AttsStay, config' = config,
         Range(wreqs') \cup Range(md') \subseteq Range(wreqs) \cup Range(md)
  PROVE  EntriesOK'
<1> SUFFICES ASSUME NEW e \in Range(wreqs) \cup Range(md) PROVE EntryOK(e)'
  BY DEF EntriesOK
<1>1. EntryOK(e) /\ e.id \in 1 .. NDsets
  BY DEF EntriesOK, QueuesOK
<1>2. atts'[e.id] = atts[e.id]
  BY <1>1 DEF AttsStay
<1> QED BY <1>1, <1>2 DEF EntryOK, Written

\* The queue, the table and the index stay.
LEMMA QueueStays ==
  ASSUME KeysOK, ReferencesStayInFlush, UNCHANGED <<config, wreqs, hash, stray>>
  PROVE  KeysOK' /\ ReferencesStayInFlush'
<1>1. KeysOK'
  BY DEF KeysOK, Keeps
<1>2. ReferencesStayInFlush'
  BY DEF ReferencesStayInFlush, Fits, StartsFit, CountsFit
<1> QED BY <1>1, <1>2

\* The index stays while entries are added to the file.
LEMMA IndexStays ==
  ASSUME IndexOK, idx' = idx, DOMAIN md \subseteq DOMAIN md', \A k \in DOMAIN md : md'[k] = md[k]
  PROVE  IndexOK'
<1> SUFFICES ASSUME NEW k \in DOMAIN idx PROVE k \in DOMAIN md' /\ Decoded(k)'
  BY DEF IndexOK
<1>1. k \in DOMAIN md /\ Decoded(k)
  BY DEF IndexOK
<1>2. md'[k] = md[k]
  BY <1>1
<1> QED BY <1>1, <1>2 DEF Decoded

\* A metadata flush moves the queue to the file and empties the table.
LEMMA FlushedQueue ==
  ASSUME QueuesOK, Metaflush
  PROVE  /\ Range(wreqs') \cup Range(md') \subseteq Range(wreqs) \cup Range(md)
         /\ KeysOK' /\ ReferencesStayInFlush'
         /\ DOMAIN md \subseteq DOMAIN md' /\ \A k \in DOMAIN md : md'[k] = md[k]
<1>1. md \in Seq(Range(md) \cup Range(wreqs)) /\ wreqs \in Seq(Range(md) \cup Range(wreqs))
  BY SeqMonotonic DEF QueuesOK
<1>2. md' = md \o wreqs /\ wreqs' = <<>> /\ hash' = {}
  BY DEF Metaflush
<1>3. Range(md') = Range(md) \cup Range(wreqs) /\ Range(wreqs') = {}
  <2>1. Range(md') = Range(md) \cup Range(wreqs)
    BY <1>1, <1>2, RangeConcatenation
  <2>2. Range(<<>>) = {}
    BY DEF Range
  <2> QED BY <1>2, <2>1, <2>2
<1>4. DOMAIN md \subseteq DOMAIN md' /\ \A k \in DOMAIN md : md'[k] = md[k]
  <2> DEFINE R == Range(md) \cup Range(wreqs)
  <2>1. md \in Seq(R) /\ wreqs \in Seq(R)
    BY <1>1
  <2> HIDE DEF R
  <2>2. /\ Len(md \o wreqs) = Len(md) + Len(wreqs) /\ md \o wreqs \in Seq(R)
        /\ \A i \in 1 .. Len(md) + Len(wreqs) :
             (md \o wreqs)[i] = IF i <= Len(md) THEN md[i] ELSE wreqs[i - Len(md)]
    BY <2>1, ConcatProperties, Zenon
  <2>3. /\ DOMAIN md = 1 .. Len(md) /\ Len(md) \in Nat /\ Len(wreqs) \in Nat
        /\ DOMAIN (md \o wreqs) = 1 .. Len(md \o wreqs)
    BY <2>1, <2>2, LenProperties
  <2> QED BY <1>2, <2>2, <2>3
<1>5. KeysOK' /\ ReferencesStayInFlush'
  <2>1. DOMAIN wreqs' = {}
    BY <1>2
  <2> QED BY <1>2, <2>1 DEF KeysOK, ReferencesStayInFlush
<1> QED BY <1>3, <1>4, <1>5

-----------------------------------------------------------------------------
(* The shapes of handles, extents and slots *)

\* They hold while nothing is said of them, and when a handle goes.
LEMMA ShapesStay ==
  ASSUME ShapesOK, UNCHANGED <<atts, extent, dsets>>,
         \A g \in Handles : IsOpen(g)' => IsOpen(g) /\ handle'[g] = handle[g]
  PROVE  ShapesOK'
<1>1. NDsets' = NDsets
  BY DEF NDsets
<1> QED BY <1>1 DEF ShapesOK, HandleSteps, ExtentShape, SlotsDescribe

\* A new dataset has its own shape, and the others keep theirs.
LEMMA CreateShapes ==
  ASSUME IInv, ShapesOK, NEW h \in Handles, NEW space \in Spaces, H5Dcreate(h, space)
  PROVE  ShapesOK' /\ AttsStay
<1> DEFINE n == NDsets
<1>0. TypeOK /\ TableComplete
  BY DEF IInv
<1>1. /\ n \in Nat /\ NDsets' = n + 1
      /\ atts'[n + 1] = space /\ \A i \in 1 .. n : atts'[i] = atts[i]
  BY <1>0, AppendProperties DEF TypeOK, NDsets, H5Dcreate
<1>2. extent'[n + 1] = space.dims /\ \A i \in 1 .. n : extent'[i] = extent[i]
  <2>1. extent \in Seq(Seq(Nat)) /\ Len(extent) = n /\ space.dims \in Seq(Nat)
    BY <1>0, Parameters DEF TypeOK
  <2>2. extent' = Append(extent, space.dims)
    BY DEF H5Dcreate
  <2> HIDE DEF n
  <2> QED BY <2>1, <2>2, AppendProperties
<1>3. /\ DOMAIN dsets' = 1 .. n + 1 /\ DOMAIN dsets = 1 .. n
      /\ dsets'[n + 1] = Described(space)
      /\ \A i \in 1 .. n : dsets'[i] = dsets[i]
  <2>1. Len(dsets) = n /\ dsets \in Seq(Range(dsets))
    BY <1>0 DEF TypeOK, DsetsOK, TableComplete, H5Dcreate, Writable
  <2>2. dsets' = Append(dsets, Described(space))
    BY DEF H5Dcreate
  <2> DEFINE R == Range(dsets) \cup {Described(space)}
  <2>3. dsets \in Seq(R) /\ Described(space) \in R
    BY <2>1, SeqMonotonic
  <2> HIDE DEF R, n
  <2> QED BY <2>1, <2>2, <2>3, AppendProperties
<1>4. /\ handle'[h].dsteps = Steps(space.dims) /\ handle'[h].stepped = space.dims
      /\ DOMAIN handle'[h] = {"id", "dims", "mdims", "dsteps", "stepped"}
      /\ \A g \in Handles : g # h => handle'[g] = handle[g]
  BY <1>0 DEF TypeOK, H5Dcreate
<1>5. HandleSteps'
  BY <1>4 DEF ShapesOK, HandleSteps, IsOpen
<1> HIDE DEF n
<1>6. \A d \in 1 .. n + 1 : d = n + 1 \/ d \in 1 .. n
  BY <1>1
<1>7. ExtentShape'
  <2>1. \A d \in 1 .. n : Len(extent[d]) = Len(atts[d].dims)
    BY DEF ShapesOK, ExtentShape, n
  <2> QED BY <1>1, <1>2, <1>6, <2>1 DEF ExtentShape
<1>8. SlotsDescribe'
  <2>1. Describes(Described(space), Len(space.dims))
    BY DEF Describes, Described
  <2>2. \A d \in 1 .. n : Describes(dsets[d], Len(atts[d].dims))
    BY <1>3 DEF ShapesOK, SlotsDescribe
  <2>3. \A d \in 1 .. n + 1 : Describes(dsets'[d], Len(atts'[d].dims))
    BY <1>1, <1>3, <1>6, <2>1, <2>2
  <2> QED BY <1>3, <2>3 DEF SlotsDescribe, Describes
<1> QED BY <1>1, <1>5, <1>7, <1>8 DEF ShapesOK, AttsStay, n

\* An opened dataset has the shape of its attributes.
LEMMA OpenShapes ==
  ASSUME IInv, ShapesOK, NEW h \in Handles, NEW d \in 1 .. NDsets, H5Dopen(h, d)
  PROVE  ShapesOK'
<1> DEFINE n == NDsets
<1>0. TypeOK /\ TableComplete
  BY DEF IInv
<1>1. NDsets' = n /\ atts' = atts /\ extent' = extent
  BY DEF NDsets, H5Dopen, file
<1>2. /\ handle'[h].dsteps = Steps(atts[d].dims) /\ handle'[h].stepped = atts[d].dims
      /\ DOMAIN handle'[h] = {"id", "dims", "mdims", "dsteps", "stepped"}
      /\ \A g \in Handles : g # h => handle'[g] = handle[g]
  BY <1>0 DEF TypeOK, H5Dopen
<1>3. dsets' = [i \in 1 .. n |-> IF i = d THEN Described(atts[d])
                                 ELSE IF i \in DOMAIN dsets THEN dsets[i] ELSE Blank]
  BY DEF H5Dopen, Recorded, Grown
<1>4. HandleSteps'
  BY <1>2 DEF ShapesOK, HandleSteps, IsOpen
<1>5. ExtentShape'
  BY <1>1 DEF ShapesOK, ExtentShape
<1>6. SlotsDescribe'
  <2> SUFFICES ASSUME NEW i \in 1 .. n PROVE Describes(dsets'[i], Len(atts[i].dims))
    BY <1>1, <1>3 DEF SlotsDescribe, Describes
  <2>1. CASE i = d
    BY <1>3, <2>1 DEF Describes, Described
  <2>2. CASE i # d /\ i \in DOMAIN dsets
    <3>1. dsets'[i] = dsets[i] /\ Describes(dsets[i], Len(atts[i].dims))
      BY <1>3, <2>2 DEF ShapesOK, SlotsDescribe
    <3> QED BY <3>1
  <2>3. CASE i # d /\ i \notin DOMAIN dsets
    <3>1. dsets'[i] = Blank
      BY <1>3, <2>3
    <3>2. Blank.ndim = 0
      BY DEF Blank
    <3> QED BY <3>1, <3>2 DEF Describes
  <2> QED BY <2>1, <2>2, <2>3
<1> QED BY <1>4, <1>5, <1>6 DEF ShapesOK

\* A set_extent, successful or not, keeps steps and the dimensions they were
\* computed from together, and every rank.
LEMMA ExtendShapes ==
  ASSUME IInv, ShapesOK, NEW h \in Handles, NEW dims \in Extents, H5Dset_extent(h, dims)
  PROVE  ShapesOK'
<1> DEFINE dp == handle[h]
           bad(i) == dp.mdims[i] # Unlimited /\ dims[i] > dp.mdims[i]
           ok == \A i \in DOMAIN dims : ~bad(i)
           set == [i \in DOMAIN dims |->
                     IF \E j \in 1 .. i : bad(j) THEN dp.dims[i] ELSE dims[i]]
           seen == [i \in DOMAIN dims |->
                     IF \E j \in 1 .. i : bad(j) THEN dsets[dp.id].dims[i] ELSE dims[i]]
<1>0. TypeOK /\ TableComplete
  BY DEF IInv
<1>1. /\ handle' = [handle EXCEPT
           ![h].dims = set, ![h].dsteps = IF ok THEN Steps(set) ELSE @,
           ![h].stepped = IF ok THEN set ELSE @]
      /\ dsets' = [dsets EXCEPT ![dp.id].dims = seen]
      /\ extent' = IF ok THEN [extent EXCEPT ![dp.id] = dims] ELSE extent
      /\ IsOpen(h) /\ Len(dims) = Len(dp.dims) /\ atts' = atts
  BY DEF H5Dset_extent
<1>2. /\ dp.id \in 1 .. NDsets /\ Len(dp.dims) = Len(atts[dp.id].dims)
      /\ DOMAIN handle = Handles /\ NDsets' = NDsets
  <2> HIDE DEF set, seen, bad, ok
  <2> QED BY <1>0, <1>1 DEF TypeOK, HandlesOK, NDsets
<1> HIDE DEF set, seen, ok
<1>3. HandleSteps'
  <2> SUFFICES ASSUME NEW g \in Handles, IsOpen(g)'
               PROVE  /\ DOMAIN handle'[g] = {"id", "dims", "mdims", "dsteps", "stepped"}
                      /\ handle'[g].dsteps = Steps(handle'[g].stepped)
    BY DEF HandleSteps
  <2>1. CASE g # h
    <3>1. handle'[g] = handle[g]
      BY <1>1, <1>2, <2>1
    <3> QED BY <3>1 DEF ShapesOK, HandleSteps, IsOpen
  <2>2. CASE g = h
    <3> DEFINE q == IF ok THEN Steps(set) ELSE dp.dsteps
               z == IF ok THEN set ELSE dp.stepped
    <3>1. handle'[h] = [[[dp EXCEPT !.dims = set] EXCEPT !.dsteps = q] EXCEPT !.stepped = z]
      <4> HIDE DEF dp
      <4>1. handle'[h] = [dp EXCEPT !.dims = set, !.dsteps = IF ok THEN Steps(set) ELSE @,
                                    !.stepped = IF ok THEN set ELSE @]
        BY <1>1, <1>2 DEF dp
      <4> QED BY <4>1
    <3>2. DOMAIN dp = {"id", "dims", "mdims", "dsteps", "stepped"}
          /\ dp.dsteps = Steps(dp.stepped)
      BY <1>1 DEF ShapesOK, HandleSteps
    <3>3. q = Steps(z)
      BY <3>2
    <3> HIDE DEF q, z, dp
    <3>4. DOMAIN handle'[h] = DOMAIN dp /\ handle'[h].dsteps = q /\ handle'[h].stepped = z
      BY <3>1, <3>2
    <3> QED BY <3>2, <3>3, <3>4, <2>2
  <2> QED BY <2>1, <2>2
<1>4. ExtentShape'
  <2>1. \A i \in 1 .. NDsets : Len(extent[i]) = Len(atts[i].dims)
    BY DEF ShapesOK, ExtentShape
  <2>2. ASSUME NEW i \in 1 .. NDsets PROVE Len(extent'[i]) = Len(extent[i])
    <3>1. i \in DOMAIN extent
      BY <1>0 DEF TypeOK
    <3>2. extent'[i] = IF ok /\ i = dp.id THEN dims ELSE extent[i]
      BY <1>1, <3>1
    <3> QED BY <1>1, <1>2, <2>1, <3>2
  <2> QED BY <1>1, <1>2, <2>1, <2>2 DEF ExtentShape
<1>5. SlotsDescribe'
  <2> SUFFICES ASSUME NEW i \in DOMAIN dsets
               PROVE  Describes(dsets'[i], Len(atts[i].dims))
    BY <1>1 DEF SlotsDescribe, Describes
  <2>1. dsets'[i].ndim = dsets[i].ndim /\ dsets'[i].esize = dsets[i].esize
    <3>1. dsets'[i] = IF i = dp.id THEN [dsets[i] EXCEPT !.dims = seen] ELSE dsets[i]
      BY <1>1
    <3> QED BY <3>1
  <2>2. Describes(dsets[i], Len(atts[i].dims))
    BY DEF ShapesOK, SlotsDescribe
  <2> QED BY <2>1, <2>2 DEF Describes
<1> QED BY <1>3, <1>4, <1>5 DEF ShapesOK

-----------------------------------------------------------------------------
(* A write *)

\* A selection inside the extent of a dataset has blocks of its rank.
LEMMA SelectionBlocks ==
  ASSUME NEW dims, NEW sels \in Selections(dims)
  PROVE  sels \in Seq(Blocks(Len(dims)))
<1> USE Parameters
<1>1. /\ sels \in Selectable /\ sels \in Seq([start : Seq(Nat), count : Seq(Nat)])
      /\ \A b \in Range(sels) : Len(b.count) = Len(b.start) /\ Len(b.start) = Len(dims)
  BY DEF Selections
<1>2. \A i \in 1 .. Len(sels) : sels[i] \in Blocks(Len(dims))
  <2> SUFFICES ASSUME NEW i \in 1 .. Len(sels) PROVE sels[i] \in Blocks(Len(dims))
    OBVIOUS
  <2>1. sels[i] \in [start : Seq(Nat), count : Seq(Nat)] /\ i \in DOMAIN sels
    BY <1>1, ElementOfSeq, LenProperties
  <2>2. sels[i] \in Range(sels)
    BY <2>1 DEF Range
  <2> QED BY <1>1, <2>1, <2>2 DEF Blocks
<1>3. sels \in [1 .. Len(sels) -> Blocks(Len(dims))] /\ Len(sels) \in Nat
  <2>1. sels = [i \in 1 .. Len(sels) |-> sels[i]] /\ Len(sels) \in Nat
    BY <1>1, LenProperties
  <2> QED BY <1>2, <2>1
<1> QED BY <1>3, SeqOfFunction

\* The words of a record field.
LEMMA RecordField ==
  ASSUME NEW dp, NEW cfg, NEW sels, Len(sels) \in Nat,
         "REC" \in Request(dp, cfg, sels).flags
  PROVE  Len(Request(dp, cfg, sels).rec) = 2
<1> DEFINE rec == IsRecord(dp.mdims, sels)
           multi == Len(sels) > 1
           flags(encdim) == {f \in {"REC", "MUL_SEL", "SEL_ENCODE", "SEL_DEFLATE"} :
                   CASE f = "REC"         -> rec
                     [] f = "MUL_SEL"     -> multi
                     [] f = "SEL_ENCODE"  -> multi /\ encdim > 1 /\ f \in cfg
                     [] f = "SEL_DEFLATE" -> multi /\ f \in cfg}
           f == flags(Len(dp.dims) - (IF rec THEN 1 ELSE 0))
           r == Request(dp, cfg, sels)
<1> HIDE DEF rec
<1>1. r.flags = f /\ r.rec = IF rec THEN Longs(<<Len(sels)>>) ELSE <<>>
  BY DEF Request, rec
<1>2. rec
  BY <1>1
<1>3. Len(Longs(<<Len(sels)>>)) = Len(<<Len(sels)>>) * 2 /\ Len(<<Len(sels)>>) = 1
  <2>1. <<Len(sels)>> \in Seq(Int)
    OBVIOUS
  <2> QED BY <2>1, LongsWords
<1> HIDE DEF r, f
<1> QED BY <1>1, <1>2, <1>3 DEF r

\* The entry that a write queues.
LEMMA WrittenEntry ==
  ASSUME IInv, ShapesOK, NEW h \in Handles, H5Dwrite(h), stray' = stray
  PROVE  \E e : \E r :
           /\ wreqs' = Append(wreqs, e) /\ e.id = handle[h].id
           /\ EntryOK(e) /\ Writes(e.dims, config, e.sels, r)
           /\ \/ /\ "SEL_REF" \notin e.flags
                 /\ hash' = hash \/ hash' = hash \cup {r}
              \/ /\ "SEL_REF" \in e.flags /\ hash' = hash
                 /\ \E key \in hash : /\ key.sel = r.sel /\ Len(key.rec) = Len(r.rec)
                                      /\ "REC" \in r.flags => "REC" \in e.flags
<1> DEFINE dp == handle[h]
<1>0. TypeOK /\ IsOpen(h) /\ dp.id \in 1 .. NDsets
  BY DEF IInv, TypeOK, HandlesOK, H5Dwrite
<1>1. PICK sels \in Selections(extent[dp.id]) \ {<<>>}, shorter \in BOOLEAN :
        LET r == Request(dp, config, sels)
            same == {k \in hash : SameEntry(r, k)}
            shared == Shareable(r) /\ same # {}
            s == IF shared THEN Reference(r, CHOOSE k \in same : TRUE) ELSE r
        IN  /\ wreqs' = Append(wreqs, Entry(Compressed(s, shorter), dp, sels))
            /\ hash' = IF Shareable(r) /\ ~shared THEN hash \cup {r} ELSE hash
  <2>1. stray' # stray + 1
    BY <1>0 DEF TypeOK
  <2> QED BY <2>1 DEF H5Dwrite
<1> DEFINE r == Request(dp, config, sels)
           same == {k \in hash : SameEntry(r, k)}
           shared == Shareable(r) /\ same # {}
           key == CHOOSE k \in same : TRUE
           s == IF shared THEN Reference(r, key) ELSE r
           c == Compressed(s, shorter)
           e == Entry(c, dp, sels)
           n == Len(dp.stepped)
<1>2. /\ wreqs' = Append(wreqs, e)
      /\ hash' = IF Shareable(r) /\ ~shared THEN hash \cup {r} ELSE hash
  BY <1>1
<1>3. /\ dp.stepped \in Seq(Nat) /\ n = Len(atts[dp.id].dims) /\ Len(dp.dims) = n
      /\ dp.dsteps = Steps(dp.stepped) /\ Len(extent[dp.id]) = n
  BY <1>0 DEF TypeOK, HandlesOK, ShapesOK, HandleSteps, ExtentShape
<1>4. dp.stepped # <<>>
  <2>1. atts[dp.id].dims \in Seq(Nat) /\ atts[dp.id].dims # <<>>
    BY <1>0, AttShape
  <2>2. Len(atts[dp.id].dims) # 0
    BY <2>1, EmptySeq
  <2> HIDE DEF dp
  <2> QED BY <1>3, <2>2
<1>5. sels \in Seq(Blocks(n)) /\ sels # <<>>
  BY <1>3, SelectionBlocks
<1>6. Writes(dp.stepped, config, sels, r)
  BY <1>3 DEF Writes
<1> HIDE DEF r, dp, same, key
<1>7. /\ e.id = dp.id /\ e.flags = c.flags /\ e.body = c.rec \o c.sel
      /\ e.sels = sels /\ e.dims = dp.stepped
  BY DEF Entry
<1> HIDE DEF n, e
<1>8. "SEL_REF" \notin r.flags
  BY DEF r, Request
<1>9. CASE shared
  <2>1. key \in hash /\ key.sel = r.sel /\ Len(key.rec) = Len(r.rec)
    BY <1>9 DEF same, key, SameEntry
  <2>2. s = Reference(r, key) /\ "SEL_DEFLATE" \notin s.flags /\ "SEL_REF" \in s.flags
        /\ ("REC" \in r.flags => "REC" \in s.flags)
    BY <1>9 DEF Reference
  <2>3. c = s
    <3> HIDE DEF s
    <3> QED BY <2>2 DEF Compressed
  <2>4. "SEL_REF" \in e.flags /\ ("REC" \in r.flags => "REC" \in e.flags)
    <3> HIDE DEF s, c
    <3> QED BY <1>7, <2>2, <2>3
  <2>5. ~Plain(e)
    BY <2>4 DEF Plain
  <2>6. EntryOK(e)
    BY <1>3, <1>4, <1>5, <1>7, <2>5 DEF EntryOK, n
  <2>7. hash' = hash
    BY <1>2, <1>9
  <2> QED BY <1>2, <1>6, <1>7, <2>1, <2>4, <2>6, <2>7 DEF dp
<1>10. CASE ~shared
  <2>1. s = r
    BY <1>10
  <2>2. "SEL_REF" \notin c.flags
    <3> HIDE DEF s
    <3> QED BY <1>8, <2>1 DEF Compressed
  <2>3. hash' = hash \/ hash' = hash \cup {r}
    BY <1>2
  <2>4. "SEL_DEFLATE" \in r.flags => "SEL_DEFLATE" \in c.flags
    <3> HIDE DEF s
    <3> QED BY <2>1 DEF Compressed
  <2>5. "SEL_DEFLATE" \notin r.flags => c = r
    <3> HIDE DEF s
    <3> QED BY <2>1 DEF Compressed
  <2> HIDE DEF s, c, shared
  <2>6. Plain(e) => Written(e)
    <3> SUFFICES ASSUME Plain(e) PROVE Written(e)
      OBVIOUS
    <3>1. c = r /\ "REC" \notin r.flags
      BY <1>7, <2>4, <2>5 DEF Plain
    <3>2. r.rec = <<>>
      BY <1>3, <1>6, <3>1, RequestFlags
    <3>3. r.sel \in Seq(Int)
      <4> DEFINE info == [ndim |-> n]
                 flags == r.flags \ {"SEL_DEFLATE"}
      <4>1. info.ndim = Len(dp.stepped) /\ SameFlags(flags, r)
        BY DEF SameFlags, n
      <4>2. sels \in Seq(Blocks(Len(dp.stepped)))
        BY <1>5 DEF n
      <4> HIDE DEF info, flags
      <4>3. Rereads(dp.stepped, sels, info, flags, r.sel)
        BY <1>3, <1>4, <1>5, <1>6, <3>1, <4>1, <4>2, RequestRead
      <4> QED BY <4>3 DEF Rereads
    <3>4. e.body = r.sel
      BY <1>7, <3>1, <3>2, <3>3, ConcatEmptySeq
    <3> QED BY <1>6, <1>7, <3>1, <3>4 DEF Written
  <2>7. EntryOK(e)
    BY <1>3, <1>4, <1>5, <1>7, <2>6 DEF EntryOK, n
  <2> QED BY <1>2, <1>6, <1>7, <2>2, <2>3, <2>7 DEF dp
<1> QED BY <1>9, <1>10

\* Coordinates and counts that fit the steps of an entry are below them.
LEMMA FitsBelow ==
  ASSUME NEW e, NEW n, e.sels \in Seq(Blocks(n)), Fits(e)
  PROVE  AllBelow(e.dims, e.sels)
<1> SUFFICES ASSUME NEW i \in DOMAIN e.sels
             PROVE  Below(e.sels[i].start, e.dims) /\ Below(e.sels[i].count, e.dims)
  BY DEF AllBelow
<1>1. e.sels[i] \in Range(e.sels)
  BY DEF Range
<1> QED BY <1>1 DEF Fits, StartsFit, CountsFit, Below

\* The queue is kept by a write: the target of a reference is the entry whose
\* request is the key that was found.
LEMMA QueuedWrite ==
  ASSUME EInv, NEW h \in Handles, H5Dwrite(h), stray' = stray
  PROVE  EntriesOK' /\ KeysOK' /\ ReferencesStayInFlush'
<1>0. IInv /\ ShapesOK /\ EntriesOK /\ KeysOK /\ ReferencesStayInFlush /\ TypeOK /\ QueuesOK
  BY DEF EInv, IInv, TypeOK
<1>1. UNCHANGED <<file, table, md, metadirty, index>> /\ config' = config /\ atts' = atts
  BY DEF H5Dwrite, file
<1>2. PICK e, r :
        /\ wreqs' = Append(wreqs, e) /\ e.id = handle[h].id
        /\ EntryOK(e) /\ Writes(e.dims, config, e.sels, r)
        /\ \/ /\ "SEL_REF" \notin e.flags
              /\ hash' = hash \/ hash' = hash \cup {r}
           \/ /\ "SEL_REF" \in e.flags /\ hash' = hash
              /\ \E key \in hash : /\ key.sel = r.sel /\ Len(key.rec) = Len(r.rec)
                                   /\ "REC" \in r.flags => "REC" \in e.flags
  BY <1>0, WrittenEntry
<1> DEFINE N == Len(wreqs)
<1>3. /\ N \in Nat /\ DOMAIN wreqs = 1 .. N /\ DOMAIN wreqs' = 1 .. N + 1
      /\ wreqs'[N + 1] = e /\ \A j \in 1 .. N : wreqs'[j] = wreqs[j]
      /\ Range(wreqs') = Range(wreqs) \cup {e}
  <2>1. wreqs \in Seq(Range(wreqs))
    BY <1>0 DEF QueuesOK
  <2>2. Range(wreqs') = Range(wreqs) \cup {e}
    BY <1>2, <2>1, AppendRange
  <2> DEFINE R == Range(wreqs) \cup {e}
  <2>3. wreqs \in Seq(R) /\ e \in R
    BY <2>1, SeqMonotonic
  <2> HIDE DEF R
  <2>4. /\ wreqs' \in Seq(R) /\ Len(wreqs') = N + 1 /\ wreqs'[N + 1] = e
        /\ \A j \in 1 .. N : wreqs'[j] = wreqs[j]
    BY <1>2, <2>3, AppendProperties
  <2>5. DOMAIN wreqs = 1 .. N /\ N \in Nat /\ DOMAIN wreqs' = 1 .. N + 1
    BY <2>3, <2>4, LenProperties
  <2> QED BY <2>2, <2>4, <2>5
<1> HIDE DEF N
<1>4. EntriesOK'
  <2> SUFFICES ASSUME NEW x \in Range(wreqs') \cup Range(md') PROVE EntryOK(x)'
    BY DEF EntriesOK
  <2>1. EntryOK(x)
    BY <1>0, <1>1, <1>2, <1>3 DEF EntriesOK
  <2> QED BY <1>1, <2>1 DEF EntryOK, Written
<1>5. KeysOK'
  <2> SUFFICES ASSUME stray = 0, NEW key \in hash'
               PROVE  \E j \in DOMAIN wreqs' : Keeps(j, key)'
    BY DEF KeysOK
  <2>1. CASE key \in hash
    <3>1. PICK j \in 1 .. N : Keeps(j, key)
      BY <1>0, <1>3, <2>1 DEF KeysOK
    <3>2. j \in 1 .. N + 1 /\ wreqs'[j] = wreqs[j]
      BY <1>3
    <3> QED BY <1>1, <1>3, <3>1, <3>2 DEF Keeps
  <2>2. CASE key \notin hash
    <3>1. key = r /\ "SEL_REF" \notin e.flags
      BY <1>2, <2>2
    <3>2. N + 1 \in 1 .. N + 1
      BY <1>3
    <3> QED BY <1>1, <1>2, <1>3, <3>1, <3>2 DEF Keeps
  <2> QED BY <2>1, <2>2
<1>6. ASSUME stray = 0, NEW k \in 1 .. N + 1, "SEL_REF" \in wreqs'[k].flags, "REC" \notin wreqs'[k].flags
      PROVE  \E j \in 1 .. k - 1 :
               /\ "SEL_REF" \notin wreqs'[j].flags
               /\ Fits(wreqs'[j]) /\ Fits(wreqs'[k]) => wreqs'[j].sels = wreqs'[k].sels
  <2>1. CASE k \in 1 .. N
    <3>1. PICK j \in 1 .. k - 1 :
            /\ "SEL_REF" \notin wreqs[j].flags
            /\ Fits(wreqs[j]) /\ Fits(wreqs[k]) => wreqs[j].sels = wreqs[k].sels
      BY <1>0, <1>3, <1>6, <2>1 DEF ReferencesStayInFlush
    <3>2. j \in 1 .. N
      BY <1>3, <2>1
    <3>3. wreqs'[j] = wreqs[j] /\ wreqs'[k] = wreqs[k]
      BY <1>3, <2>1, <3>2
    <3> QED BY <3>1, <3>3
  <2>2. CASE k = N + 1
    <3>1. wreqs'[k] = e
      BY <1>3, <2>2
    <3>2. PICK key \in hash : key.sel = r.sel /\ Len(key.rec) = Len(r.rec)
                              /\ ("REC" \in r.flags => "REC" \in e.flags)
      BY <1>2, <1>6, <3>1
    <3>3. PICK j \in 1 .. N : Keeps(j, key)
      BY <1>0, <1>3, <1>6, <3>2 DEF KeysOK
    <3> DEFINE w == wreqs[j]
    <3>4. "SEL_REF" \notin w.flags /\ Writes(w.dims, config, w.sels, key)
      BY <3>3 DEF Keeps
    <3>5. EntryOK(w)
      <4>1. w \in Range(wreqs)
        BY <1>3 DEF Range
      <4> QED BY <1>0, <4>1 DEF EntriesOK
    <3>6. j \in 1 .. k - 1 /\ wreqs'[j] = w
      BY <1>3, <2>2
    <3> HIDE DEF w
    <3>7. "REC" \notin r.flags /\ r.rec = <<>>
      <4>1. "REC" \notin r.flags
        BY <1>6, <3>1, <3>2
      <4>2. e.dims \in Seq(Nat)
        BY <1>2 DEF EntryOK
      <4> QED BY <1>2, <4>1, <4>2, RequestFlags
    <3>8. "REC" \notin key.flags
      <4> SUFFICES ASSUME "REC" \in key.flags PROVE FALSE
        OBVIOUS
      <4>1. PICK dp : key = Request(dp, config, w.sels)
        BY <3>4 DEF Writes
      <4>2. Len(w.sels) \in Nat
        BY <3>5, LenProperties DEF EntryOK
      <4>3. Len(key.rec) = 2
        BY <4>1, <4>2, RecordField
      <4>4. Len(key.rec) = Len(r.rec) /\ Len(r.rec) = Len(<<>>) /\ Len(<<>>) = 0
        BY <3>2, <3>7
      <4>5. Len(key.rec) = 0
        BY <4>4, Zenon
      <4>6. 0 # 2
        OBVIOUS
      <4>7. 0 = 2
        BY <4>3, <4>5, Zenon
      <4> QED BY <4>6, <4>7
    <3>9. ASSUME Fits(w), Fits(e) PROVE w.sels = e.sels
      <4>1. /\ w.dims \in Seq(Nat) /\ w.dims # <<>>
            /\ w.sels \in Seq(Blocks(Len(w.dims))) /\ w.sels # <<>>
            /\ e.dims \in Seq(Nat) /\ e.dims # <<>>
            /\ e.sels \in Seq(Blocks(Len(e.dims))) /\ e.sels # <<>>
        BY <1>2, <3>5 DEF EntryOK
      <4>2. AllBelow(w.dims, w.sels) /\ AllBelow(e.dims, e.sels)
        BY <3>9, <4>1, FitsBelow
      <4>3. Writes(e.dims, config, e.sels, r) /\ key.sel = r.sel
        BY <1>2, <3>2
      <4>4. Unambiguous(w.dims, config, w.sels, key) /\ Unambiguous(e.dims, config, e.sels, r)
        BY <3>4, <3>7, <3>8, <4>1, <4>2, <4>3 DEF Unambiguous
      <4> QED BY <4>3, <4>4, SameSelection
    <3> QED BY <3>1, <3>4, <3>6, <3>9
  <2> QED BY <1>3, <2>1, <2>2
<1>7. ReferencesStayInFlush'
  BY <1>3, <1>6 DEF ReferencesStayInFlush, Fits, StartsFit, CountsFit
<1> QED BY <1>4, <1>5, <1>7

\* A write that fails behind the table queues nothing, and nothing is said of
\* the table any more.
LEMMA WriteQueue ==
  ASSUME EInv, NEW h \in Handles, H5Dwrite(h)
  PROVE  EntriesOK' /\ KeysOK' /\ ReferencesStayInFlush'
<1>1. CASE stray' = stray
  BY <1>1, QueuedWrite
<1>2. CASE stray' = stray + 1 /\ wreqs' = wreqs
  <2>1. QueuesOK /\ EntriesOK /\ stray \in Nat
    BY DEF EInv, IInv, TypeOK
  <2>2. UNCHANGED <<config, atts, md>>
    BY DEF H5Dwrite, file
  <2>3. EntriesOK'
    BY <1>2, <2>1, <2>2, EntriesStay DEF AttsStay
  <2>4. stray' # 0
    BY <1>2, <2>1
  <2> QED BY <2>3, <2>4 DEF KeysOK, ReferencesStayInFlush
<1> QED BY <1>1, <1>2, WriteOutcome

-----------------------------------------------------------------------------
(* Loading the index *)

\* What LoadIndex leaves in the index was decoded from the entries it was given.
LEMMA LoadedEntries ==
  ASSUME NEW entries, LoadIndex(entries), Len(entries) \in Nat
  PROVE  \A k \in DOMAIN idx' :
           /\ k \in 1 .. Len(entries)
           /\ idx'[k] = Decode(dsets[entries[k].id], entries[k].flags, entries[k].body)
           /\ idx'[k].outcome = "ok"
<1> DEFINE decoded == [k \in 1 .. Len(entries) |->
             Decode(dsets[entries[k].id], entries[k].flags, entries[k].body)]
<1>1. PICK last \in 0 .. Len(entries) :
        /\ \A k \in 1 .. last : decoded[k].outcome = "ok"
        /\ idx' = SubSeq(decoded, 1, last)
  BY DEF LoadIndex
<1>2. \A k \in 1 .. Len(entries) :
        decoded[k] = Decode(dsets[entries[k].id], entries[k].flags, entries[k].body)
  OBVIOUS
<1> DEFINE R == {decoded[k] : k \in 1 .. Len(entries)}
<1>3. \A k \in 1 .. Len(entries) : decoded[k] \in R
  OBVIOUS
<1> HIDE DEF decoded, R
<1>4. DOMAIN idx' = 1 .. last /\ \A k \in 1 .. last : idx'[k] = decoded[k]
  <2>1. 1 \in Int /\ last \in Int /\ last \in Nat /\ last <= Len(entries)
    OBVIOUS
  <2>2. \A k \in 1 .. last : decoded[k] \in R
    BY <1>3, <2>1
  <2>3. /\ SubSeq(decoded, 1, last) \in Seq(R)
        /\ Len(SubSeq(decoded, 1, last)) = IF 1 <= last THEN last - 1 + 1 ELSE 0
        /\ \A k \in 1 .. last - 1 + 1 : SubSeq(decoded, 1, last)[k] = decoded[1 + k - 1]
    BY <2>1, <2>2, SubSeqProperties
  <2>4. last - 1 + 1 = last /\ \A k \in 1 .. last : 1 + k - 1 = k
    BY <2>1
  <2>5. Len(idx') = last /\ idx' \in Seq(R)
    <3>1. ~(1 <= last) => last = 0
      BY <2>1
    <3>2. Len(SubSeq(decoded, 1, last)) = last
      BY <2>3, <2>4, <3>1
    <3> QED BY <1>1, <2>3, <3>2
  <2>6. DOMAIN idx' = 1 .. last
    BY <2>5, LenProperties
  <2> QED BY <1>1, <2>3, <2>4, <2>6
<1>5. \A k \in 1 .. last : k \in 1 .. Len(entries)
  OBVIOUS
<1> QED BY <1>1, <1>2, <1>4, <1>5

\* The slots of a read describe their datasets, so its index is as IndexOK has it.
LEMMA LoadedIndex ==
  ASSUME IInv, ShapesOK, EntriesOK', QueuesOK', NDsets' = NDsets, atts' = atts,
         NEW h \in Handles, IsOpen(h), LoadIndex(md'), DOMAIN md' = 1 .. Len(md'),
         Len(md') \in Nat
  PROVE  IndexOK'
<1> SUFFICES ASSUME NEW k \in DOMAIN idx' PROVE k \in DOMAIN md' /\ Decoded(k)'
  BY DEF IndexOK
<1>1. /\ k \in DOMAIN md' /\ idx'[k].outcome = "ok"
      /\ idx'[k] = Decode(dsets[md'[k].id], md'[k].flags, md'[k].body)
  BY LoadedEntries
<1> DEFINE e == md'[k]
<1>2. e \in Range(md')
  BY <1>1 DEF Range
<1>3. Len(e.dims) = Len(atts[e.id].dims) /\ e.id \in 1 .. NDsets
  BY <1>2 DEF EntriesOK, EntryOK, QueuesOK
<1>4. e.id \in DOMAIN dsets
  <2>1. Len(dsets) = NDsets /\ dsets \in Seq(Range(dsets))
    BY DEF IInv, TypeOK, DsetsOK, TableComplete
  <2>2. DOMAIN dsets = 1 .. NDsets
    BY <2>1, LenProperties
  <2> QED BY <1>3, <2>2
<1>5. Describes(dsets[e.id], Len(e.dims))
  BY <1>3, <1>4 DEF ShapesOK, SlotsDescribe
<1> QED BY <1>1, <1>5 DEF Decoded, Describes

\* A read flushes the queue, or leaves it, and loads the index from the file.
LEMMA ReadEntries ==
  ASSUME EInv, H5Dread
  PROVE  EntriesOK' /\ KeysOK' /\ IndexOK' /\ ReferencesStayInFlush'
<1>0. /\ IInv /\ IInv' /\ ShapesOK /\ EntriesOK /\ KeysOK /\ IndexOK
      /\ ReferencesStayInFlush /\ QueuesOK /\ QueuesOK'
  BY ReadStep DEF EInv, IInv, TypeOK
<1>1. /\ UNCHANGED <<session, config, atts, extent, table>> /\ NDsets' = NDsets
      /\ config' = config /\ atts' = atts /\ AttsStay
  BY DEF H5Dread, NDsets, AttsStay
<1>2. PICK h \in Handles : IsOpen(h)
  BY DEF H5Dread
<1>3. DOMAIN md' = 1 .. Len(md') /\ Len(md') \in Nat
  BY <1>0, LenProperties DEF QueuesOK
<1>4. CASE UNCHANGED <<status, queue, idxvalid, idx>>
  <2>1. UNCHANGED <<wreqs, hash, stray, md, idx>>
    BY <1>4 DEF queue
  <2> QED BY <1>0, <1>1, <2>1, EntriesStay, QueueStays, IndexStays
<1>5. CASE Metaflush /\ LoadIndex(md \o wreqs)
  <2>1. md' = md \o wreqs
    BY <1>5 DEF Metaflush
  <2>2. EntriesOK' /\ KeysOK' /\ ReferencesStayInFlush'
    BY <1>0, <1>1, <1>5, FlushedQueue, EntriesStay
  <2>3. LoadIndex(md')
    BY <1>5, <2>1 DEF LoadIndex
  <2> QED BY <1>0, <1>1, <1>2, <1>3, <2>2, <2>3, LoadedIndex
<1>6. CASE LoadIndex(md) /\ UNCHANGED queue
  <2>1. UNCHANGED <<wreqs, hash, stray, md>>
    BY <1>6 DEF queue
  <2>2. EntriesOK' /\ KeysOK' /\ ReferencesStayInFlush'
    BY <1>0, <1>1, <2>1, EntriesStay, QueueStays
  <2>3. LoadIndex(md')
    BY <1>6, <2>1 DEF LoadIndex
  <2> QED BY <1>0, <1>1, <1>2, <1>3, <2>2, <2>3, LoadedIndex
<1> QED BY <1>4, <1>5, <1>6 DEF H5Dread

-----------------------------------------------------------------------------
(* The invariant of the entries is inductive *)

\* The creating session begins without entries.
LEMMA EInvInit == Init => EInv
<1> SUFFICES ASSUME Init PROVE EInv
  OBVIOUS
<1>1. IInv
  BY IInvInit
<1>2. ShapesOK
  BY DEF Init, ShapesOK, HandleSteps, ExtentShape, SlotsDescribe, IsOpen, NDsets
<1>3. EntriesOK /\ KeysOK /\ IndexOK /\ ReferencesStayInFlush
  BY DEF Init, EntriesOK, KeysOK, IndexOK, ReferencesStayInFlush, Range
<1> QED BY <1>1, <1>2, <1>3 DEF EInv

\* Steps that leave the entries alone.
LEMMA QuietEntries ==
  ASSUME EInv, UNCHANGED <<config, queue, index>>, AttsStay
  PROVE  EntriesOK' /\ KeysOK' /\ IndexOK' /\ ReferencesStayInFlush'
<1>1. UNCHANGED <<config, wreqs, hash, stray, md, idx>>
  BY DEF queue, index
<1>2. QueuesOK /\ EntriesOK /\ KeysOK /\ IndexOK /\ ReferencesStayInFlush
  BY DEF EInv, IInv, TypeOK
<1> QED BY <1>1, <1>2, EntriesStay, QueueStays, IndexStays

\* Every step keeps it.
THEOREM EInvNext == EInv /\ [Next]_vars => EInv'
<1> SUFFICES ASSUME EInv, [Next]_vars PROVE EInv'
  OBVIOUS
<1>0. IInv /\ ShapesOK /\ IInv' /\ TypeOK /\ QueuesOK /\ EntriesOK /\ KeysOK /\ IndexOK
      /\ ReferencesStayInFlush
  BY IInvNext DEF EInv, IInv, TypeOK
<1>1. CASE UNCHANGED vars
  <2>1. /\ UNCHANGED <<config, queue, index>> /\ UNCHANGED <<atts, extent, dsets, handle>>
        /\ AttsStay
    BY <1>1 DEF vars, file, table, AttsStay
  <2>2. ShapesOK'
    BY <1>0, <2>1, ShapesStay DEF IsOpen
  <2> QED BY <1>0, <2>1, <2>2, QuietEntries DEF EInv
<1>2. ASSUME NEW h \in Handles, NEW s \in Spaces, H5Dcreate(h, s) PROVE EInv'
  <2>1. ShapesOK' /\ AttsStay
    BY <1>0, <1>2, CreateShapes
  <2>2. UNCHANGED <<config, queue, index>>
    BY <1>2 DEF H5Dcreate
  <2> QED BY <1>0, <2>1, <2>2, QuietEntries DEF EInv
<1>3. ASSUME NEW h \in Handles, NEW d \in 1 .. NDsets, H5Dopen(h, d) PROVE EInv'
  <2>1. ShapesOK'
    BY <1>0, <1>3, OpenShapes
  <2>2. UNCHANGED <<config, queue, index>> /\ AttsStay
    BY <1>3 DEF H5Dopen, file, AttsStay
  <2> QED BY <1>0, <2>1, <2>2, QuietEntries DEF EInv
<1>4. ASSUME NEW h \in Handles, NEW dims \in Extents, H5Dset_extent(h, dims) PROVE EInv'
  <2>1. ShapesOK'
    BY <1>0, <1>4, ExtendShapes
  <2>2. UNCHANGED <<config, queue, index>> /\ AttsStay
    BY <1>4 DEF H5Dset_extent, AttsStay
  <2> QED BY <1>0, <2>1, <2>2, QuietEntries DEF EInv
<1>5. ASSUME NEW h \in Handles, H5Dclose(h) PROVE EInv'
  <2>1. /\ UNCHANGED <<config, queue, index>> /\ UNCHANGED <<atts, extent, dsets>> /\ AttsStay
        /\ \/ handle' = [handle EXCEPT ![h] = None]
           \/ handle' = handle
    BY <1>5 DEF H5Dclose, file, table, AttsStay
  <2>2. ASSUME NEW g \in Handles, IsOpen(g)' PROVE IsOpen(g) /\ handle'[g] = handle[g]
    BY <1>0, <2>1, <2>2 DEF TypeOK, IsOpen
  <2>3. ShapesOK'
    BY <1>0, <2>1, <2>2, ShapesStay
  <2> QED BY <1>0, <2>1, <2>3, QuietEntries DEF EInv
<1>6. ASSUME NEW h \in Handles, H5Dwrite(h) PROVE EInv'
  <2>1. UNCHANGED <<atts, extent, dsets, handle>> /\ UNCHANGED <<md, idx>>
    BY <1>6 DEF H5Dwrite, file, table, index
  <2>2. ShapesOK'
    BY <1>0, <2>1, ShapesStay DEF IsOpen
  <2>3. IndexOK'
    BY <1>0, <2>1, IndexStays
  <2>4. EntriesOK' /\ KeysOK' /\ ReferencesStayInFlush'
    BY <1>6, WriteQueue
  <2> QED BY <1>0, <2>2, <2>3, <2>4 DEF EInv
<1>7. CASE H5Fflush
  <2>1. /\ UNCHANGED <<config, wreqs, hash, stray, md, idx>> /\ UNCHANGED <<atts, extent, dsets, handle>>
        /\ AttsStay
    BY <1>7 DEF H5Fflush, file, table, index, AttsStay
  <2>2. ShapesOK'
    BY <1>0, <2>1, ShapesStay DEF IsOpen
  <2>3. EntriesOK' /\ KeysOK' /\ IndexOK' /\ ReferencesStayInFlush'
    BY <1>0, <2>1, EntriesStay, QueueStays, IndexStays
  <2> QED BY <1>0, <2>2, <2>3 DEF EInv
<1>8. CASE H5Dread
  <2>1. UNCHANGED <<atts, extent, dsets, handle>>
    BY <1>8 DEF H5Dread, table
  <2>2. ShapesOK'
    BY <1>0, <2>1, ShapesStay DEF IsOpen
  <2> QED BY <1>0, <1>8, <2>2, ReadEntries DEF EInv
<1>9. CASE H5Fclose
  <2>1. /\ UNCHANGED <<config, idx>> /\ UNCHANGED <<atts, extent, dsets, handle>> /\ AttsStay
    BY <1>9 DEF H5Fclose, table, index, AttsStay
  <2>2. ShapesOK'
    BY <1>0, <2>1, ShapesStay DEF IsOpen
  <2>3. CASE Metaflush
    <3>1. EntriesOK' /\ KeysOK' /\ ReferencesStayInFlush' /\ IndexOK'
      BY <1>0, <2>1, <2>3, FlushedQueue, EntriesStay, IndexStays
    <3> QED BY <1>0, <2>2, <3>1 DEF EInv
  <2>4. CASE UNCHANGED queue
    <3>1. UNCHANGED <<wreqs, hash, stray, md>>
      BY <2>4 DEF queue
    <3>2. EntriesOK' /\ KeysOK' /\ ReferencesStayInFlush' /\ IndexOK'
      BY <1>0, <2>1, <3>1, QueueStays, EntriesStay, IndexStays
    <3> QED BY <1>0, <2>2, <3>2 DEF EInv
  <2> QED BY <1>9, <2>3, <2>4 DEF H5Fclose
<1>10. CASE H5Fopen
  <2>1. /\ UNCHANGED <<config, wreqs, hash, stray, md>> /\ UNCHANGED <<atts, extent, handle>> /\ AttsStay
        /\ dsets' = <<>> /\ idx' = <<>> /\ status = "closed" /\ NDsets' = NDsets
    BY <1>10 DEF H5Fopen, queue, AttsStay, NDsets
  <2>2. EntriesOK' /\ KeysOK' /\ ReferencesStayInFlush'
    BY <1>0, <2>1, QueueStays, EntriesStay
  <2>3. IndexOK'
    BY <2>1 DEF IndexOK
  <2>4. ShapesOK'
    BY <1>0, <2>1 DEF ShapesOK, HandleSteps, ExtentShape, SlotsDescribe, IsOpen
  <2> QED BY <1>0, <2>2, <2>3, <2>4 DEF EInv
<1> QED BY <1>1, <1>2, <1>3, <1>4, <1>5, <1>6, <1>7, <1>8, <1>9, <1>10
           DEF Next, Finished

-----------------------------------------------------------------------------
(* What the reader gets back *)

\* An entry of the index that the reader can decode and whose dataset it knows
\* was decoded with the description of its dataset, from a request of its
\* blocks.
LEMMA DecodedEntry ==
  ASSUME EInv, NEW k \in DOMAIN idx, Plain(md[k]), Known(k)
  PROVE  \E info, r :
           LET e == md[k]
           IN  /\ EntryOK(e) /\ info.ndim = Len(e.dims) /\ info.esize = 1
               /\ Writes(e.dims, config, e.sels, r) /\ "REC" \notin r.flags
               /\ SameFlags(e.flags, r) /\ idx[k] = Decode(info, e.flags, r.sel)
<1> DEFINE e == md[k]
<1>1. k \in DOMAIN md /\ EntryOK(e)
  <2>1. k \in DOMAIN md
    BY DEF EInv, IndexOK
  <2>2. md[k] \in Range(md)
    BY <2>1 DEF Range
  <2> QED BY <2>1, <2>2 DEF EInv, EntriesOK
<1>2. PICK info : /\ Describes(info, Len(e.dims))
                  /\ idx[k] = Decode(info, e.flags, e.body) /\ idx[k].outcome = "ok"
  BY DEF EInv, IndexOK, Decoded
<1>3. PICK r : Writes(e.dims, config, e.sels, r) /\ e.flags = r.flags /\ e.body = r.sel
  BY <1>1 DEF EntryOK, Written
<1> HIDE DEF e
<1>4. "REC" \notin r.flags /\ SameFlags(e.flags, r)
  BY <1>3 DEF Plain, SameFlags, e
<1>5. info.ndim # 0
  <2> SUFFICES ASSUME info.ndim = 0 PROVE FALSE
    OBVIOUS
  <2> DEFINE other == [ndim |-> Len(e.dims)]
             N == Len(e.sels)
  <2>1. /\ e.dims \in Seq(Nat) /\ e.dims # <<>>
        /\ e.sels \in Seq(Blocks(Len(e.dims))) /\ e.sels # <<>>
    BY <1>1 DEF EntryOK
  <2>2. N \in Nat /\ N # 0
    BY <2>1, LenProperties, EmptySeq
  <2>3. other.ndim = Len(e.dims)
    OBVIOUS
  <2> HIDE DEF other
  <2>4. Rereads(e.dims, e.sels, other, e.flags, r.sel)
    BY <1>3, <1>4, <2>1, <2>3, RequestRead
  <2>5. BlocksRead(e.flags, e.body) = N
    BY <1>3, <2>4 DEF Rereads
  <2> HIDE DEF N
  <2>6. Outcome(info, e.flags, N) = "ok"
    <3>1. Outcome(info, e.flags, BlocksRead(e.flags, e.body)) # "ok" =>
            Decode(info, e.flags, e.body).outcome # "ok"
      BY DEF Decode, BlocksRead
    <3> QED BY <1>2, <2>5, <3>1
  <2>7. "SEL_ENCODE" \notin e.flags
    BY <2>6 DEF Outcome
  <2>8. DOMAIN idx[k].sels = 1 .. N
        /\ \A i \in 1 .. N : idx[k].sels[i].start = VectorRead(info, e.flags, e.body, i - 1)
    BY <1>2, <2>5, <2>6, DecodeParts
  <2>9. 1 \in 1 .. N
    BY <2>2
  <2>10. idx[k].sels[1] \in Range(idx[k].sels)
    BY <2>8, <2>9 DEF Range
  <2>11. Len(idx[k].sels[1].start) = Len(e.dims)
    BY <2>10 DEF Known, e
  <2>12. VectorRead(info, e.flags, e.body, 1 - 1) = <<>>
    <3>1. 1 .. 0 = {}
      OBVIOUS
    <3> DEFINE v == VectorRead(info, e.flags, e.body, 1 - 1)
    <3>2. DOMAIN v = {} /\ v = [i \in {} |-> v[i]]
      BY <2>7, <3>1 DEF VectorRead
    <3> HIDE DEF v
    <3>3. v = <<>>
      BY <3>2
    <3> QED BY <3>3 DEF v
  <2>13. Len(e.dims) = 0
    BY <2>8, <2>9, <2>11, <2>12
  <2> QED BY <2>1, <2>13, EmptySeq
<1>6. info.ndim = Len(e.dims) /\ info.esize = 1
  BY <1>2, <1>5 DEF Describes
<1> QED BY <1>1, <1>2, <1>3, <1>4, <1>6 DEF e

\* Starts and counts that fit are below the dimensions.
LEMMA PartsBelow ==
  ASSUME NEW e, NEW n, e.sels \in Seq(Blocks(n))
  PROVE  \A i \in DOMAIN e.sels : /\ StartsFit(e) => Below(e.sels[i].start, e.dims)
                                  /\ CountsFit(e) => Below(e.sels[i].count, e.dims)
<1> SUFFICES ASSUME NEW i \in DOMAIN e.sels
             PROVE  /\ StartsFit(e) => Below(e.sels[i].start, e.dims)
                    /\ CountsFit(e) => Below(e.sels[i].count, e.dims)
  OBVIOUS
<1>1. e.sels[i] \in Range(e.sels)
  BY DEF Range
<1> QED BY <1>1 DEF StartsFit, CountsFit, Below

\* Whatever was extended, opened and closed between the write and the read, the
\* index has the selection that was written: H5VL_log_wreq_t and
\* H5VL_logi_metaentry_decode are inverse as far as the steps of the writing
\* handle make the encoding unambiguous.
THEOREM RoundTrip == Spec => []SelectionsRecovered
<1>1. EInv => SelectionsRecovered
  <2> SUFFICES ASSUME EInv, NEW k \in DOMAIN idx, Plain(md[k]), Known(k),
                      "SEL_ENCODE" \in md[k].flags => Fits(md[k])
               PROVE  /\ Starts(idx[k].sels) = Starts(md[k].sels)
                      /\ Counts(idx[k].sels) = Counts(md[k].sels)
    BY DEF SelectionsRecovered
  <2> DEFINE e == md[k]
  <2>1. PICK info, r : /\ EntryOK(e) /\ info.ndim = Len(e.dims) /\ info.esize = 1
                       /\ Writes(e.dims, config, e.sels, r) /\ "REC" \notin r.flags
                       /\ SameFlags(e.flags, r) /\ idx[k] = Decode(info, e.flags, r.sel)
    BY DecodedEntry
  <2>2. /\ e.dims \in Seq(Nat) /\ e.dims # <<>>
        /\ e.sels \in Seq(Blocks(Len(e.dims))) /\ e.sels # <<>>
    BY <2>1 DEF EntryOK
  <2>3. "SEL_ENCODE" \in e.flags => StartsFit(e) /\ CountsFit(e)
    BY DEF Fits
  <2> HIDE DEF e
  <2>4. \A i \in DOMAIN e.sels : "SEL_ENCODE" \in e.flags =>
          Below(e.sels[i].start, e.dims) /\ Below(e.sels[i].count, e.dims)
    BY <2>2, <2>3, PartsBelow
  <2>5. /\ DOMAIN idx[k].sels = DOMAIN e.sels
        /\ \A i \in DOMAIN e.sels :
             /\ ("SEL_ENCODE" \in e.flags => Below(e.sels[i].start, e.dims)) =>
                  idx[k].sels[i].start = e.sels[i].start
             /\ ("SEL_ENCODE" \in e.flags => Below(e.sels[i].count, e.dims)) =>
                  idx[k].sels[i].count = e.sels[i].count
    <3>1. Recovered(e.dims, e.sels, e.flags, idx[k])
      BY <2>1, <2>2, DecodedRequest
    <3> QED BY <3>1 DEF Recovered
  <2>6. \A i \in DOMAIN e.sels : idx[k].sels[i].start = e.sels[i].start
                                 /\ idx[k].sels[i].count = e.sels[i].count
    BY <2>4, <2>5
  <2> QED BY <2>5, <2>6 DEF Starts, Counts, e
<1> QED BY <1>1, EInvInit, EInvNext, PTL DEF Spec

\* The blocks of an entry tile its data block in the order of the write.
THEOREM BlocksTile == Spec => []BlocksTileData
<1>1. EInv => BlocksTileData
  <2> SUFFICES ASSUME EInv, NEW k \in DOMAIN idx, Plain(md[k]), Known(k),
                      "SEL_ENCODE" \in md[k].flags => CountsFit(md[k])
               PROVE  LET e == md[k]
                          vol == [j \in DOMAIN e.sels |-> Volume(e.sels[j].count)]
                      IN  /\ idx[k].dsize = SumFunctionOnSet(vol, 1 .. Len(e.sels) + 1 - 1)
                          /\ \A i \in DOMAIN e.sels :
                               idx[k].sels[i].doff = SumFunctionOnSet(vol, 1 .. i - 1)
    BY DEF BlocksTileData
  <2> DEFINE e == md[k]
  <2>1. PICK info, r : /\ EntryOK(e) /\ info.ndim = Len(e.dims) /\ info.esize = 1
                       /\ Writes(e.dims, config, e.sels, r) /\ "REC" \notin r.flags
                       /\ SameFlags(e.flags, r) /\ idx[k] = Decode(info, e.flags, r.sel)
    BY DecodedEntry
  <2>2. /\ e.dims \in Seq(Nat) /\ e.dims # <<>>
        /\ e.sels \in Seq(Blocks(Len(e.dims))) /\ e.sels # <<>>
    BY <2>1 DEF EntryOK
  <2>3. "SEL_ENCODE" \in e.flags => CountsFit(e)
    OBVIOUS
  <2> HIDE DEF e
  <2>4. CountsBelow(e.flags, e.sels, e.dims)
    BY <2>2, <2>3, PartsBelow DEF CountsBelow
  <2>5. /\ idx[k].dsize = Before(Volumes(e.sels), Len(e.sels) + 1)
        /\ \A i \in DOMAIN e.sels : idx[k].sels[i].doff = Before(Volumes(e.sels), i)
    <3>1. Recovered(e.dims, e.sels, e.flags, idx[k])
      BY <2>1, <2>2, DecodedRequest
    <3> QED BY <2>4, <3>1 DEF Recovered
  <2> QED BY <2>5 DEF Before, Volumes, e
<1> QED BY <1>1, EInvInit, EInvNext, PTL DEF Spec

\* As long as no write has failed behind fp->wreq_hash, a queued reference has its
\* target before it in the queue, and the target has its selection.
THEOREM ReferencesStay == Spec => []ReferencesStayInFlush
<1>1. EInv => ReferencesStayInFlush
  BY DEF EInv
<1> QED BY <1>1, EInvInit, EInvNext, PTL DEF Spec
=============================================================================
