---------------------------- MODULE LogFileProofs ----------------------------
(***************************************************************************)
(* Theorems about LogFile for any number of processes and any bounds, in   *)
(* three parts.  The first is about the counters and the data: TypeOK and  *)
(* NamesAgree are proved together, from an inductive invariant that ties   *)
(* the private counters of every process to the datasets in the file and   *)
(* says what a reopened file cannot do; FlushedDataIntact rests on it and  *)
(* on two more, about the layout of the file under any file views and      *)
(* about blocks and offsets.                                               *)
(***************************************************************************)
EXTENDS LogFile, TLAPS, FiniteSetTheorems, SequenceTheorems, WellFoundedInduction

\* A file view names its bytes in ascending order.
Ascends(v) == \A i, j \in DOMAIN v : i < j => v[i] < v[j]

ViewsAscend == \A r \in Rank : Ascends(view[r])

\* A process has loaded finitely many units, so that the hits of a read have
\* finitely many bytes.
FiniteIndex == \A r \in Rank : IsFiniteSet(idx[r])

\* Rank 0 has the whole section table when it is to write it.
TableReady == pc[0] = "mdwrite" => Len(mdoffs) = NP + 1

\* The history of writes is finite, so that the next one has a number.
FiniteHistory == IsFiniteSet(issued)

\* Only a process inside a data flush has data under way.
SizeIdle == \A r \in Rank : pc[r] \notin {"sync", "ldwrite"} => fsize[r] = 0

\* Every process has counted every dataset, except for the log dataset it has
\* not finished writing.
Counted ==
  \A r \in Rank :
    /\ nmdset[r] = Len(md)
    /\ IF pc[r] = "ldwrite" THEN Len(ld) = nldset[r] + 1 ELSE Len(ld) = nldset[r]

\* A collective call in progress is one the program has made.
InCall == \A r \in Rank : ncall[r] <= Len(calls)

\* Once the file is closed, _int_att counts its datasets.
AttCounts ==
  (session > 1 \/ \E r \in Rank : pc[r] = "closed") =>
    att.nldset = Len(ld) /\ att.nmdset = Len(md)

\* A reopened file is read-only: nothing is queued and nothing is created.
ReadOnly ==
  session > 1 =>
    \A r \in Rank :
      /\ wreqs[r] = <<>> /\ fsize[r] = 0 /\ metadirty[r] = FALSE
      /\ pc[r] \notin {"ldwrite", "gather", "mdwrite", "mdbarrier"}
      /\ pc[r] = "sync" => ncall[r] >= 1 /\ calls[ncall[r]] = "flush"

IInv ==
  /\ TypeOK
  /\ FiniteHistory
  /\ SizeIdle
  /\ Counted
  /\ InCall
  /\ AttCounts
  /\ ReadOnly
  /\ NamesAgree
  /\ ViewsAscend
  /\ FiniteIndex
  /\ TableReady

-----------------------------------------------------------------------------
(* Offsets *)

\* A non-empty set of naturals has a least element: what an argument by
\* induction over positions is made from here.
LEMMA LeastNat ==
  ASSUME NEW T \in SUBSET Nat, T # {}
  PROVE  \E x \in T : \A y \in T : x <= y
<1> DEFINE R == {ss \in Nat \X Nat : ss[1] < ss[2]}
<1>1. IsWellFoundedOn(R, Nat)
  BY NatLessThanWellFounded DEF OpToRel
<1>2. PICK x \in T : \A y \in T : ~ (<<y, x>> \in R)
  <2> HIDE DEF R
  <2> QED BY <1>1, WFMin
<1>3. \A y \in T : ~ (y < x)
  BY <1>2
<1> QED BY <1>3

\* The m-th byte of a view lies at least m units behind its first.
LEMMA AscendsAtLeast ==
  ASSUME NEW v \in Seq(Nat), Ascends(v), NEW m \in Nat, m < Len(v)
  PROVE  v[1 + m] \in Nat /\ v[1] \in Nat /\ v[1 + m] >= v[1] + m
<1>1. /\ Len(v) \in Nat /\ DOMAIN v = 1 .. Len(v)
      /\ \A i \in 1 .. Len(v) : v[i] \in Nat
  BY LenProperties
<1> DEFINE T == {i \in Nat : i < Len(v) /\ v[1 + i] < v[1] + i}
<1>2. T = {}
  <2>1. SUFFICES ASSUME T # {} PROVE FALSE
    OBVIOUS
  <2>2. PICK i \in T : \A j \in T : i <= j
    <3> HIDE DEF T
    <3>1. T \in SUBSET Nat
      BY DEF T
    <3> QED BY <2>1, <3>1, LeastNat
  <2>3. i \in Nat /\ i < Len(v) /\ v[1 + i] < v[1] + i /\ i # 0
    BY <1>1
  <2>4. i - 1 \in Nat /\ ~ (i - 1 \in T)
    BY <2>2, <2>3
  <2>5. ~ (v[i] < v[1] + i - 1)
    BY <2>3, <2>4
  <2>6. v[i] < v[1 + i]
    BY <1>1, <2>3 DEF Ascends
  <2> QED BY <1>1, <2>3, <2>5, <2>6
<1>3. 1 \in 1 .. Len(v) /\ 1 + m \in 1 .. Len(v)
  BY <1>1
<1>4. ~ (v[1 + m] < v[1] + m)
  <2>1. m \notin T
    BY <1>2
  <2> QED BY <2>1
<1> QED BY <1>1, <1>3, <1>4

\* A product grows with its second factor.
LEMMA TimesMonotone ==
  ASSUME NEW q \in Nat, NEW a \in Nat, NEW b \in Nat, a <= b
  PROVE  q * a \in Nat /\ q * b \in Nat /\ q * a <= q * b
<1>1. q * (b - a) \in Nat
  OBVIOUS
<1>2. q * b = q * a + q * (b - a)
  OBVIOUS
<1>3. q * a \in Nat /\ q * b \in Nat
  OBVIOUS
<1> QED BY <1>1, <1>2, <1>3

\* Quotient and remainder.
LEMMA DivMod ==
  ASSUME NEW o \in Nat, NEW n \in Nat, n > 0
  PROVE  /\ o \div n \in Nat /\ o % n \in Nat /\ o % n < n
         /\ o = (o \div n) * n + (o % n)
OBVIOUS

\* In the plain view an offset counts all bytes of the file; in any view it
\* leads no less far than its distance from the first byte of the view.
LEMMA PlaceBounds ==
  ASSUME NEW v \in Seq(Nat), Ascends(v), NEW o \in Nat
  PROVE  /\ Place(v, o) \in Nat
         /\ v = Plain => Place(v, o) = o
         /\ v # Plain => v[1] \in Nat /\ Place(v, o) >= v[1] + o
<1>1. CASE v = Plain
  BY <1>1 DEF Place
<1>2. CASE v # Plain
  <2>1. Len(v) \in Nat /\ Len(v) > 0
    BY <1>2, LenProperties, EmptySeq DEF Plain
  <2> DEFINE L == Len(v)  q == o \div L  m == o % L  P == v[L] - v[1] + 1
  <2>2. /\ q \in Nat /\ m \in Nat /\ m < L
        /\ o = q * L + m
    BY <2>1, DivMod
  <2>3. v[1 + m] \in Nat /\ v[1] \in Nat /\ v[1 + m] >= v[1] + m
    BY <2>2, AscendsAtLeast
  <2>4. v[L] \in Nat /\ v[L] >= v[1] + L - 1
    <3>1. L - 1 \in Nat /\ L - 1 < L /\ 1 + (L - 1) = L
      BY <2>1
    <3> HIDE DEF L
    <3>2. v[1 + (L - 1)] \in Nat /\ v[1] \in Nat /\ v[1 + (L - 1)] >= v[1] + (L - 1)
      BY <3>1, AscendsAtLeast DEF L
    <3> QED BY <2>1, <3>1, <3>2 DEF L
  <2>5. P \in Nat /\ L <= P
    BY <2>1, <2>3, <2>4
  <2>6. Place(v, o) = q * P + v[1 + m]
    BY <1>2 DEF Place
  <2> HIDE DEF q, m, P, L
  <2> DEFINE a == q * L  b == q * P
  <2>7. a \in Nat /\ b \in Nat /\ a <= b
    BY <2>1, <2>2, <2>5, TimesMonotone DEF L
  <2>8. o = a + m /\ Place(v, o) = b + v[1 + m]
    BY <2>2, <2>6
  <2>9. m \in Nat
    BY <2>2
  <2> HIDE DEF a, b
  <2>10. Place(v, o) \in Nat /\ Place(v, o) >= v[1] + o
    BY <2>3, <2>7, <2>8, <2>9
  <2> QED BY <1>2, <2>3, <2>10
<1> QED BY <1>1, <1>2

\* A finite set of offsets is brought into ascending order.
LEMMA SortedAscends ==
  ASSUME NEW S \in SUBSET Nat, IsFiniteSet(S)
  PROVE  /\ Sorted(S) \in Seq(Nat) /\ Ascends(Sorted(S))
         /\ Len(Sorted(S)) = Cardinality(S) /\ Cardinality(S) \in Nat
         /\ \A i \in 1 .. Len(Sorted(S)) : Sorted(S)[i] \in S
         /\ Sorted(S) = Plain <=> S = {}
<1> DEFINE n == Cardinality(S)
           rank == [x \in S |-> Cardinality(Below(x, S))]
<1>1. n \in Nat
  BY FS_CardinalityType
<1>2. ASSUME NEW x \in S
      PROVE  /\ IsFiniteSet(Below(x, S)) /\ Cardinality(Below(x, S)) \in Nat
             /\ Cardinality(Below(x, S)) < n
  <2>1. Below(x, S) \in SUBSET S /\ x \notin Below(x, S)
    BY DEF Below
  <2>2. /\ IsFiniteSet(Below(x, S)) /\ Cardinality(Below(x, S)) <= n
        /\ Cardinality(S) = Cardinality(Below(x, S)) => S = Below(x, S)
    BY <2>1, FS_Subset
  <2>3. Cardinality(Below(x, S)) \in Nat
    BY <2>2, FS_CardinalityType
  <2> QED BY <1>1, <2>1, <2>2, <2>3
<1>3. ASSUME NEW x \in S, NEW y \in S, x < y
      PROVE  Cardinality(Below(x, S)) < Cardinality(Below(y, S))
  <2>1. /\ Below(x, S) \in SUBSET Below(y, S)
        /\ x \in Below(y, S) /\ x \notin Below(x, S)
    <3>1. x \in Nat /\ y \in Nat
      OBVIOUS
    <3>2. \A z \in S : z < x => z < y
      <4> SUFFICES ASSUME NEW z \in S, z < x PROVE z < y
        OBVIOUS
      <4>1. z \in Nat
        OBVIOUS
      <4> QED BY <1>3, <3>1, <4>1
    <3>3. ~ (x < x)
      BY <3>1
    <3> QED BY <1>3, <3>2, <3>3 DEF Below
  <2>2. IsFiniteSet(Below(y, S)) /\ Cardinality(Below(y, S)) \in Nat
    BY <1>2
  <2>3. /\ Cardinality(Below(x, S)) <= Cardinality(Below(y, S))
        /\ Cardinality(Below(y, S)) = Cardinality(Below(x, S)) => Below(y, S) = Below(x, S)
    BY <2>1, <2>2, FS_Subset
  <2>4. Cardinality(Below(x, S)) \in Nat
    BY <1>2
  <2> QED BY <2>1, <2>2, <2>3, <2>4
<1>4. ASSUME NEW i \in 1 .. n
      PROVE  \E x \in S : Cardinality(Below(x, S)) = i - 1
  <2>1. rank \in [S -> 0 .. n - 1]
    BY <1>1, <1>2
  <2>2. rank \in Injection(S, 0 .. n - 1)
    <3>1. \A x, y \in S : rank[x] = rank[y] => x = y
      <4> SUFFICES ASSUME NEW x \in S, NEW y \in S, rank[x] = rank[y] PROVE x = y
        OBVIOUS
      <4>1. x \in Nat /\ y \in Nat
        OBVIOUS
      <4>2. ~ (x < y) /\ ~ (y < x)
        BY <1>2, <1>3
      <4> QED BY <4>1, <4>2
    <3> HIDE DEF rank
    <3> QED BY <2>1, <3>1 DEF Injection, IsInjective
  <2>3. IsFiniteSet(0 .. n - 1) /\ Cardinality(0 .. n - 1) = n
    <3> HIDE DEF n
    <3>1. n - 1 \in Int /\ 0 \in Int
      BY <1>1
    <3>2. /\ IsFiniteSet(0 .. n - 1)
          /\ Cardinality(0 .. n - 1) = IF 0 > n - 1 THEN 0 ELSE (n - 1) - 0 + 1
      BY <3>1, FS_Interval
    <3> QED BY <1>1, <3>1, <3>2
  <2>4. rank \in Surjection(S, 0 .. n - 1)
    <3> HIDE DEF rank
    <3> QED BY <2>2, <2>3, FS_Injection
  <2>5. i - 1 \in 0 .. n - 1
    BY <1>1
  <2> QED BY <2>4, <2>5 DEF Surjection
<1> DEFINE s == Sorted(S)
<1>5. s = [i \in 1 .. n |-> CHOOSE x \in S : Cardinality(Below(x, S)) = i - 1]
  BY DEF Sorted
<1>6. \A i \in 1 .. n : s[i] \in S /\ Cardinality(Below(s[i], S)) = i - 1
  <2> SUFFICES ASSUME NEW i \in 1 .. n
               PROVE  s[i] \in S /\ Cardinality(Below(s[i], S)) = i - 1
    OBVIOUS
  <2>1. s[i] = CHOOSE x \in S : Cardinality(Below(x, S)) = i - 1
    BY <1>5
  <2> QED BY <1>4, <2>1
<1>7. s \in Seq(Nat) /\ Len(s) = n /\ DOMAIN s = 1 .. n
  <2>1. s \in [1 .. n -> Nat]
    BY <1>5, <1>6
  <2>2. s \in Seq(Nat)
    BY <1>1, <2>1, SeqDef
  <2> HIDE DEF s, n
  <2> QED BY <1>1, <2>1, <2>2, LenProperties DEF n
<1>8. Ascends(s)
  <2> SUFFICES ASSUME NEW i \in 1 .. n, NEW j \in 1 .. n, i < j PROVE s[i] < s[j]
    BY <1>7 DEF Ascends
  <2>1. /\ s[i] \in S /\ s[j] \in S /\ s[i] \in Nat /\ s[j] \in Nat
        /\ Cardinality(Below(s[i], S)) = i - 1 /\ Cardinality(Below(s[j], S)) = j - 1
    BY <1>6
  <2>2. ~ (s[j] < s[i]) /\ s[i] # s[j]
    <3> HIDE DEF s, n, rank
    <3>1. s[i] # s[j]
      BY <1>1, <2>1
    <3>2. ASSUME s[j] < s[i] PROVE FALSE
      <4>1. Cardinality(Below(s[j], S)) < Cardinality(Below(s[i], S))
        BY <2>1, <3>2, <1>3
      <4> QED BY <1>1, <2>1, <4>1
    <3> QED BY <3>1, <3>2
  <2> HIDE DEF s
  <2> QED BY <2>1, <2>2
<1>9. s = Plain <=> S = {}
  <2>1. n = 0 <=> S = {}
    BY FS_EmptySet
  <2>2. s = <<>> <=> n = 0
    <3> HIDE DEF s, n
    <3> QED BY <1>1, <1>7, EmptySeq
  <2> QED BY <2>1, <2>2 DEF Plain
<1> HIDE DEF s, n, rank
<1> QED BY <1>1, <1>6, <1>7, <1>8, <1>9 DEF s, n
\* The blocks that a prefix sum cuts cover every offset below the total.
LEMMA ScanCovers ==
  ASSUME NEW n \in Nat, NEW p \in [0 .. n -> Nat], p[0] = 0,
         NEW o \in 0 .. p[n] - 1
  PROVE  \E i \in 1 .. n : p[i-1] <= o /\ o < p[i]
<1> DEFINE T == {i \in 0 .. n : o < p[i]}
<1>1. T \in SUBSET Nat /\ T # {}
  <2>1. n \in T
    BY DEF T
  <2> QED BY <2>1
<1>2. PICK i \in T : \A j \in T : i <= j
  BY <1>1, LeastNat
<1>3. i \in 0 .. n /\ o < p[i] /\ i # 0
  OBVIOUS
<1>4. i - 1 \in 0 .. n /\ i - 1 \notin T
  BY <1>2, <1>3
<1>5. p[i-1] \in Nat /\ ~ (o < p[i-1])
  BY <1>4
<1> QED BY <1>3, <1>5

\* A function on 1 .. n is a sequence of length n.
LEMMA FunctionIsSeq ==
  ASSUME NEW S, NEW n \in Nat, NEW f \in [1 .. n -> S]
  PROVE  f \in Seq(S) /\ Len(f) = n
<1>1. f \in Seq(S)
  BY SeqDef
<1> QED BY <1>1, LenProperties

\* The assumptions on the constants, in the form the proofs use.
LEMMA Constants ==
  /\ NP \in Nat /\ NP >= 1 /\ 0 \in Rank /\ Rank \subseteq Nat
  /\ MaxWrites \in Nat /\ MaxBytes \in Nat
  /\ \A s \in Sizes : s \in Nat /\ s >= 1
  /\ Unset \in Int
BY Parameters DEF Rank, Unset

\* The fields of a metadata entry.
LEMMA EntryFields ==
  ASSUME NEW e \in Entry
  PROVE  /\ e.w \in Write /\ e.foff \in Nat \cup {Unset}
         /\ e.w.size \in Nat /\ e.w.size >= 1 /\ e.w.cell \in Cells /\ e.w.rank \in Rank
BY Constants DEF Entry, Write

\* What is written is never the empty unit, and a byte of data is not a word or
\* an entry.
LEMMA Units ==
  /\ \A w \in Write : w \in Unit \ {Nothing}
  /\ \A e \in Entry : e \in Unit \ {Nothing}
  /\ \A n \in Nat : [word |-> n] \in Word /\ [word |-> n] \in Unit \ {Nothing}
BY Parameters DEF Unit, Word

\* Writing keeps the types of the file.
LEMMA WrittenTypes ==
  ASSUME TypeOK, ViewsAscend, NEW r \in Rank, NEW o \in Nat, NEW u,
         DOMAIN u \subseteq Nat, \A i \in DOMAIN u : u[i] \in Unit \ {Nothing}
  PROVE  /\ DOMAIN Written(r, o, u) \subseteq Nat
         /\ \A x \in DOMAIN Written(r, o, u) : Written(r, o, u)[x] \in Unit \ {Nothing}
<1> DEFINE at == [i \in DOMAIN u |-> Place(view[r], o + i)]
           W == Written(r, o, u)
<1>1. \A i \in DOMAIN u : at[i] \in Nat
  <2> SUFFICES ASSUME NEW i \in DOMAIN u PROVE Place(view[r], o + i) \in Nat
    OBVIOUS
  <2>1. view[r] \in Seq(Nat) /\ Ascends(view[r]) /\ o + i \in Nat
    BY DEF TypeOK, ViewsAscend
  <2> QED BY <2>1, PlaceBounds
<1>2. W = [x \in DOMAIN disk \cup {at[i] : i \in DOMAIN u} |->
             IF \E i \in DOMAIN u : at[i] = x
             THEN u[CHOOSE i \in DOMAIN u : at[i] = x]
             ELSE disk[x]]
  BY DEF Written
<1> HIDE DEF at, W
<1>3. /\ DOMAIN disk \subseteq Nat
      /\ \A x \in DOMAIN disk : disk[x] \in Unit \ {Nothing}
  BY DEF TypeOK
<1>4. DOMAIN W \subseteq Nat
  BY <1>1, <1>2, <1>3
<1>5. ASSUME NEW x \in DOMAIN W PROVE W[x] \in Unit \ {Nothing}
  <2>1. CASE \E i \in DOMAIN u : at[i] = x
    <3> DEFINE j == CHOOSE i \in DOMAIN u : at[i] = x
    <3>1. j \in DOMAIN u
      BY <2>1
    <3>2. W[x] = u[j]
      BY <1>2, <2>1
    <3> HIDE DEF j
    <3> QED BY <3>1, <3>2
  <2>2. CASE ~ \E i \in DOMAIN u : at[i] = x
    <3>1. x \in DOMAIN disk /\ W[x] = disk[x]
      BY <1>2, <2>2
    <3> QED BY <1>3, <3>1
  <2> QED BY <2>1, <2>2
<1> QED BY <1>4, <1>5 DEF W

\* The number of pending requests, and which ones they are.
LEMMA PendingCount ==
  ASSUME TypeOK, NEW r \in Rank
  PROVE  /\ Len(wreqs[r]) \in Nat /\ nflushed[r] \in Nat
         /\ DOMAIN wreqs[r] = 1 .. Len(wreqs[r])
         /\ \A i \in DOMAIN wreqs[r] : wreqs[r][i] \in Entry
         /\ NPending(r) \in Nat
         /\ \A i \in 1 .. NPending(r) : nflushed[r] + i \in Pending(r)
         /\ Pending(r) \subseteq DOMAIN wreqs[r]
         /\ \A i \in Pending(r) : i - nflushed[r] \in 1 .. NPending(r)
<1>1. wreqs[r] \in Seq(Entry) /\ nflushed[r] \in Nat
  BY DEF TypeOK
<1>2. /\ Len(wreqs[r]) \in Nat
      /\ DOMAIN wreqs[r] = 1 .. Len(wreqs[r])
      /\ \A i \in DOMAIN wreqs[r] : wreqs[r][i] \in Entry
  BY <1>1, LenProperties
<1> QED BY <1>1, <1>2 DEF NPending, Pending

\* Preparing a data flush keeps the types, and a process without requests
\* prepares an empty block.
LEMMA StartFlushTypes ==
  ASSUME TypeOK, NEW r \in Rank, StartFlush(r)
  PROVE  /\ wreqs' \in [Rank -> Seq(Entry)]
         /\ fsize' \in [Rank -> Nat]
         /\ DOMAIN mtype' = Rank
         /\ \A q \in Rank : mtype'[q] \in [0 .. fsize'[q] - 1 -> Write]
         /\ \A q \in Rank \ {r} : fsize'[q] = fsize[q] /\ wreqs'[q] = wreqs[q]
         /\ wreqs[r] = <<>> => wreqs'[r] = <<>> /\ fsize'[r] = 0
         /\ pc' = [pc EXCEPT ![r] = "sync"]
<1> DEFINE n == NPending(r)
           ent(p) == [i \in DOMAIN wreqs[r] |->
             IF i \in Pending(r) THEN [wreqs[r][i] EXCEPT !.foff = p[i - nflushed[r] - 1]]
                                 ELSE wreqs[r][i]]
           mem(p) == [o \in 0 .. p[n] - 1 |->
             wreqs[r][nflushed[r] + (CHOOSE i \in 1 .. n : p[i-1] <= o /\ o < p[i])].w]
<1>1. PICK p \in Scans(n) :
        /\ IsScan(p, PendingSizes(r))
        /\ wreqs' = [wreqs EXCEPT ![r] = ent(p)]
        /\ fsize' = [fsize EXCEPT ![r] = p[n]]
        /\ mtype' = [mtype EXCEPT ![r] = mem(p)]
  BY DEF StartFlush, LocalSize
<1>2. p \in [0 .. n -> Nat] /\ n \in Nat /\ p[n] \in Nat /\ p[0] = 0
  BY <1>1, PendingCount, Constants DEF Scans, IsScan
<1>3. ent(p) \in Seq(Entry) /\ (wreqs[r] = <<>> => ent(p) = <<>>)
  <2>1. \A i \in 1 .. Len(wreqs[r]) : ent(p)[i] \in Entry
    <3> SUFFICES ASSUME NEW i \in 1 .. Len(wreqs[r]) PROVE ent(p)[i] \in Entry
      OBVIOUS
    <3>1. wreqs[r][i] \in Entry /\ i \in DOMAIN wreqs[r]
      BY PendingCount
    <3>2. CASE i \in Pending(r)
      <4>1. i - nflushed[r] - 1 \in 0 .. n
        BY <3>2, PendingCount
      <4>2. p[i - nflushed[r] - 1] \in Nat
        BY <4>1, <1>2
      <4>3. [wreqs[r][i] EXCEPT !.foff = p[i - nflushed[r] - 1]] \in Entry
        BY <4>2, <3>1 DEF Entry
      <4> QED BY <3>1, <3>2, <4>3
    <3>3. CASE i \notin Pending(r)
      BY <3>1, <3>3
    <3> QED BY <3>2, <3>3
  <2>2. DOMAIN ent(p) = 1 .. Len(wreqs[r]) /\ Len(wreqs[r]) \in Nat
    BY PendingCount
  <2>3. ent(p) \in Seq(Entry)
    <3>1. ent(p) \in [1 .. Len(wreqs[r]) -> Entry]
      BY <2>1, <2>2
    <3> HIDE DEF ent
    <3> QED BY <2>2, <3>1, FunctionIsSeq
  <2>4. ASSUME wreqs[r] = <<>> PROVE ent(p) = <<>>
    BY <2>4
  <2> QED BY <2>3, <2>4
<1>4. mem(p) \in [0 .. p[n] - 1 -> Write]
  <2> SUFFICES ASSUME NEW o \in 0 .. p[n] - 1
               PROVE  wreqs[r][nflushed[r] + (CHOOSE i \in 1 .. n : p[i-1] <= o /\ o < p[i])].w
                        \in Write
    OBVIOUS
  <2>1. \E i \in 1 .. n : p[i-1] <= o /\ o < p[i]
    <3> HIDE DEF n
    <3> QED BY <1>2, ScanCovers
  <2>2. (CHOOSE i \in 1 .. n : p[i-1] <= o /\ o < p[i]) \in 1 .. n
    BY <2>1
  <2> QED BY <2>2, PendingCount, EntryFields
<1>5. wreqs[r] = <<>> => p[n] = 0
  BY <1>2, PendingCount DEF NPending
<1>6. pc' = [pc EXCEPT ![r] = "sync"]
  BY DEF StartFlush
<1> HIDE DEF n, ent, mem
<1> QED BY <1>1, <1>2, <1>3, <1>4, <1>5, <1>6 DEF TypeOK

-----------------------------------------------------------------------------
(* The inductive invariant: one lemma per action *)

\* A file just created satisfies the invariant.
LEMMA InitIInv == Init => IInv
<1> SUFFICES ASSUME Init PROVE IInv
  OBVIOUS
<1> USE Constants
<1>1. TypeOK
  <2>1. <<>> \in [0 .. -1 -> Write]
    OBVIOUS
  <2>2. /\ calls \in Seq(Ops) /\ ld \in Seq(Dataset) /\ md \in Seq(Dataset)
        /\ mdoffs \in Seq(Nat) /\ wreqs \in [Rank -> Seq(Entry)]
        /\ view \in [Rank -> Seq(Nat)]
    BY EmptySeq DEF Init, Plain
  <2>3. /\ eof \in Nat /\ DOMAIN disk = {}
        /\ \A r \in Rank : mtype[r] \in [0 .. fsize[r] - 1 -> Write]
        /\ DOMAIN mtype = Rank /\ DOMAIN idx = Rank
    BY <2>1 DEF Init
  <2> QED BY <2>2, <2>3 DEF Init, TypeOK, Joint, Local
<1>2. FiniteHistory
  BY FS_EmptySet DEF Init, FiniteHistory
<1>3. NamesAgree /\ Counted
  BY DEF Init, NamesAgree, Counted
<1>4. SizeIdle /\ InCall /\ AttCounts /\ ReadOnly
  BY DEF Init, SizeIdle, InCall, AttCounts, ReadOnly
<1>5. ViewsAscend /\ FiniteIndex /\ TableReady
  <2>1. DOMAIN Plain = {}
    BY EmptySeq DEF Plain
  <2> QED BY <2>1, FS_EmptySet DEF Init, ViewsAscend, FiniteIndex, TableReady, Ascends
<1> QED BY <1>1, <1>2, <1>3, <1>4, <1>5 DEF IInv

\* A step that changes nothing preserves it.
LEMMA StutterIInv == IInv /\ UNCHANGED vars => IInv'
BY DEF IInv, vars, prog, queue, flags, counters, scratch, store, TypeOK, FiniteHistory,
       SizeIdle, Counted, InCall, AttCounts, ReadOnly, NamesAgree, ViewsAscend,
       FiniteIndex, TableReady

\* A step that leaves the views and the indexes alone and takes rank 0 to no
\* metadata write keeps what is known of them.
LEMMA SameViews ==
  ASSUME IInv, UNCHANGED <<idx, view, mdoffs>>, pc'[0] = "mdwrite" => pc[0] = "mdwrite"
  PROVE  ViewsAscend' /\ FiniteIndex' /\ TableReady'
BY DEF IInv, ViewsAscend, FiniteIndex, TableReady

\* The first calls of the program do not change when a process makes another.
LEMMA CallFacts ==
  ASSUME IInv, NEW r \in Rank, NEW op \in Ops, Call(r, op)
  PROVE  /\ calls' \in Seq(Ops)
         /\ ncall' = [ncall EXCEPT ![r] = @ + 1] /\ ncall' \in [Rank -> Nat]
         /\ InCall'
         /\ ncall'[r] >= 1 /\ calls'[ncall'[r]] = op
         /\ \A q \in Rank : ncall[q] >= 1 => calls'[ncall[q]] = calls[ncall[q]]
         /\ pc[r] = "app"
<1>1. /\ calls \in Seq(Ops) /\ ncall \in [Rank -> Nat] /\ Len(calls) \in Nat
      /\ \A q \in Rank : ncall[q] <= Len(calls)
  BY LenProperties DEF IInv, TypeOK, InCall
<1>2. ncall' = [ncall EXCEPT ![r] = @ + 1] /\ pc[r] = "app"
  BY DEF Call
<1>3. CASE ncall[r] < Len(calls)
  <2>1. op = calls[ncall[r] + 1] /\ calls' = calls
    BY <1>3 DEF Call
  <2> QED BY <1>1, <1>2, <1>3, <2>1 DEF InCall
<1>4. CASE ~ (ncall[r] < Len(calls))
  <2>1. calls' = Append(calls, op) /\ ncall[r] = Len(calls)
    BY <1>1, <1>4 DEF Call
  <2>2. /\ calls' \in Seq(Ops) /\ Len(calls') = Len(calls) + 1
        /\ \A i \in 1 .. Len(calls) : calls'[i] = calls[i]
        /\ calls'[Len(calls) + 1] = op
    BY <1>1, <2>1, AppendProperties
  <2>3. \A q \in Rank : ncall[q] >= 1 => ncall[q] \in 1 .. Len(calls)
    BY <1>1
  <2> QED BY <1>1, <1>2, <2>1, <2>2, <2>3 DEF InCall
<1> QED BY <1>3, <1>4

\* Queueing a request preserves the invariant.
LEMMA H5DwriteIInv ==
  ASSUME IInv, NEW r \in Rank, NEW c \in Cells, NEW s \in Sizes, H5Dwrite(r, c, s)
  PROVE  IInv'
<1> DEFINE w == [rank |-> r, seq |-> 1 + Cardinality({v \in issued : v.rank = r}),
                 cell |-> c, size |-> s]
<1> DEFINE e == [w |-> w, foff |-> Unset, ref |-> Deduplicated(r, c)]
<1>1. /\ session = 1 /\ w.seq <= MaxWrites
      /\ issued' = issued \cup {w}
      /\ wreqs' = [wreqs EXCEPT ![r] = Append(@, e)]
      /\ dirty' = [dirty EXCEPT ![r] = TRUE]
      /\ UNCHANGED <<calls, ncall, session, pc, nflushed, flags, idx, view, counters,
                     scratch, store, got>>
  BY DEF H5Dwrite
<1>2. w \in Write
  <2>1. IsFiniteSet({v \in issued : v.rank = r})
    BY FS_Subset DEF IInv, FiniteHistory
  <2>2. Cardinality({v \in issued : v.rank = r}) \in Nat
    BY <2>1, FS_CardinalityType
  <2> QED BY <1>1, <2>2, Constants DEF Write
<1> HIDE DEF w
<1>3. wreqs' \in [Rank -> Seq(Entry)]
  <2>1. e \in Entry
    <3>1. Deduplicated(r, c) \in BOOLEAN
      BY DEF Deduplicated
    <3> QED BY <3>1, <1>2, Constants DEF Entry
  <2> HIDE DEF e
  <2>2. wreqs \in [Rank -> Seq(Entry)]
    BY DEF IInv, TypeOK
  <2>3. Append(wreqs[r], e) \in Seq(Entry)
    BY <2>1, <2>2, AppendProperties
  <2> QED BY <1>1, <2>2, <2>3
<1>4. TypeOK'
  BY <1>1, <1>2, <1>3 DEF IInv, TypeOK, flags, counters, scratch, store
<1>5. FiniteHistory'
  BY <1>1, FS_AddElement DEF IInv, FiniteHistory
<1>6. ReadOnly'
  BY <1>1 DEF ReadOnly
<1>7. (SizeIdle /\ Counted /\ InCall /\ AttCounts /\ NamesAgree)'
  BY <1>1 DEF IInv, SizeIdle, Counted, InCall, AttCounts, NamesAgree, flags, counters,
              scratch, store
<1>8. ViewsAscend' /\ FiniteIndex' /\ TableReady'
  <2>1. UNCHANGED <<idx, view, mdoffs>> /\ (pc'[0] = "mdwrite" => pc[0] = "mdwrite")
    BY <1>1, Constants DEF IInv, TypeOK, scratch
  <2> QED BY <2>1, SameViews
<1> QED BY <1>4, <1>5, <1>6, <1>7, <1>8 DEF IInv

\* Entering a data flush from the program preserves the invariant.
LEMMA H5FflushIInv ==
  ASSUME IInv, NEW r \in Rank, H5Fflush(r)
  PROVE  IInv'
<1>1. /\ Call(r, "flush") /\ StartFlush(r) /\ dirty' = [dirty EXCEPT ![r] = FALSE]
      /\ UNCHANGED <<session, issued, nflushed, flags, idx, view, counters, base, mdoffs,
                     store, got>>
  BY DEF H5Fflush
<1>2. /\ calls' \in Seq(Ops) /\ ncall' = [ncall EXCEPT ![r] = @ + 1]
      /\ ncall' \in [Rank -> Nat] /\ InCall'
      /\ ncall'[r] >= 1 /\ calls'[ncall'[r]] = "flush"
      /\ \A q \in Rank : ncall[q] >= 1 => calls'[ncall[q]] = calls[ncall[q]]
      /\ pc[r] = "app"
  BY <1>1, CallFacts DEF Ops
<1>3. /\ wreqs' \in [Rank -> Seq(Entry)]
      /\ fsize' \in [Rank -> Nat]
      /\ DOMAIN mtype' = Rank
      /\ \A q \in Rank : mtype'[q] \in [0 .. fsize'[q] - 1 -> Write]
      /\ \A q \in Rank \ {r} : fsize'[q] = fsize[q] /\ wreqs'[q] = wreqs[q]
      /\ wreqs[r] = <<>> => wreqs'[r] = <<>> /\ fsize'[r] = 0
      /\ pc' = [pc EXCEPT ![r] = "sync"]
  BY <1>1, StartFlushTypes DEF IInv
<1>4. TypeOK'
  BY <1>1, <1>2, <1>3 DEF IInv, TypeOK, flags, counters, store, Joint
<1>5. SizeIdle' /\ Counted' /\ AttCounts' /\ NamesAgree' /\ FiniteHistory'
  BY <1>1, <1>2, <1>3 DEF IInv, TypeOK, SizeIdle, Counted, AttCounts, NamesAgree,
                          FiniteHistory, counters, store
<1>6. ReadOnly'
  <2> SUFFICES ASSUME session' > 1, NEW q \in Rank
               PROVE  /\ wreqs'[q] = <<>> /\ fsize'[q] = 0 /\ metadirty'[q] = FALSE
                      /\ pc'[q] \notin {"ldwrite", "gather", "mdwrite", "mdbarrier"}
                      /\ pc'[q] = "sync" => ncall'[q] >= 1 /\ calls'[ncall'[q]] = "flush"
    BY DEF ReadOnly
  <2>1. /\ wreqs[q] = <<>> /\ fsize[q] = 0 /\ metadirty[q] = FALSE
        /\ pc[q] \notin {"ldwrite", "gather", "mdwrite", "mdbarrier"}
        /\ pc[q] = "sync" => ncall[q] >= 1 /\ calls[ncall[q]] = "flush"
    BY <1>1 DEF IInv, ReadOnly
  <2>2. CASE q = r
    BY <1>1, <1>2, <1>3, <2>1, <2>2 DEF flags, IInv, TypeOK
  <2>3. CASE q # r
    BY <1>1, <1>2, <1>3, <2>1, <2>3 DEF flags, IInv, TypeOK
  <2> QED BY <2>2, <2>3
<1>7. ViewsAscend' /\ FiniteIndex' /\ TableReady'
  <2>1. UNCHANGED <<idx, view, mdoffs>> /\ (pc'[0] = "mdwrite" => pc[0] = "mdwrite")
    BY <1>1, <1>2, <1>3, Constants DEF IInv, TypeOK, scratch
  <2> QED BY <2>1, SameViews
<1> QED BY <1>2, <1>4, <1>5, <1>6, <1>7 DEF IInv

\* A data flush without data preserves the invariant.
LEMMA FlushNothingIInv == ASSUME IInv, FlushNothing PROVE IInv'
<1>1. /\ \A r \in Rank : pc[r] = "sync" /\ fsize[r] = 0
      /\ pc' = [r \in Rank |-> AfterFlush(r)]
      /\ UNCHANGED <<prog, queue, flags, idx, view, counters, scratch, store, got>>
  BY DEF FlushNothing
<1>2. \A r \in Rank : pc'[r] \in {"gather", "app"} /\ pc'[r] = AfterFlush(r)
  BY <1>1 DEF AfterFlush
<1>3. TypeOK'
  BY <1>1, <1>2 DEF IInv, TypeOK, prog, queue, flags, counters, scratch, store, Joint, Local
<1>4. SizeIdle' /\ Counted' /\ AttCounts' /\ NamesAgree' /\ FiniteHistory' /\ InCall'
  BY <1>1, <1>2 DEF IInv, SizeIdle, Counted, AttCounts, NamesAgree, FiniteHistory, InCall,
                    prog, counters, scratch, store
<1>5. ReadOnly'
  <2> SUFFICES ASSUME session' > 1, NEW q \in Rank PROVE pc'[q] = "app"
    BY <1>1 DEF IInv, ReadOnly, prog, queue, flags, scratch
  <2>1. calls[ncall[q]] = "flush"
    BY <1>1 DEF IInv, ReadOnly, prog
  <2> QED BY <1>2, <2>1 DEF AfterFlush, Op
<1>6. ViewsAscend' /\ FiniteIndex' /\ TableReady'
  <2>1. UNCHANGED <<idx, view, mdoffs>> /\ (pc'[0] = "mdwrite" => pc[0] = "mdwrite")
    BY <1>1, <1>2, Constants DEF IInv, TypeOK, scratch
  <2> QED BY <2>1, SameViews
<1> QED BY <1>3, <1>4, <1>5, <1>6 DEF IInv

\* Creating a log dataset preserves the invariant.
LEMMA CreateLogIInv == ASSUME IInv, CreateLog PROVE IInv'
<1>1. PICK p \in Scans(NP) :
       /\ ld' = Append(ld, [names |-> {nldset[r] : r \in Rank},
                            doff |-> eof, size |-> p[NP], plain |-> AllPlain])
       /\ eof' = eof + p[NP]
       /\ base' = [r \in Rank |-> eof + p[r]]
  BY DEF CreateLog, BlockOffset
<1>2. /\ \A r \in Rank : pc[r] = "sync"
      /\ \E r \in Rank : fsize[r] > 0
      /\ pc' = [r \in Rank |-> "ldwrite"]
      /\ UNCHANGED <<prog, queue, flags, idx, view, counters, fsize, mtype, mdoffs,
                     disk, md, att, placed, got>>
  BY DEF CreateLog
<1>3. p[NP] \in Nat /\ (\A r \in Rank : p[r] \in Nat) /\ eof \in Nat
  <2>1. p \in [0 .. NP -> Nat]
    BY Constants DEF Scans
  <2>2. eof \in Nat
    BY DEF IInv, TypeOK
  <2> QED BY <2>1, <2>2, Constants DEF Rank
<1>4. \A r \in Rank : nldset[r] = Len(ld) /\ nldset[r] \in Nat
  BY <1>2 DEF IInv, TypeOK, Counted
<1>5. {nldset[r] : r \in Rank} = {Len(ld)} /\ Len(ld) \in Nat
  BY <1>4, Constants
<1>6. /\ ld' \in Seq(Dataset) /\ Len(ld') = Len(ld) + 1
      /\ \A k \in DOMAIN ld : ld'[k] = ld[k]
      /\ DOMAIN ld = 1 .. Len(ld) /\ DOMAIN ld' = 1 .. Len(ld) + 1
      /\ ld'[Len(ld) + 1].names = {Len(ld)}
  <2> DEFINE new == [names |-> {Len(ld)}, doff |-> eof, size |-> p[NP],
                     plain |-> AllPlain]
  <2>1. new \in Dataset
    BY <1>3, <1>5 DEF Dataset, AllPlain
  <2>2. ld \in Seq(Dataset)
    BY DEF IInv, TypeOK
  <2>3. ld' = Append(ld, new) /\ new.names = {Len(ld)}
    BY <1>1, <1>5
  <2> HIDE DEF new
  <2> QED BY <2>1, <2>2, <2>3, AppendProperties, LenProperties
<1>7. TypeOK'
  <2>2. eof' \in Nat /\ base' \in [Rank -> Nat] /\ pc' \in [Rank -> Joint \cup Local]
    <3>1. \A r \in Rank : eof + p[r] \in Nat
      BY <1>3
    <3> QED BY <1>1, <1>2, <1>3, <3>1 DEF Joint, Local
  <2> QED BY <1>2, <1>6, <2>2 DEF IInv, TypeOK, prog, queue, flags, counters
<1>8. NamesAgree'
  BY <1>2, <1>5, <1>6 DEF IInv, NamesAgree
<1>9. Counted'
  BY <1>2, <1>4, <1>6 DEF IInv, Counted, counters
<1>10. AttCounts'
  BY <1>2, Constants DEF IInv, AttCounts, ReadOnly, prog
<1>11. ReadOnly'
  BY <1>2 DEF IInv, ReadOnly, prog
<1>12. SizeIdle' /\ InCall' /\ FiniteHistory'
  BY <1>2 DEF IInv, SizeIdle, InCall, FiniteHistory, prog
<1>13. ViewsAscend' /\ FiniteIndex' /\ TableReady'
  <2>1. UNCHANGED <<idx, view, mdoffs>> /\ (pc'[0] = "mdwrite" => pc[0] = "mdwrite")
    BY <1>2, Constants DEF IInv, TypeOK, scratch
  <2> QED BY <2>1, SameViews
<1> QED BY <1>7, <1>8, <1>9, <1>10, <1>11, <1>12, <1>13 DEF IInv

\* Moving an entry to its place in the file keeps it an entry.
LEMMA RelocatedTypes ==
  ASSUME TypeOK, NEW r \in Rank
  PROVE  /\ Relocated(r) \in Seq(Entry)
         /\ \A i \in Pending(r) : Relocated(r)[i] \in Entry
<1>1. \A i \in 1 .. Len(wreqs[r]) : Relocated(r)[i] \in Entry
  <2> SUFFICES ASSUME NEW i \in 1 .. Len(wreqs[r]) PROVE Relocated(r)[i] \in Entry
    OBVIOUS
  <2>1. wreqs[r][i] \in Entry /\ i \in DOMAIN wreqs[r]
    BY PendingCount
  <2>2. wreqs[r][i].foff + base[r] \in Nat \cup {Unset}
    <3>1. base[r] \in Nat
      BY DEF TypeOK
    <3>2. wreqs[r][i].foff \in Nat \cup {Unset}
      BY <2>1, EntryFields
    <3> QED BY <3>1, <3>2 DEF Unset
  <2>3. [wreqs[r][i] EXCEPT !.foff = @ + base[r]] \in Entry
    BY <2>1, <2>2 DEF Entry
  <2> QED BY <2>1, <2>3 DEF Relocated
<1>2. DOMAIN Relocated(r) = 1 .. Len(wreqs[r]) /\ Len(wreqs[r]) \in Nat
  BY PendingCount DEF Relocated
<1>3. Relocated(r) \in [1 .. Len(wreqs[r]) -> Entry]
  BY <1>1, <1>2 DEF Relocated
<1>4. Relocated(r) \in Seq(Entry)
  BY <1>2, <1>3, FunctionIsSeq
<1> QED BY <1>1, <1>4, PendingCount

\* Writing the block of a process preserves the invariant.
LEMMA WriteLogIInv == ASSUME IInv, NEW r \in Rank, WriteLog(r) PROVE IInv'
<1>1. /\ pc[r] = "ldwrite"
      /\ disk' = Written(r, base[r], mtype[r])
      /\ wreqs' = [wreqs EXCEPT ![r] = Relocated(r)]
      /\ placed' = placed \cup {Relocated(r)[i] : i \in Pending(r)}
      /\ nflushed' = [nflushed EXCEPT ![r] = Len(wreqs[r])]
      /\ nldset' = [nldset EXCEPT ![r] = nldset[r] + 1]
      /\ metadirty' = [metadirty EXCEPT ![r] = TRUE]
      /\ fsize' = [fsize EXCEPT ![r] = 0]
      /\ mtype' = [mtype EXCEPT ![r] = <<>>]
      /\ base' = [base EXCEPT ![r] = 0]
      /\ pc' = [pc EXCEPT ![r] = AfterFlush(r)]
      /\ UNCHANGED <<prog, idxvalid, idx, view, nmdset, mdoffs, eof, ld, md, att, got>>
  BY DEF WriteLog, LogCount, DirtyAfterFlush
<1>2. AfterFlush(r) \in {"gather", "app"}
  BY DEF AfterFlush
<1>3. TypeOK'
  <2>1. /\ DOMAIN disk' \subseteq Nat
        /\ \A x \in DOMAIN disk' : disk'[x] \in Unit \ {Nothing}
    <3>0. mtype[r] \in [0 .. fsize[r] - 1 -> Write] /\ fsize[r] \in Nat /\ base[r] \in Nat
      BY DEF IInv, TypeOK
    <3>1. /\ DOMAIN mtype[r] \subseteq Nat /\ base[r] \in Nat
          /\ \A o \in DOMAIN mtype[r] : mtype[r][o] \in Unit \ {Nothing}
      <4>1. DOMAIN mtype[r] \subseteq Nat
        BY <3>0
      <4>2. \A o \in DOMAIN mtype[r] : mtype[r][o] \in Write
        BY <3>0
      <4> QED BY <3>0, <4>1, <4>2, Units
    <3>2. TypeOK /\ ViewsAscend
      BY DEF IInv
    <3> QED BY <1>1, <3>1, <3>2, WrittenTypes
  <2>2. wreqs' \in [Rank -> Seq(Entry)] /\ placed' \subseteq Entry
    <3>1. wreqs \in [Rank -> Seq(Entry)] /\ placed \subseteq Entry /\ TypeOK
      BY DEF IInv, TypeOK
    <3>2. /\ Relocated(r) \in Seq(Entry)
          /\ \A i \in Pending(r) : Relocated(r)[i] \in Entry
      BY <3>1, RelocatedTypes
    <3> QED BY <1>1, <3>1, <3>2
  <2>3. nflushed' \in [Rank -> Nat]
    BY <1>1, PendingCount DEF IInv, TypeOK
  <2>4. /\ DOMAIN mtype' = Rank
        /\ \A q \in Rank : mtype'[q] \in [0 .. fsize'[q] - 1 -> Write]
    <3>1. <<>> \in [0 .. 0 - 1 -> Write]
      OBVIOUS
    <3>2. \A q \in Rank : q # r => mtype'[q] = mtype[q] /\ fsize'[q] = fsize[q]
      BY <1>1 DEF IInv, TypeOK
    <3>3. mtype'[r] = <<>> /\ fsize'[r] = 0
      BY <1>1 DEF IInv, TypeOK
    <3>4. \A q \in Rank : mtype[q] \in [0 .. fsize[q] - 1 -> Write]
      BY DEF IInv, TypeOK
    <3>5. DOMAIN mtype = Rank
      BY DEF IInv, TypeOK
    <3>6. \A q \in Rank : mtype'[q] \in [0 .. fsize'[q] - 1 -> Write]
      <4> SUFFICES ASSUME NEW q \in Rank
                   PROVE  mtype'[q] \in [0 .. fsize'[q] - 1 -> Write]
        OBVIOUS
      <4>1. CASE q = r
        BY <3>1, <3>3, <4>1
      <4>2. CASE q # r
        BY <3>2, <3>4, <4>2
      <4> QED BY <4>1, <4>2
    <3> QED BY <1>1, <3>5, <3>6
  <2>5. /\ nldset' \in [Rank -> Nat] /\ fsize' \in [Rank -> Nat] /\ base' \in [Rank -> Nat]
    <3>1. nldset \in [Rank -> Nat] /\ fsize \in [Rank -> Nat] /\ base \in [Rank -> Nat]
      BY DEF IInv, TypeOK
    <3> QED BY <1>1, <3>1
  <2>6. metadirty' \in [Rank -> BOOLEAN] /\ pc' \in [Rank -> Joint \cup Local]
    <3>1. metadirty \in [Rank -> BOOLEAN] /\ pc \in [Rank -> Joint \cup Local]
      BY DEF IInv, TypeOK
    <3> QED BY <1>1, <1>2, <3>1 DEF Joint, Local
  <2> QED BY <1>1, <2>1, <2>2, <2>3, <2>4, <2>5, <2>6 DEF IInv, TypeOK, prog
<1>4. Counted'
  BY <1>1, <1>2 DEF IInv, TypeOK, Counted
<1>5. SizeIdle'
  BY <1>1, <1>2 DEF IInv, TypeOK, SizeIdle
<1>6. AttCounts'
  BY <1>1, <1>2 DEF IInv, TypeOK, AttCounts, prog
<1>7. ~ (session > 1) /\ ReadOnly'
  BY <1>1 DEF IInv, ReadOnly, TypeOK, prog
<1>8. NamesAgree' /\ InCall' /\ FiniteHistory'
  BY <1>1 DEF IInv, NamesAgree, InCall, FiniteHistory, prog
<1>9. ViewsAscend' /\ FiniteIndex' /\ TableReady'
  <2>1. UNCHANGED <<idx, view, mdoffs>> /\ (pc'[0] = "mdwrite" => pc[0] = "mdwrite")
    BY <1>1, <1>2, Constants DEF IInv, TypeOK, scratch
  <2> QED BY <2>1, SameViews
<1> QED BY <1>3, <1>4, <1>5, <1>6, <1>7, <1>8, <1>9 DEF IInv

\* Creating a metadata dataset preserves the invariant.
LEMMA CreateMetaIInv == ASSUME IInv, CreateMeta PROVE IInv'
<1>1. PICK p \in Scans(NP) :
       /\ mdoffs' = [i \in 1 .. NP + 1 |-> IF i = 1 THEN NP ELSE p[i - 1]]
       /\ base' = [r \in Rank |-> eof + p[r]]
       /\ md' = Append(md, [names |-> {nmdset[r] : r \in Rank},
                            doff |-> eof, size |-> p[NP], plain |-> AllPlain])
       /\ eof' = eof + p[NP]
  BY DEF CreateMeta
<1>2. /\ \A r \in Rank : pc[r] = "gather"
      /\ nmdset' = [r \in Rank |-> nmdset[r] + 1]
      /\ pc' = [r \in Rank |-> "mdwrite"]
      /\ UNCHANGED <<prog, queue, flags, idx, view, nldset, fsize, mtype,
                     disk, ld, att, placed, got>>
  BY DEF CreateMeta
<1>3. p \in [0 .. NP -> Nat] /\ p[NP] \in Nat /\ eof \in Nat /\ eof + p[NP] \in Nat
  <2>0. eof \in Nat
    BY DEF IInv, TypeOK
  <2>1. p \in [0 .. NP -> Nat] /\ eof \in Nat
    BY <2>0, Constants DEF Scans
  <2>2. p[NP] \in Nat
    BY <2>1, Constants
  <2> QED BY <2>1, <2>2
<1>4. \A r \in Rank : nmdset[r] = Len(md) /\ nmdset[r] \in Nat
  BY DEF IInv, TypeOK, Counted
<1>5. {nmdset[r] : r \in Rank} = {Len(md)} /\ Len(md) \in Nat
  BY <1>4, Constants
<1>6. /\ md' \in Seq(Dataset) /\ Len(md') = Len(md) + 1
      /\ \A k \in DOMAIN md : md'[k] = md[k]
      /\ DOMAIN md = 1 .. Len(md) /\ DOMAIN md' = 1 .. Len(md) + 1
      /\ md'[Len(md) + 1].names = {Len(md)}
  <2> DEFINE new == [names |-> {Len(md)}, doff |-> eof, size |-> p[NP],
                     plain |-> AllPlain]
  <2>1. new \in Dataset
    BY <1>3, <1>5 DEF Dataset, AllPlain
  <2>2. md \in Seq(Dataset)
    BY DEF IInv, TypeOK
  <2>3. md' = Append(md, new) /\ new.names = {Len(md)}
    BY <1>1, <1>5
  <2> HIDE DEF new
  <2> QED BY <2>1, <2>2, <2>3, AppendProperties, LenProperties
<1>7. TypeOK'
  <2>1. mdoffs' \in Seq(Nat)
    <3>1. mdoffs' \in [1 .. NP + 1 -> Nat]
      BY <1>1, <1>3, Constants
    <3> QED BY <3>1, Constants, FunctionIsSeq
  <2>2. base' \in [Rank -> Nat] /\ eof' \in Nat
    <3>1. \A r \in Rank : r \in 0 .. NP /\ p[r] \in Nat /\ eof + p[r] \in Nat
      BY <1>3, Constants DEF Rank
    <3> QED BY <1>1, <1>3, <3>1
  <2>3. nmdset' \in [Rank -> Nat] /\ pc' \in [Rank -> Joint \cup Local]
    BY <1>2, <1>4 DEF Joint, Local
  <2> QED BY <1>2, <1>6, <2>1, <2>2, <2>3 DEF IInv, TypeOK, prog, queue, flags
<1>8. NamesAgree'
  BY <1>2, <1>5, <1>6 DEF IInv, NamesAgree
<1>9. Counted'
  BY <1>2, <1>4, <1>6 DEF IInv, Counted
<1>10. 0 \in Rank /\ ~ (session > 1) /\ AttCounts' /\ ReadOnly'
  BY <1>2, Constants DEF IInv, AttCounts, ReadOnly, prog
<1>11. SizeIdle' /\ InCall' /\ FiniteHistory'
  BY <1>2 DEF IInv, SizeIdle, InCall, FiniteHistory, prog
<1>12. ViewsAscend' /\ FiniteIndex' /\ TableReady'
  <2>1. mdoffs' \in [1 .. NP + 1 -> Nat]
    BY <1>1, <1>3, Constants
  <2>2. Len(mdoffs') = NP + 1
    BY <2>1, Constants, FunctionIsSeq
  <2> QED BY <1>2, <2>2 DEF IInv, ViewsAscend, FiniteIndex, TableReady
<1> QED BY <1>7, <1>8, <1>9, <1>10, <1>11, <1>12 DEF IInv

\* What a process writes into a metadata dataset.
LEMMA SectionUnits ==
  ASSUME IInv, NEW r \in Rank, pc[r] = "mdwrite"
  PROVE  /\ TableSize(r) \in Nat /\ Len(wreqs[r]) \in Nat
         /\ DOMAIN SectionOf(r) = 0 .. TableSize(r) + Len(wreqs[r]) - 1
         /\ DOMAIN SectionOf(r) \subseteq Nat
         /\ \A i \in DOMAIN SectionOf(r) :
              /\ i < TableSize(r) =>
                   r = 0 /\ mdoffs[i + 1] \in Nat /\ SectionOf(r)[i] = [word |-> mdoffs[i + 1]]
              /\ ~ (i < TableSize(r)) =>
                   /\ i - TableSize(r) + 1 \in DOMAIN wreqs[r]
                   /\ SectionOf(r)[i] = wreqs[r][i - TableSize(r) + 1]
              /\ SectionOf(r)[i] \in Unit \ {Nothing}
<1>1. TableSize(r) \in Nat /\ (TableSize(r) > 0 => r = 0 /\ TableSize(r) = NP + 1)
  BY Constants DEF TableSize
<1>2. /\ Len(wreqs[r]) \in Nat /\ DOMAIN wreqs[r] = 1 .. Len(wreqs[r])
      /\ \A i \in DOMAIN wreqs[r] : wreqs[r][i] \in Entry
  BY PendingCount DEF IInv
<1> DEFINE S == SectionOf(r)  t == TableSize(r)  n == Len(wreqs[r])
<1>3. S = [i \in 0 .. t + n - 1 |->
             IF i < t THEN [word |-> mdoffs[i + 1]] ELSE wreqs[r][i - t + 1]]
  BY DEF SectionOf
<1>4. r = 0 => mdoffs \in Seq(Nat) /\ Len(mdoffs) = NP + 1
  BY DEF IInv, TypeOK, TableReady
<1> HIDE DEF S, t
<1>5. ASSUME NEW i \in 0 .. t + n - 1
      PROVE  /\ i < t =>
                   r = 0 /\ mdoffs[i + 1] \in Nat /\ S[i] = [word |-> mdoffs[i + 1]]
             /\ ~ (i < t) =>
                   /\ i - t + 1 \in DOMAIN wreqs[r]
                   /\ S[i] = wreqs[r][i - t + 1]
             /\ S[i] \in Unit \ {Nothing}
  <2>1. CASE i < t
    <3>1. r = 0 /\ i + 1 \in 1 .. NP + 1
      BY <1>1, <2>1 DEF t
    <3>2. mdoffs[i + 1] \in Nat
      BY <1>4, <3>1, LenProperties
    <3>3. S[i] = [word |-> mdoffs[i + 1]]
      BY <1>3, <2>1
    <3> QED BY <2>1, <3>1, <3>2, <3>3, Units
  <2>2. CASE ~ (i < t)
    <3>1. i - t + 1 \in DOMAIN wreqs[r]
      BY <1>1, <1>2, <2>2 DEF t
    <3>2. S[i] = wreqs[r][i - t + 1]
      BY <1>3, <2>2
    <3> QED BY <1>2, <2>2, <3>1, <3>2, Units
  <2> QED BY <2>1, <2>2
<1>6. DOMAIN S = 0 .. t + n - 1 /\ DOMAIN S \subseteq Nat
  BY <1>3
<1> QED BY <1>1, <1>2, <1>5, <1>6 DEF S, t

\* Writing the section of a process preserves the invariant.
LEMMA WriteMetaIInv == ASSUME IInv, NEW r \in Rank, WriteMeta(r) PROVE IInv'
<1>1. /\ pc[r] = "mdwrite"
      /\ disk' = Written(r, base[r], SectionOf(r))
      /\ idxvalid' = [idxvalid EXCEPT ![r] = FALSE]
      /\ metadirty' = [metadirty EXCEPT ![r] = FALSE]
      /\ wreqs' = [wreqs EXCEPT ![r] = <<>>]
      /\ base' = [base EXCEPT ![r] = 0]
      /\ mdoffs' = IF r = 0 THEN <<>> ELSE mdoffs
      /\ pc' = [pc EXCEPT ![r] = "mdbarrier"]
      /\ UNCHANGED <<prog, nflushed, idx, view, counters, fsize, mtype,
                     eof, ld, md, att, placed, got>>
  BY DEF WriteMeta, AfterMeta
<1>2. pc' \in [Rank -> Joint \cup Local]
  BY <1>1 DEF IInv, TypeOK, Joint
<1>3. TypeOK'
  <2>1. wreqs' \in [Rank -> Seq(Entry)] /\ base' \in [Rank -> Nat] /\ mdoffs' \in Seq(Nat)
    <3>1. wreqs \in [Rank -> Seq(Entry)] /\ base \in [Rank -> Nat] /\ mdoffs \in Seq(Nat)
      BY DEF IInv, TypeOK
    <3> QED BY <1>1, <3>1, EmptySeq
  <2>2. idxvalid' \in [Rank -> BOOLEAN] /\ metadirty' \in [Rank -> BOOLEAN]
    BY <1>1 DEF IInv, TypeOK
  <2>3. /\ DOMAIN disk' \subseteq Nat
        /\ \A x \in DOMAIN disk' : disk'[x] \in Unit \ {Nothing}
    <3>1. TypeOK /\ ViewsAscend /\ base[r] \in Nat
      BY DEF IInv, TypeOK
    <3>2. /\ DOMAIN SectionOf(r) \subseteq Nat
          /\ \A i \in DOMAIN SectionOf(r) : SectionOf(r)[i] \in Unit \ {Nothing}
      BY <1>1, SectionUnits
    <3> QED BY <1>1, <3>1, <3>2, WrittenTypes
  <2> QED BY <1>1, <1>2, <2>1, <2>2, <2>3 DEF IInv, TypeOK, prog, counters
<1>4. NamesAgree'
  BY <1>1 DEF IInv, NamesAgree
<1>5. Counted' /\ SizeIdle'
  BY <1>1 DEF IInv, TypeOK, Counted, SizeIdle, counters
<1>6. ~ (session > 1) /\ AttCounts' /\ ReadOnly'
  BY <1>1 DEF IInv, TypeOK, AttCounts, ReadOnly, prog
<1>7. InCall' /\ FiniteHistory'
  BY <1>1 DEF IInv, InCall, FiniteHistory, prog
<1>8. ViewsAscend' /\ FiniteIndex' /\ TableReady'
  <2>1. TableReady'
    BY <1>1, Constants DEF IInv, TypeOK, TableReady
  <2> QED BY <1>1, <2>1 DEF IInv, ViewsAscend, FiniteIndex
<1> QED BY <1>3, <1>4, <1>5, <1>6, <1>7, <1>8 DEF IInv

\* Leaving the barrier of the metadata flush preserves the invariant.
LEMMA MetaBarrierIInv == ASSUME IInv, MetaBarrier PROVE IInv'
<1>1. /\ \A r \in Rank : pc[r] = "mdbarrier"
      /\ pc' = [r \in Rank |-> AfterBarrier(r)]
      /\ UNCHANGED <<prog, queue, flags, idx, view, counters, scratch, store, got>>
  BY DEF MetaBarrier
<1>2. \A r \in Rank : pc'[r] \in {"fclose", "load"}
  BY <1>1 DEF AfterBarrier
<1>3. TypeOK'
  BY <1>1, <1>2 DEF IInv, TypeOK, prog, queue, flags, counters, scratch, store,
                    AfterBarrier, Joint, Local
<1>4. SizeIdle' /\ Counted' /\ AttCounts' /\ NamesAgree' /\ FiniteHistory' /\ InCall'
  BY <1>1, <1>2 DEF IInv, SizeIdle, Counted, AttCounts, NamesAgree, FiniteHistory, InCall,
                    prog, counters, scratch, store
<1>5. ReadOnly'
  BY <1>1, Constants DEF IInv, ReadOnly, prog
<1>6. ViewsAscend' /\ FiniteIndex' /\ TableReady'
  <2>1. UNCHANGED <<idx, view, mdoffs>> /\ (pc'[0] = "mdwrite" => pc[0] = "mdwrite")
    BY <1>1, <1>2, Constants DEF IInv, TypeOK, scratch
  <2> QED BY <2>1, SameViews
<1> QED BY <1>3, <1>4, <1>5, <1>6 DEF IInv

\* Entering a read preserves the invariant.
LEMMA H5DreadIInv == ASSUME IInv, NEW r \in Rank, H5Dread(r) PROVE IInv'
<1>1. /\ Call(r, "read")
      /\ UNCHANGED <<session, dirty, issued, queue, flags, idx, view, counters, scratch,
                     store, got>>
  BY DEF H5Dread
<1>2. PICK t \in {"app", "search", "gather", "load"} :
        /\ pc' = [pc EXCEPT ![r] = t]
        /\ t = "gather" => metadirty[r]
  <2>1. pc \in [Rank -> Joint \cup Local] /\ pc[r] = "app"
    BY <1>1 DEF IInv, TypeOK, Call
  <2>2. CASE pc' = pc
    BY <2>1, <2>2
  <2>3. CASE pc' # pc
    BY <2>3 DEF H5Dread
  <2> QED BY <2>2, <2>3
<1>3. /\ calls' \in Seq(Ops) /\ ncall' = [ncall EXCEPT ![r] = @ + 1]
      /\ ncall' \in [Rank -> Nat] /\ InCall'
      /\ \A q \in Rank : ncall[q] >= 1 => calls'[ncall[q]] = calls[ncall[q]]
      /\ pc[r] = "app"
  BY <1>1, CallFacts DEF Ops
<1>4. TypeOK'
  BY <1>1, <1>2, <1>3 DEF IInv, TypeOK, queue, flags, counters, scratch, store, Joint, Local
<1>5. SizeIdle' /\ Counted' /\ AttCounts' /\ NamesAgree' /\ FiniteHistory'
  BY <1>1, <1>2, <1>3 DEF IInv, TypeOK, SizeIdle, Counted, AttCounts, NamesAgree,
                          FiniteHistory, counters, scratch, store
<1>6. ReadOnly'
  BY <1>1, <1>2, <1>3 DEF IInv, TypeOK, ReadOnly, queue, flags, scratch
<1>7. ViewsAscend' /\ FiniteIndex' /\ TableReady'
  <2>1. UNCHANGED <<idx, view, mdoffs>> /\ (pc'[0] = "mdwrite" => pc[0] = "mdwrite")
    BY <1>1, <1>2, Constants DEF IInv, TypeOK, scratch
  <2> QED BY <2>1, SameViews
<1> QED BY <1>3, <1>4, <1>5, <1>6, <1>7 DEF IInv

\* The decoded part of a metadata dataset is finite.
LEMMA EntriesFinite ==
  ASSUME TypeOK, NEW m \in Dataset
  PROVE  /\ EntriesOf(m) \subseteq Unit /\ IsFiniteSet(EntriesOf(m))
         /\ Sections(m) \in Nat
<1>1. m.doff \in Nat /\ m.size \in Nat
  BY DEF Dataset
<1>2. \A o : UnitAt(o) \in Unit
  BY DEF UnitAt, TypeOK, Unit
<1>3. Sections(m) \in Nat
  BY DEF Sections, Word
<1> DEFINE I == m.doff + Sections(m) + 1 .. m.doff + m.size - 1
           f == [o \in I |-> UnitAt(o)]
<1>4. IsFiniteSet(I)
  <2>1. m.doff + Sections(m) + 1 \in Int /\ m.doff + m.size - 1 \in Int
    BY <1>1, <1>3
  <2> QED BY <2>1, FS_Interval
<1>5. EntriesOf(m) = {UnitAt(o) : o \in I}
  BY DEF EntriesOf
<1> HIDE DEF I
<1>6. f \in Surjection(I, EntriesOf(m))
  BY <1>5 DEF Surjection
<1>7. IsFiniteSet(EntriesOf(m))
  <2> HIDE DEF f
  <2> QED BY <1>4, <1>6, FS_Surjection
<1> QED BY <1>2, <1>3, <1>5, <1>7

\* What metaupdate puts into an index.
LEMMA LoadedTypes ==
  ASSUME IInv, NEW r \in Rank
  PROVE  /\ UNION {EntriesOf(md[k]) : k \in 1 .. nmdset[r]} \subseteq Unit
         /\ IsFiniteSet(UNION {EntriesOf(md[k]) : k \in 1 .. nmdset[r]})
<1>1. /\ nmdset[r] \in Nat /\ TypeOK
      /\ \A k \in 1 .. nmdset[r] : md[k] \in Dataset
  <2>1. md \in Seq(Dataset) /\ nmdset[r] = Len(md) /\ TypeOK
    BY DEF IInv, TypeOK, Counted
  <2> QED BY <2>1, LenProperties
<1> DEFINE K == 1 .. nmdset[r]
           T == {EntriesOf(md[k]) : k \in K}
           f == [k \in K |-> EntriesOf(md[k])]
<1>2. \A k \in K : EntriesOf(md[k]) \subseteq Unit /\ IsFiniteSet(EntriesOf(md[k]))
  BY <1>1, EntriesFinite
<1>3. IsFiniteSet(K)
  BY <1>1, FS_Interval
<1> HIDE DEF K
<1>4. f \in Surjection(K, T)
  BY DEF Surjection
<1>5. \A S \in T : IsFiniteSet(S) /\ S \subseteq Unit
  BY <1>2
<1>6. IsFiniteSet(T)
  <2> HIDE DEF f, T
  <2> QED BY <1>3, <1>4, FS_Surjection
<1>7. IsFiniteSet(UNION T) /\ UNION T \subseteq Unit
  <2> HIDE DEF T
  <2>1. \A S \in T : IsFiniteSet(S)
    BY <1>5
  <2>2. IsFiniteSet(UNION T)
    BY <1>6, <2>1, FS_UNION
  <2> QED BY <1>5, <2>2
<1> QED BY <1>7 DEF T, K

\* Building the index preserves the invariant.
LEMMA LoadIndexIInv == ASSUME IInv, NEW r \in Rank, LoadIndex(r) PROVE IInv'
<1>1. /\ pc[r] = "load"
      /\ idx' = [idx EXCEPT ![r] = UNION {EntriesOf(md[k]) : k \in 1 .. nmdset[r]}]
      /\ UNCHANGED <<prog, queue, metadirty, view, counters, scratch, store, got>>
  BY DEF LoadIndex
<1>2. PICK t \in {"search", "failed"} : pc' = [pc EXCEPT ![r] = t]
  BY DEF LoadIndex
<1>3. idxvalid' \in [Rank -> BOOLEAN]
  BY DEF LoadIndex, IInv, TypeOK
<1>4. TypeOK'
  <2>1. DOMAIN idx' = Rank /\ \A q \in Rank : idx'[q] \subseteq Unit
    BY <1>1, LoadedTypes DEF IInv, TypeOK
  <2>2. pc' \in [Rank -> Joint \cup Local]
    BY <1>2 DEF IInv, TypeOK, Local
  <2> QED BY <1>1, <1>3, <2>1, <2>2 DEF IInv, TypeOK, prog, queue, counters, scratch, store
<1>5. SizeIdle' /\ Counted' /\ AttCounts' /\ NamesAgree' /\ FiniteHistory' /\ InCall'
  BY <1>1, <1>2 DEF IInv, TypeOK, SizeIdle, Counted, AttCounts, NamesAgree, FiniteHistory,
              InCall, prog, counters, scratch, store
<1>6. ReadOnly'
  BY <1>1, <1>2 DEF IInv, TypeOK, ReadOnly, prog, queue, scratch
<1>7. ViewsAscend' /\ FiniteIndex' /\ TableReady'
  <2>1. FiniteIndex'
    BY <1>1, LoadedTypes DEF IInv, TypeOK, FiniteIndex
  <2>2. TableReady'
    BY <1>1, <1>2, Constants DEF IInv, TypeOK, TableReady, scratch
  <2> QED BY <1>1, <2>1, <2>2 DEF IInv, ViewsAscend
<1> QED BY <1>4, <1>5, <1>6, <1>7 DEF IInv

\* The bytes of finitely many entries are finitely many.
LEMMA HitBytesFinite ==
  ASSUME NEW h \in SUBSET Entry, IsFiniteSet(h), NEW junk \in Nat
  PROVE  HitBytes(h, junk) \in SUBSET Nat /\ IsFiniteSet(HitBytes(h, junk))
<1> DEFINE foff(e) == IF e.foff = Unset THEN junk ELSE e.foff
           span(e) == foff(e) .. foff(e) + e.w.size - 1
           T == {span(e) : e \in h}
           f == [e \in h |-> span(e)]
<1>1. ASSUME NEW e \in h PROVE IsFiniteSet(span(e)) /\ span(e) \subseteq Nat
  <2>1. foff(e) \in Nat /\ e.w.size \in Nat
    <3>1. e \in Entry
      OBVIOUS
    <3> QED BY <3>1, EntryFields
  <2> HIDE DEF foff
  <2>2. foff(e) + e.w.size - 1 \in Int
    BY <2>1
  <2>3. IsFiniteSet(span(e))
    BY <2>1, <2>2, FS_Interval
  <2> QED BY <2>1, <2>3
<1>2. f \in Surjection(h, T)
  <2> HIDE DEF span
  <2> QED BY DEF Surjection
<1>3. \A S \in T : IsFiniteSet(S) /\ S \subseteq Nat
  <2> HIDE DEF span
  <2> QED BY <1>1
<1>4. IsFiniteSet(T)
  <2> HIDE DEF f, T
  <2> QED BY <1>2, FS_Surjection
<1>5. IsFiniteSet(UNION T) /\ UNION T \subseteq Nat
  <2> HIDE DEF T
  <2>1. \A S \in T : IsFiniteSet(S)
    BY <1>3
  <2>2. IsFiniteSet(UNION T)
    BY <1>4, <2>1, FS_UNION
  <2> QED BY <1>3, <2>2
<1>6. HitBytes(h, junk) = UNION T
  BY DEF HitBytes
<1> HIDE DEF T
<1> QED BY <1>5, <1>6

\* The views a read can leave.
LEMMA ViewsTypes ==
  ASSUME NEW h \in SUBSET Entry, IsFiniteSet(h), NEW v \in Views(h)
  PROVE  v \in Seq(Nat) /\ Ascends(v)
<1>1. PICK junk \in Junk : v = Sorted(HitBytes(h, junk))
  BY DEF Views
<1>2. junk \in Nat
  BY Parameters
<1>3. HitBytes(h, junk) \in SUBSET Nat /\ IsFiniteSet(HitBytes(h, junk))
  BY <1>2, HitBytesFinite
<1> QED BY <1>1, <1>3, SortedAscends

\* The entries a search finds.
LEMMA HitsTypes ==
  ASSUME IInv, NEW r \in Rank, NEW c
  PROVE  Hits(r, c) \in SUBSET Entry /\ Hits(r, c) \subseteq idx[r] /\ IsFiniteSet(Hits(r, c))
<1>1. Hits(r, c) \in SUBSET idx[r] /\ Hits(r, c) \subseteq Entry
  BY DEF Hits
<1>2. IsFiniteSet(idx[r])
  BY DEF IInv, FiniteIndex
<1>3. IsFiniteSet(Hits(r, c))
  BY <1>1, <1>2, FS_Subset
<1> QED BY <1>1, <1>3

\* Searching the index preserves the invariant.
LEMMA SearchIInv ==
  ASSUME IInv, NEW r \in Rank, NEW c \in Cells, Search(r, c) PROVE IInv'
<1>1. /\ pc[r] = "search"
      /\ pc' = [pc EXCEPT ![r] = "readall"]
      /\ UNCHANGED <<prog, queue, flags, idx, counters, scratch, store>>
  BY DEF Search
<1>2. got' \in [Rank -> Write \cup {Nothing, Garbage}]
  <2>1. got \in [Rank -> Write \cup {Nothing, Garbage}]
    BY DEF IInv, TypeOK
  <2>2. ASSUME NEW e \in Hits(r, c) PROVE BytesAt(e) \in Write \cup {Nothing, Garbage}
    BY DEF BytesAt
  <2>3. CASE got' = [got EXCEPT ![r] = Nothing]
    BY <2>1, <2>3
  <2>4. CASE \E e \in Hits(r, c) : got' = [got EXCEPT ![r] = BytesAt(e)]
    BY <2>1, <2>2, <2>4
  <2> QED BY <2>3, <2>4 DEF Search
<1>3. view' \in [Rank -> Seq(Nat)] /\ ViewsAscend'
  <2>1. PICK v \in Views(Hits(r, c)) : view' = [view EXCEPT ![r] = v]
    BY DEF Search
  <2>2. v \in Seq(Nat) /\ Ascends(v)
    BY HitsTypes, ViewsTypes
  <2>3. view \in [Rank -> Seq(Nat)] /\ \A q \in Rank : Ascends(view[q])
    BY DEF IInv, TypeOK, ViewsAscend
  <2> QED BY <2>1, <2>2, <2>3 DEF ViewsAscend
<1>4. TypeOK'
  BY <1>1, <1>2, <1>3 DEF IInv, TypeOK, prog, queue, flags, counters, scratch, store, Joint
<1>5. SizeIdle' /\ Counted' /\ AttCounts' /\ NamesAgree' /\ FiniteHistory' /\ InCall'
  BY <1>1 DEF IInv, TypeOK, SizeIdle, Counted, AttCounts, NamesAgree, FiniteHistory, InCall,
              prog, counters, scratch, store
<1>6. ReadOnly'
  BY <1>1 DEF IInv, TypeOK, ReadOnly, prog, queue, flags, scratch
<1>7. FiniteIndex' /\ TableReady'
  BY <1>1, Constants DEF IInv, TypeOK, FiniteIndex, TableReady, scratch
<1> QED BY <1>3, <1>4, <1>5, <1>6, <1>7 DEF IInv

\* A read that fails preserves the invariant.
LEMMA SearchFailsIInv ==
  ASSUME IInv, NEW r \in Rank, NEW c \in Cells, SearchFails(r, c) PROVE IInv'
<1>1. /\ pc[r] = "search"
      /\ pc' = [pc EXCEPT ![r] = "failed"]
      /\ UNCHANGED <<prog, queue, flags, idx, view, counters, scratch, store, got>>
  BY DEF SearchFails
<1>2. TypeOK'
  BY <1>1 DEF IInv, TypeOK, prog, queue, flags, counters, scratch, store, Local
<1>3. SizeIdle' /\ Counted' /\ AttCounts' /\ NamesAgree' /\ FiniteHistory' /\ InCall'
  BY <1>1 DEF IInv, TypeOK, SizeIdle, Counted, AttCounts, NamesAgree, FiniteHistory, InCall,
              prog, counters, scratch, store
<1>4. ReadOnly'
  BY <1>1 DEF IInv, TypeOK, ReadOnly, prog, queue, flags, scratch
<1>5. ViewsAscend' /\ FiniteIndex' /\ TableReady'
  <2>1. UNCHANGED <<idx, view, mdoffs>> /\ (pc'[0] = "mdwrite" => pc[0] = "mdwrite")
    BY <1>1, Constants DEF IInv, TypeOK, scratch
  <2> QED BY <2>1, SameViews
<1> QED BY <1>2, <1>3, <1>4, <1>5 DEF IInv

\* Completing a read preserves the invariant.
LEMMA ReadAllIInv == ASSUME IInv, ReadAll PROVE IInv'
<1>1. /\ \A r \in Rank : pc[r] = "readall"
      /\ pc' = [r \in Rank |-> "app"]
      /\ UNCHANGED <<prog, queue, flags, idx, view, counters, scratch, store, got>>
  BY DEF ReadAll
<1>2. TypeOK'
  BY <1>1 DEF IInv, TypeOK, prog, queue, flags, counters, scratch, store, Local
<1>3. SizeIdle' /\ Counted' /\ AttCounts' /\ NamesAgree' /\ FiniteHistory' /\ InCall'
  BY <1>1 DEF IInv, SizeIdle, Counted, AttCounts, NamesAgree, FiniteHistory, InCall,
              prog, counters, scratch, store
<1>4. ReadOnly'
  BY <1>1 DEF IInv, ReadOnly, prog, queue, flags, scratch
<1>5. ViewsAscend' /\ FiniteIndex' /\ TableReady'
  <2>1. UNCHANGED <<idx, view, mdoffs>> /\ (pc'[0] = "mdwrite" => pc[0] = "mdwrite")
    BY <1>1, Constants DEF IInv, TypeOK, scratch
  <2> QED BY <2>1, SameViews
<1> QED BY <1>2, <1>3, <1>4, <1>5 DEF IInv

\* Entering a close preserves the invariant.
LEMMA H5FcloseIInv == ASSUME IInv, NEW r \in Rank, H5Fclose(r) PROVE IInv'
<1>1. /\ Call(r, "close")
      /\ UNCHANGED <<session, dirty, issued, nflushed, flags, idx, view, counters, base,
                     mdoffs, store, got>>
  BY DEF H5Fclose
<1>2. /\ calls' \in Seq(Ops) /\ ncall' = [ncall EXCEPT ![r] = @ + 1]
      /\ ncall' \in [Rank -> Nat] /\ InCall'
      /\ \A q \in Rank : ncall[q] >= 1 => calls'[ncall[q]] = calls[ncall[q]]
      /\ pc[r] = "app"
  BY <1>1, CallFacts DEF Ops
<1>3. CASE ~ (session > 1) /\ Len(wreqs[r]) > nflushed[r]
  <2>0. StartFlush(r)
    BY <1>3 DEF H5Fclose
  <2>1. /\ wreqs' \in [Rank -> Seq(Entry)]
        /\ fsize' \in [Rank -> Nat]
        /\ DOMAIN mtype' = Rank
        /\ \A q \in Rank : mtype'[q] \in [0 .. fsize'[q] - 1 -> Write]
        /\ \A q \in Rank \ {r} : fsize'[q] = fsize[q]
        /\ pc' = [pc EXCEPT ![r] = "sync"]
    BY <2>0, StartFlushTypes DEF IInv
  <2>2. TypeOK'
    BY <1>1, <1>2, <2>1 DEF IInv, TypeOK, flags, counters, store, Joint
  <2>3. SizeIdle' /\ Counted' /\ AttCounts' /\ NamesAgree' /\ FiniteHistory'
    BY <1>1, <1>2, <2>1 DEF IInv, TypeOK, SizeIdle, Counted, AttCounts, NamesAgree,
                            FiniteHistory, counters, store
  <2>4. ReadOnly'
    BY <1>1, <1>3 DEF ReadOnly, IInv, TypeOK
  <2>5. ViewsAscend' /\ FiniteIndex' /\ TableReady'
    <3>1. UNCHANGED <<idx, view, mdoffs>> /\ (pc'[0] = "mdwrite" => pc[0] = "mdwrite")
      BY <1>1, <2>1, Constants DEF IInv, TypeOK
    <3> QED BY <3>1, SameViews
  <2> QED BY <1>2, <2>2, <2>3, <2>4, <2>5 DEF IInv
<1>4. CASE session > 1 \/ ~ (Len(wreqs[r]) > nflushed[r])
  <2>1. PICK t \in {"gather", "fclose"} :
          /\ pc' = [pc EXCEPT ![r] = t] /\ (session > 1 => t = "fclose")
          /\ UNCHANGED <<wreqs, fsize, mtype>>
    BY <1>4 DEF H5Fclose
  <2>2. TypeOK'
    BY <1>1, <1>2, <1>4, <2>1 DEF IInv, TypeOK, flags, counters, store, Joint
  <2>3. SizeIdle' /\ Counted' /\ AttCounts' /\ NamesAgree' /\ FiniteHistory'
    BY <1>1, <1>2, <1>4, <2>1 DEF IInv, TypeOK, SizeIdle, Counted, AttCounts, NamesAgree,
                                  FiniteHistory, counters, store
  <2>4. ReadOnly'
    BY <1>1, <1>2, <1>4, <2>1 DEF IInv, TypeOK, ReadOnly, flags
  <2>5. ViewsAscend' /\ FiniteIndex' /\ TableReady'
    <3>1. UNCHANGED <<idx, view, mdoffs>> /\ (pc'[0] = "mdwrite" => pc[0] = "mdwrite")
      BY <1>1, <2>1, Constants DEF IInv, TypeOK
    <3> QED BY <3>1, SameViews
  <2> QED BY <1>2, <2>2, <2>3, <2>4, <2>5 DEF IInv
<1> QED BY <1>3, <1>4

\* Completing a close preserves the invariant.
LEMMA CloseFileIInv == ASSUME IInv, CloseFile PROVE IInv'
<1>1. /\ \A r \in Rank : pc[r] = "fclose"
      /\ att' = IF session = 1 THEN [nldset |-> nldset[0], nmdset |-> nmdset[0]] ELSE att
      /\ pc' = [r \in Rank |-> "closed"]
      /\ UNCHANGED <<prog, queue, flags, idx, view, counters, scratch, eof, disk, ld, md,
                     placed, got>>
  BY DEF CloseFile, AttAtClose
<1>2. nldset[0] = Len(ld) /\ nmdset[0] = Len(md) /\ nldset[0] \in Nat /\ nmdset[0] \in Nat
  BY <1>1, Constants DEF IInv, TypeOK, Counted
<1>3. TypeOK'
  BY <1>1, <1>2 DEF IInv, TypeOK, prog, queue, flags, counters, scratch, Joint
<1>4. AttCounts'
  BY <1>1, <1>2 DEF IInv, TypeOK, AttCounts, prog
<1>5. SizeIdle' /\ Counted' /\ NamesAgree' /\ FiniteHistory' /\ InCall'
  BY <1>1 DEF IInv, SizeIdle, Counted, NamesAgree, FiniteHistory, InCall,
              prog, counters, scratch
<1>6. ReadOnly'
  BY <1>1 DEF IInv, ReadOnly, prog, queue, flags, scratch
<1>7. ViewsAscend' /\ FiniteIndex' /\ TableReady'
  <2>1. UNCHANGED <<idx, view, mdoffs>> /\ (pc'[0] = "mdwrite" => pc[0] = "mdwrite")
    BY <1>1, Constants DEF IInv, TypeOK, scratch
  <2> QED BY <2>1, SameViews
<1> QED BY <1>3, <1>4, <1>5, <1>6, <1>7 DEF IInv

\* Opening the file again preserves the invariant.
LEMMA ReopenIInv == ASSUME IInv, Reopen PROVE IInv'
<1>1. /\ \A r \in Rank : pc[r] = "closed"
      /\ session' = session + 1
      /\ calls' = <<>>
      /\ ncall' = [r \in Rank |-> 0]
      /\ wreqs' = [r \in Rank |-> <<>>]
      /\ nflushed' = [r \in Rank |-> 0]
      /\ metadirty' = [r \in Rank |-> FALSE]
      /\ idxvalid' = [r \in Rank |-> FALSE]
      /\ idx' = [r \in Rank |-> {}]
      /\ view' = [r \in Rank |-> Plain]
      /\ nldset' = [r \in Rank |-> att.nldset]
      /\ nmdset' = [r \in Rank |-> att.nmdset]
      /\ pc' = [r \in Rank |-> "app"]
      /\ UNCHANGED <<dirty, issued, scratch, store, got>>
  BY DEF Reopen
<1>2. /\ att.nldset = Len(ld) /\ att.nmdset = Len(md)
      /\ att.nldset \in Nat /\ att.nmdset \in Nat
  BY <1>1, Constants DEF IInv, TypeOK, AttCounts
<1>3. TypeOK'
  <2>1. session' \in Nat \ {0}
    BY <1>1 DEF IInv, TypeOK
  <2>2. /\ calls' \in Seq(Ops) /\ Len(calls') = 0
        /\ wreqs' \in [Rank -> Seq(Entry)] /\ view' \in [Rank -> Seq(Nat)]
    BY <1>1, EmptySeq DEF Plain
  <2> QED BY <1>1, <1>2, <2>1, <2>2 DEF IInv, TypeOK, scratch, store, Local
<1>4. Counted' /\ AttCounts'
  BY <1>1, <1>2 DEF Counted, AttCounts, store
<1>5. NamesAgree' /\ FiniteHistory'
  BY <1>1 DEF IInv, NamesAgree, FiniteHistory, store
<1>6. SizeIdle' /\ ReadOnly'
  BY <1>1 DEF IInv, SizeIdle, ReadOnly, scratch
<1>7. InCall'
  BY <1>1, EmptySeq DEF InCall
<1>8. ViewsAscend' /\ FiniteIndex' /\ TableReady'
  <2>1. DOMAIN Plain = {}
    BY EmptySeq DEF Plain
  <2>2. \A r \in Rank : view'[r] = Plain /\ idx'[r] = {} /\ pc'[r] = "app"
    BY <1>1
  <2>3. Ascends(Plain)
    BY <2>1 DEF Ascends
  <2> QED BY <2>2, <2>3, FS_EmptySet, Constants DEF ViewsAscend, FiniteIndex, TableReady
<1> QED BY <1>3, <1>4, <1>5, <1>6, <1>7, <1>8 DEF IInv

\* Every step preserves the invariant.
LEMMA NextIInv == IInv /\ [Next]_vars => IInv'
<1> SUFFICES ASSUME IInv, [Next]_vars PROVE IInv'
  OBVIOUS
<1>1. ASSUME NEW r \in Rank, Step(r) PROVE IInv'
  BY <1>1, H5DwriteIInv, H5FflushIInv, H5DreadIInv, H5FcloseIInv, WriteLogIInv,
     WriteMetaIInv, LoadIndexIInv, SearchIInv, SearchFailsIInv DEF Step
<1>2. CASE Collective
  BY <1>2, FlushNothingIInv, CreateLogIInv, CreateMetaIInv, MetaBarrierIInv, ReadAllIInv,
     CloseFileIInv DEF Collective
<1>3. CASE Reopen
  BY <1>3, ReopenIInv
<1>4. CASE Finished \/ UNCHANGED vars
  BY <1>4, StutterIInv DEF Finished
<1> QED BY <1>1, <1>2, <1>3, <1>4 DEF Next

-----------------------------------------------------------------------------
(* Theorems *)

\* The inductive invariant holds in every behaviour of LogFile.
THEOREM InvariantHolds == Spec => []IInv
BY InitIInv, NextIInv, PTL DEF Spec

\* Every variable keeps its type, for any number of processes, any sizes and
\* any bounds: H5VL_log_file_t never leaves the states its fields can have.
THEOREM TypeCorrect == Spec => []TypeOK
<1>1. IInv => TypeOK
  BY DEF IInv
<1> QED BY <1>1, InvariantHolds, PTL

\* Every log and metadata dataset is created under the next free name, and by
\* all processes under the same one, in any number of sessions.
THEOREM DatasetNamesAgree == Spec => []NamesAgree
<1>1. IInv => NamesAgree
  BY DEF IInv
<1> QED BY <1>1, InvariantHolds, PTL

-----------------------------------------------------------------------------
(* Blocks *)

\* A prefix sum of naturals never decreases.
LEMMA ScanMonotone ==
  ASSUME NEW n \in Nat, NEW p \in [0 .. n -> Nat], NEW s \in [1 .. n -> Nat],
         IsScan(p, s), NEW i \in 0 .. n, NEW j \in 0 .. n, i <= j
  PROVE  p[i] <= p[j]
<1> SUFFICES ASSUME p[j] < p[i] PROVE FALSE
  OBVIOUS
<1> DEFINE T == {k \in 0 .. n : i <= k /\ p[k] < p[i]}
<1>1. T \in SUBSET Nat /\ T # {}
  <2>1. j \in T
    OBVIOUS
  <2>2. T \subseteq Nat
    OBVIOUS
  <2> HIDE DEF T
  <2> QED BY <2>1, <2>2
<1>2. PICK k \in T : \A l \in T : k <= l
  BY <1>1, LeastNat
<1>3. k \in 0 .. n /\ i <= k /\ p[k] < p[i] /\ k # i
  OBVIOUS
<1>4. k - 1 \in 0 .. n /\ i <= k - 1 /\ k \in 1 .. n /\ k - 1 \notin T
  BY <1>2, <1>3
<1>5. ~ (p[k - 1] < p[i])
  BY <1>4
<1>6. p[k] = p[k - 1] + s[k]
  BY <1>4 DEF IsScan
<1>7. p[k] \in Nat /\ p[k - 1] \in Nat /\ s[k] \in Nat /\ p[i] \in Nat
  BY <1>4
<1> HIDE DEF T
<1> QED BY <1>3, <1>5, <1>6, <1>7

\* An offset lies in one block of a prefix sum only.
LEMMA ScanUnique ==
  ASSUME NEW n \in Nat, NEW p \in [0 .. n -> Nat], NEW s \in [1 .. n -> Nat],
         IsScan(p, s), NEW i \in 1 .. n, NEW j \in 1 .. n, NEW o \in Nat,
         p[i-1] <= o, o < p[i], p[j-1] <= o, o < p[j]
  PROVE  i = j
<1>1. /\ i \in 0 .. n /\ i - 1 \in 0 .. n /\ j \in 0 .. n /\ j - 1 \in 0 .. n
      /\ p[i] \in Nat /\ p[j] \in Nat /\ p[i - 1] \in Nat /\ p[j - 1] \in Nat
  OBVIOUS
<1>2. CASE i < j
  <2>1. i <= j - 1
    BY <1>2
  <2>2. p[i] <= p[j - 1]
    BY <1>1, <2>1, ScanMonotone
  <2> QED BY <1>1, <2>2
<1>3. CASE j < i
  <2>1. j <= i - 1
    BY <1>3
  <2>2. p[j] <= p[i - 1]
    BY <1>1, <2>1, ScanMonotone
  <2> QED BY <1>1, <2>2
<1> QED BY <1>2, <1>3

\* A prefix sum over the processes, and the end of the file.
LEMMA CreateScan ==
  ASSUME IInv, NEW p \in Scans(NP)
  PROVE  p \in [0 .. NP -> Nat] /\ p[NP] \in Nat /\ eof \in Nat
<1>1. p \in [0 .. NP -> Nat]
  BY Constants DEF Scans
<1>2. eof \in Nat
  BY DEF IInv, TypeOK
<1> QED BY <1>1, <1>2, Constants

\* The blocks of a data flush end with the dataset.
LEMMA FlushScan ==
  ASSUME IInv, NEW p \in [0 .. NP -> Nat], IsScan(p, FlushSizes), NEW r \in Rank
  PROVE  /\ FlushSizes \in [1 .. NP -> Nat]
         /\ p[r] \in Nat /\ p[r + 1] = p[r] + fsize[r] /\ fsize[r] \in Nat
         /\ p[r + 1] <= p[NP] /\ p[r] + fsize[r] <= p[NP]
<1>1. FlushSizes \in [1 .. NP -> Nat] /\ \A q \in Rank : FlushSizes[q + 1] = fsize[q]
  <2>1. fsize \in [Rank -> Nat]
    BY DEF IInv, TypeOK
  <2>2. \A i \in 1 .. NP : i - 1 \in Rank
    BY Constants DEF Rank
  <2>3. \A q \in Rank : q + 1 \in 1 .. NP /\ (q + 1) - 1 = q
    BY Constants DEF Rank
  <2> QED BY <2>1, <2>2, <2>3 DEF FlushSizes
<1>2. /\ r \in 0 .. NP /\ r + 1 \in 1 .. NP /\ (r + 1) - 1 = r
      /\ r + 1 \in 0 .. NP /\ NP \in 0 .. NP /\ r + 1 <= NP /\ NP \in Nat
  BY Constants DEF Rank
<1>3. p[r + 1] = p[(r + 1) - 1] + FlushSizes[r + 1]
  BY <1>1, <1>2 DEF IsScan
<1>4. fsize[r] \in Nat
  BY DEF IInv, TypeOK
<1>5. p[r + 1] <= p[NP]
  BY <1>1, <1>2, ScanMonotone
<1> QED BY <1>1, <1>2, <1>3, <1>4, <1>5

-----------------------------------------------------------------------------
(* The layout of the file *)

End(d) == d.doff + d.size
NewLog == ld[Len(ld)]
NewMeta == md[Len(md)]

\* Datasets lie behind the header, in creation order, and do not overlap.
Ordered(s) == \A j, k \in DOMAIN s : j < k => End(s[j]) <= s[k].doff
InFile(s) == \A k \in DOMAIN s : Header <= s[k].doff /\ End(s[k]) <= eof
Apart ==
  \A j \in DOMAIN ld, k \in DOMAIN md :
    End(ld[j]) <= md[k].doff \/ End(md[k]) <= ld[j].doff
FileOrder ==
  /\ Header <= eof
  /\ InFile(ld) /\ InFile(md)
  /\ Ordered(ld) /\ Ordered(md)
  /\ Apart

\* No process is in a data flush while another one writes metadata.
MetaPhase ==
  \A r, q \in Rank : pc[r] \in {"mdwrite", "mdbarrier"} => pc[q] \in {"mdwrite", "mdbarrier"}

\* A process about to write a block writes into the newest dataset, and through
\* a left-over view nowhere in front of it.
LogWriter(r) ==
  /\ Len(ld) \in DOMAIN ld
  /\ NewLog.doff <= base[r] /\ base[r] + fsize[r] <= End(NewLog)
  /\ \A k \in DOMAIN md : End(md[k]) <= NewLog.doff
  /\ NewLog.plain => view[r] = Plain
MetaWriter(r) ==
  /\ Len(md) \in DOMAIN md
  /\ NewMeta.doff <= base[r] /\ base[r] + TableSize(r) + Len(wreqs[r]) <= End(NewMeta)
  /\ \A k \in DOMAIN ld : End(ld[k]) <= NewMeta.doff
  /\ NewMeta.plain => view[r] = Plain
Writers ==
  \A r \in Rank : /\ pc[r] = "ldwrite" => LogWriter(r)
                  /\ pc[r] = "mdwrite" => MetaWriter(r)

\* While every dataset was created under plain views, nothing has been written
\* behind the end of the file.
EverPlain == (\A k \in DOMAIN ld : ld[k].plain) /\ (\A k \in DOMAIN md : md[k].plain)
NoStray == EverPlain => \A x \in DOMAIN disk : x < eof

Layout == FileOrder /\ MetaPhase /\ Writers /\ NoStray

\* The types of the datasets of a file.
LEMMA DatasetTypes ==
  ASSUME TypeOK
  PROVE  /\ Len(ld) \in Nat /\ DOMAIN ld = 1 .. Len(ld)
         /\ Len(md) \in Nat /\ DOMAIN md = 1 .. Len(md)
         /\ \A k \in DOMAIN ld : ld[k] \in Dataset /\ ld[k].doff \in Nat /\ ld[k].size \in Nat
                                 /\ End(ld[k]) \in Nat
         /\ \A k \in DOMAIN md : md[k] \in Dataset /\ md[k].doff \in Nat /\ md[k].size \in Nat
                                 /\ End(md[k]) \in Nat
<1>1. ld \in Seq(Dataset) /\ md \in Seq(Dataset)
  BY DEF TypeOK
<1>2. \A d \in Dataset : d.doff \in Nat /\ d.size \in Nat /\ End(d) \in Nat
  BY DEF Dataset, End
<1>3. /\ Len(ld) \in Nat /\ DOMAIN ld = 1 .. Len(ld) /\ \A k \in DOMAIN ld : ld[k] \in Dataset
      /\ Len(md) \in Nat /\ DOMAIN md = 1 .. Len(md) /\ \A k \in DOMAIN md : md[k] \in Dataset
  BY <1>1, LenProperties
<1> QED BY <1>2, <1>3

\* What a write changes: through the plain view the units it names, through any
\* other nothing in front of its offset.
LEMMA WrittenUnits ==
  ASSUME IInv, NEW r \in Rank, NEW o \in Nat, NEW u, DOMAIN u \subseteq Nat,
         disk' = Written(r, o, u), NEW x \in Nat
  PROVE  /\ x < o => UnitAt(x)' = UnitAt(x)
         /\ view[r] = Plain =>
              UnitAt(x)' = IF x - o \in DOMAIN u THEN u[x - o] ELSE UnitAt(x)
         /\ view[r] # Plain =>
              view[r][1] \in Nat /\ (x < o + view[r][1] => UnitAt(x)' = UnitAt(x))
         /\ view[r] = Plain /\ x \in DOMAIN disk' => x \in DOMAIN disk \/ x - o \in DOMAIN u
<1> DEFINE at == [i \in DOMAIN u |-> Place(view[r], o + i)]
           v == view[r]
<1>1. v \in Seq(Nat) /\ Ascends(v)
  BY DEF IInv, TypeOK, ViewsAscend
<1>2. ASSUME NEW i \in DOMAIN u
      PROVE  /\ at[i] \in Nat /\ at[i] >= o /\ i \in Nat
             /\ v = Plain => at[i] = o + i
             /\ v # Plain => v[1] \in Nat /\ at[i] >= o + v[1]
  <2>1. o + i \in Nat /\ i \in Nat /\ at[i] = Place(v, o + i)
    OBVIOUS
  <2> HIDE DEF at, v
  <2>2. /\ Place(v, o + i) \in Nat
        /\ v = Plain => Place(v, o + i) = o + i
        /\ v # Plain => v[1] \in Nat /\ Place(v, o + i) >= v[1] + (o + i)
    BY <1>1, <2>1, PlaceBounds
  <2> QED BY <2>1, <2>2
<1>3. disk' = [y \in DOMAIN disk \cup {at[i] : i \in DOMAIN u} |->
                 IF \E i \in DOMAIN u : at[i] = y
                 THEN u[CHOOSE i \in DOMAIN u : at[i] = y]
                 ELSE disk[y]]
  BY DEF Written
<1> HIDE DEF at
<1>4. ASSUME \A i \in DOMAIN u : at[i] # x
      PROVE  UnitAt(x)' = UnitAt(x) /\ (x \in DOMAIN disk' => x \in DOMAIN disk)
  BY <1>3, <1>4 DEF UnitAt
<1>5. ASSUME NEW j \in DOMAIN u, at[j] = x, v = Plain
      PROVE  UnitAt(x)' = u[j] /\ j = x - o
  <2> DEFINE c == CHOOSE i \in DOMAIN u : at[i] = x
  <2>1. c \in DOMAIN u /\ at[c] = x
    BY <1>5
  <2>2. x \in DOMAIN disk' /\ disk'[x] = u[c]
    BY <1>3, <1>5
  <2> HIDE DEF c, v
  <2>3. c = x - o /\ j = x - o
    BY <1>2, <1>5, <2>1
  <2> QED BY <2>2, <2>3 DEF UnitAt
<1>6. x < o => UnitAt(x)' = UnitAt(x)
  <2> SUFFICES ASSUME x < o PROVE UnitAt(x)' = UnitAt(x)
    OBVIOUS
  <2>1. \A i \in DOMAIN u : at[i] # x
    <3> SUFFICES ASSUME NEW i \in DOMAIN u PROVE at[i] # x
      OBVIOUS
    <3>1. at[i] \in Nat /\ at[i] >= o
      BY <1>2
    <3> QED BY <3>1
  <2> QED BY <1>4, <2>1
<1>7. ASSUME v = Plain
      PROVE  /\ UnitAt(x)' = IF x - o \in DOMAIN u THEN u[x - o] ELSE UnitAt(x)
             /\ x \in DOMAIN disk' => x \in DOMAIN disk \/ x - o \in DOMAIN u
  <2>1. CASE x - o \in DOMAIN u
    <3>1. at[x - o] = o + (x - o) /\ x - o \in Nat
      BY <1>2, <1>7, <2>1
    <3>2. at[x - o] = x
      BY <3>1
    <3> HIDE DEF v
    <3> QED BY <1>5, <1>7, <2>1, <3>2
  <2>2. CASE x - o \notin DOMAIN u
    <3>1. \A i \in DOMAIN u : at[i] # x
      <4> SUFFICES ASSUME NEW i \in DOMAIN u, at[i] = x PROVE FALSE
        OBVIOUS
      <4>1. at[i] = o + i /\ i \in Nat
        BY <1>2, <1>7
      <4>2. i = x - o
        BY <4>1
      <4> QED BY <2>2, <4>2
    <3> QED BY <1>4, <2>2, <3>1
  <2> QED BY <2>1, <2>2
<1>8. ASSUME v # Plain
      PROVE  v[1] \in Nat /\ (x < o + v[1] => UnitAt(x)' = UnitAt(x))
  <2>1. v[1] \in Nat
    <3>1. Place(v, 0) \in Nat /\ v[1] \in Nat
      BY <1>1, <1>8, PlaceBounds
    <3> QED BY <3>1
  <2>2. ASSUME x < o + v[1] PROVE \A i \in DOMAIN u : at[i] # x
    <3> SUFFICES ASSUME NEW i \in DOMAIN u PROVE at[i] # x
      OBVIOUS
    <3>1. at[i] \in Nat /\ at[i] >= o + v[1]
      BY <1>2, <1>8
    <3> HIDE DEF v
    <3> QED BY <2>1, <2>2, <3>1
  <2> QED BY <1>4, <2>1, <2>2
<1> QED BY <1>6, <1>7, <1>8

\* A step that leaves the file and every writer alone keeps the layout.
LEMMA LayoutFrame ==
  ASSUME Layout, MetaPhase', UNCHANGED <<eof, ld, md, disk>>,
         \A r \in Rank : pc'[r] \in {"ldwrite", "mdwrite"} =>
           /\ pc'[r] = pc[r] /\ wreqs'[r] = wreqs[r] /\ fsize'[r] = fsize[r]
           /\ base'[r] = base[r] /\ view'[r] = view[r]
  PROVE  Layout'
<1>1. FileOrder'
  BY DEF Layout, FileOrder, InFile, Ordered, Apart, End
<1>2. Writers'
  <2> SUFFICES ASSUME NEW r \in Rank
               PROVE  /\ pc'[r] = "ldwrite" => LogWriter(r)'
                      /\ pc'[r] = "mdwrite" => MetaWriter(r)'
    BY DEF Writers
  <2>1. ASSUME pc'[r] = "ldwrite" PROVE LogWriter(r)'
    <3>1. LogWriter(r) /\ base'[r] = base[r] /\ fsize'[r] = fsize[r] /\ view'[r] = view[r]
      BY <2>1 DEF Layout, Writers
    <3> QED BY <3>1 DEF LogWriter, NewLog, End
  <2>2. ASSUME pc'[r] = "mdwrite" PROVE MetaWriter(r)'
    <3>1. MetaWriter(r) /\ base'[r] = base[r] /\ wreqs'[r] = wreqs[r] /\ view'[r] = view[r]
      BY <2>2 DEF Layout, Writers
    <3> QED BY <3>1 DEF MetaWriter, NewMeta, End, TableSize
  <2> QED BY <2>1, <2>2
<1>3. NoStray'
  BY DEF Layout, NoStray, EverPlain
<1> QED BY <1>1, <1>2, <1>3 DEF Layout

\* A process that moves outside the metadata flush.
LEMMA PhaseStep ==
  ASSUME TypeOK, MetaPhase, NEW r \in Rank, NEW t, pc' = [pc EXCEPT ![r] = t],
         pc[r] \notin {"mdwrite", "mdbarrier"}, t \notin {"mdwrite", "mdbarrier"}
  PROVE  MetaPhase'
<1>1. \A q \in Rank : pc[q] \notin {"mdwrite", "mdbarrier"}
  BY DEF MetaPhase
<1>2. \A q \in Rank : pc'[q] = IF q = r THEN t ELSE pc[q]
  BY DEF TypeOK
<1> QED BY <1>1, <1>2 DEF MetaPhase

\* A dataset at the end of the file is ordered behind and apart from the others.
LEMMA AppendOrder ==
  ASSUME NEW s \in Seq(Dataset), NEW t \in Seq(Dataset), NEW d \in Dataset,
         NEW z \in Nat, Header <= z, d.doff = z,
         \A k \in DOMAIN s : Header <= s[k].doff /\ End(s[k]) <= z,
         \A k \in DOMAIN t : Header <= t[k].doff /\ End(t[k]) <= z,
         Ordered(s)
  PROVE  /\ Header <= z + d.size
         /\ \A k \in DOMAIN Append(s, d) :
              Header <= Append(s, d)[k].doff /\ End(Append(s, d)[k]) <= z + d.size
         /\ \A k \in DOMAIN t : Header <= t[k].doff /\ End(t[k]) <= z + d.size
         /\ Ordered(Append(s, d))
         /\ Append(s, d)[Len(s) + 1] = d /\ Len(Append(s, d)) = Len(s) + 1
         /\ Len(s) + 1 \in DOMAIN Append(s, d)
         /\ \A k \in DOMAIN s : k \in DOMAIN Append(s, d) /\ Append(s, d)[k] = s[k]
         /\ \A k \in DOMAIN Append(s, d) : k = Len(s) + 1 \/ k \in DOMAIN s
<1> DEFINE a == Append(s, d)
<1>1. /\ Len(s) \in Nat /\ DOMAIN s = 1 .. Len(s)
      /\ DOMAIN a = 1 .. Len(s) + 1 /\ a[Len(s) + 1] = d /\ Len(a) = Len(s) + 1
      /\ \A k \in 1 .. Len(s) : a[k] = s[k]
      /\ \A k \in 1 .. Len(s) : s[k] \in Dataset
      /\ \A k \in DOMAIN t : t[k] \in Dataset
  BY AppendProperties, LenProperties
<1>2. \A e \in Dataset : e.doff \in Nat /\ e.size \in Nat /\ End(e) \in Nat /\ End(e) = e.doff + e.size
  BY DEF Dataset, End
<1>3. Header \in Nat /\ d.size \in Nat /\ End(d) = z + d.size
  BY <1>2, Parameters
<1> HIDE DEF a
<1>4. \A k \in DOMAIN a : k = Len(s) + 1 \/ k \in DOMAIN s
  BY <1>1
<1>5. \A k \in DOMAIN a : Header <= a[k].doff /\ End(a[k]) <= z + d.size
  <2> SUFFICES ASSUME NEW k \in DOMAIN a
               PROVE  Header <= a[k].doff /\ End(a[k]) <= z + d.size
    OBVIOUS
  <2>1. CASE k = Len(s) + 1
    BY <1>1, <1>3, <2>1
  <2>2. CASE k \in DOMAIN s
    <3>1. a[k] = s[k] /\ End(s[k]) \in Nat /\ End(s[k]) <= z /\ Header <= s[k].doff
      BY <1>1, <1>2, <2>2
    <3> QED BY <1>3, <3>1
  <2> QED BY <1>4, <2>1, <2>2
<1>6. ASSUME NEW k \in DOMAIN t PROVE Header <= t[k].doff /\ End(t[k]) <= z + d.size
  <2>1. End(t[k]) \in Nat /\ End(t[k]) <= z
    BY <1>1, <1>2
  <2> QED BY <1>3, <2>1
<1>7. Ordered(a)
  <2> SUFFICES ASSUME NEW j \in DOMAIN a, NEW k \in DOMAIN a, j < k
               PROVE  End(a[j]) <= a[k].doff
    BY DEF Ordered
  <2>1. j \in DOMAIN s /\ a[j] = s[j]
    BY <1>1
  <2>2. CASE k = Len(s) + 1
    BY <1>1, <2>1, <2>2
  <2>3. CASE k \in DOMAIN s
    BY <1>1, <2>1, <2>3 DEF Ordered
  <2> QED BY <1>4, <2>2, <2>3
<1>8. Header <= z + d.size
  BY <1>3
<1> QED BY <1>1, <1>4, <1>5, <1>6, <1>7, <1>8 DEF a

\* A new log dataset keeps the layout.
LEMMA CreateLogLayout == ASSUME IInv, Layout, CreateLog PROVE Layout'
<1>1. PICK p \in Scans(NP) :
       /\ IsScan(p, FlushSizes)
       /\ ld' = Append(ld, [names |-> {nldset[r] : r \in Rank},
                            doff |-> eof, size |-> p[NP], plain |-> AllPlain])
       /\ eof' = eof + p[NP]
       /\ base' = [r \in Rank |-> eof + p[r]]
  BY DEF CreateLog, BlockOffset
<1>2. /\ \A r \in Rank : pc[r] = "sync"
      /\ pc' = [r \in Rank |-> "ldwrite"]
      /\ UNCHANGED <<fsize, view, disk, md>>
  BY DEF CreateLog
<1>3. p \in [0 .. NP -> Nat] /\ p[NP] \in Nat /\ eof \in Nat
  BY <1>1, CreateScan
<1>4. \A r \in Rank : p[r] \in Nat /\ p[r] + fsize[r] <= p[NP] /\ fsize[r] \in Nat
  BY <1>1, <1>3, FlushScan
<1> DEFINE d == [names |-> {nldset[r] : r \in Rank}, doff |-> eof, size |-> p[NP],
                 plain |-> AllPlain]
<1>5. d \in Dataset /\ d.doff = eof /\ d.size = p[NP] /\ d.plain = AllPlain
  <2>1. \A r \in Rank : nldset[r] \in Nat
    BY DEF IInv, TypeOK
  <2> QED BY <1>3, <2>1 DEF Dataset, AllPlain
<1>6. ld' = Append(ld, d)
  BY <1>1
<1> HIDE DEF d
<1>7. /\ ld \in Seq(Dataset) /\ md \in Seq(Dataset) /\ Header <= eof
      /\ \A k \in DOMAIN ld : Header <= ld[k].doff /\ End(ld[k]) <= eof
      /\ \A k \in DOMAIN md : Header <= md[k].doff /\ End(md[k]) <= eof
      /\ Ordered(ld)
  BY DEF IInv, TypeOK, Layout, FileOrder, InFile
<1>8. /\ Header <= eof'
      /\ \A k \in DOMAIN ld' : Header <= ld'[k].doff /\ End(ld'[k]) <= eof'
      /\ \A k \in DOMAIN md : Header <= md[k].doff /\ End(md[k]) <= eof'
      /\ Ordered(ld')
      /\ ld'[Len(ld) + 1] = d /\ Len(ld') = Len(ld) + 1 /\ Len(ld) + 1 \in DOMAIN ld'
      /\ \A k \in DOMAIN ld : k \in DOMAIN ld' /\ ld'[k] = ld[k]
      /\ \A k \in DOMAIN ld' : k = Len(ld) + 1 \/ k \in DOMAIN ld
  <2> DEFINE z == eof
  <2>1. z \in Nat
    BY <1>3
  <2> HIDE DEF z
  <2>2. /\ Header <= z + d.size
        /\ \A k \in DOMAIN Append(ld, d) :
              Header <= Append(ld, d)[k].doff /\ End(Append(ld, d)[k]) <= z + d.size
        /\ \A k \in DOMAIN md : Header <= md[k].doff /\ End(md[k]) <= z + d.size
        /\ Ordered(Append(ld, d))
        /\ Append(ld, d)[Len(ld) + 1] = d /\ Len(Append(ld, d)) = Len(ld) + 1
        /\ Len(ld) + 1 \in DOMAIN Append(ld, d)
        /\ \A k \in DOMAIN ld : k \in DOMAIN Append(ld, d) /\ Append(ld, d)[k] = ld[k]
        /\ \A k \in DOMAIN Append(ld, d) : k = Len(ld) + 1 \/ k \in DOMAIN ld
    BY <1>5, <1>7, <2>1, AppendOrder DEF z
  <2>3. eof' = z + d.size
    BY <1>1, <1>5 DEF z
  <2> QED BY <1>6, <2>2, <2>3
<1>9. FileOrder'
  <2>1. Apart'
    <3> SUFFICES ASSUME NEW j \in DOMAIN ld', NEW k \in DOMAIN md
                 PROVE  End(ld'[j]) <= md[k].doff \/ End(md[k]) <= ld'[j].doff
      BY <1>2 DEF Apart, End
    <3>1. CASE j = Len(ld) + 1
      BY <1>5, <1>7, <1>8, <3>1
    <3>2. CASE j \in DOMAIN ld
      BY <1>8, <3>2 DEF Layout, FileOrder, Apart
    <3> QED BY <1>8, <3>1, <3>2
  <2>2. Ordered(md) /\ InFile(ld)' /\ InFile(md)' /\ Ordered(ld)' /\ Ordered(md)'
    BY <1>2, <1>8 DEF Layout, FileOrder, InFile, Ordered, End
  <2> QED BY <1>8, <2>1, <2>2 DEF FileOrder
<1>10. MetaPhase'
  BY <1>2 DEF MetaPhase
<1>11. Writers'
  <2> SUFFICES ASSUME NEW r \in Rank PROVE LogWriter(r)'
    BY <1>2 DEF Writers
  <2>1. NewLog' = d /\ Len(ld') \in DOMAIN ld'
    BY <1>8 DEF NewLog
  <2>2. End(NewLog)' = eof + p[NP]
    BY <1>5, <2>1 DEF End
  <2>3. base'[r] = eof + p[r]
    BY <1>1
  <2>4. NewLog'.doff <= base'[r] /\ base'[r] + fsize'[r] <= End(NewLog)'
    BY <1>2, <1>3, <1>4, <1>5, <2>1, <2>2, <2>3
  <2>5. \A k \in DOMAIN md : End(md[k])' <= NewLog'.doff
    BY <1>2, <1>5, <1>7, <2>1 DEF End
  <2>6. NewLog'.plain => view'[r] = Plain
    BY <1>2, <1>5, <2>1 DEF AllPlain
  <2> QED BY <1>2, <2>1, <2>4, <2>5, <2>6 DEF LogWriter
<1>12. NoStray'
  <2> SUFFICES ASSUME EverPlain', NEW x \in DOMAIN disk PROVE x < eof'
    BY <1>2 DEF NoStray
  <2>1. EverPlain
    BY <1>2, <1>8 DEF EverPlain
  <2>2. x < eof /\ x \in Nat
    BY <2>1 DEF Layout, NoStray, IInv, TypeOK
  <2> QED BY <1>1, <1>3, <2>2
<1> QED BY <1>9, <1>10, <1>11, <1>12 DEF Layout

\* The sections of a metadata flush end with the dataset.
LEMMA MetaScan ==
  ASSUME IInv, NEW p \in [0 .. NP -> Nat], IsScan(p, MetaSizes), NEW r \in Rank
  PROVE  /\ MetaSizes \in [1 .. NP -> Nat]
         /\ TableSize(r) + Len(wreqs[r]) \in Nat
         /\ p[r] \in Nat /\ p[r + 1] = p[r] + (TableSize(r) + Len(wreqs[r]))
         /\ p[r + 1] <= p[NP] /\ p[r] + (TableSize(r) + Len(wreqs[r])) <= p[NP]
<1>0. \A q \in Rank : TableSize(q) + Len(wreqs[q]) \in Nat
  <2> SUFFICES ASSUME NEW q \in Rank PROVE TableSize(q) + Len(wreqs[q]) \in Nat
    OBVIOUS
  <2>1. Len(wreqs[q]) \in Nat
    BY PendingCount DEF IInv
  <2>2. TableSize(q) \in Nat
    BY Constants DEF TableSize
  <2> QED BY <2>1, <2>2
<1>1. /\ MetaSizes \in [1 .. NP -> Nat]
      /\ \A q \in Rank : MetaSizes[q + 1] = TableSize(q) + Len(wreqs[q])
  <2>1. \A i \in 1 .. NP : i - 1 \in Rank
    BY Constants DEF Rank
  <2>2. \A q \in Rank : q + 1 \in 1 .. NP /\ (q + 1) - 1 = q
    BY Constants DEF Rank
  <2>3. MetaSizes = [i \in 1 .. NP |-> TableSize(i - 1) + Len(wreqs[i - 1])]
    BY DEF MetaSizes
  <2>4. \A i \in 1 .. NP : TableSize(i - 1) + Len(wreqs[i - 1]) \in Nat
    BY <1>0, <2>1
  <2>5. \A q \in Rank : MetaSizes[q + 1] = TableSize((q + 1) - 1) + Len(wreqs[(q + 1) - 1])
    BY <2>2, <2>3
  <2> QED BY <2>2, <2>3, <2>4, <2>5
<1>2. /\ r \in 0 .. NP /\ r + 1 \in 1 .. NP /\ (r + 1) - 1 = r
      /\ r + 1 \in 0 .. NP /\ NP \in 0 .. NP /\ r + 1 <= NP /\ NP \in Nat
  BY Constants DEF Rank
<1>3. p[r + 1] = p[(r + 1) - 1] + MetaSizes[r + 1]
  BY <1>1, <1>2 DEF IsScan
<1>5. p[r + 1] <= p[NP]
  BY <1>1, <1>2, ScanMonotone
<1> DEFINE z == TableSize(r) + Len(wreqs[r])
<1>6. z \in Nat /\ p[r + 1] = p[r] + z
  BY <1>0, <1>1, <1>2, <1>3
<1>7. p[r] \in Nat
  BY <1>2
<1> HIDE DEF z
<1>8. p[r] + z <= p[NP]
  BY <1>5, <1>6, <1>7
<1> QED BY <1>0, <1>1, <1>5, <1>6, <1>7, <1>8 DEF z

\* A new metadata dataset keeps the layout.
LEMMA CreateMetaLayout == ASSUME IInv, Layout, CreateMeta PROVE Layout'
<1>1. PICK p \in Scans(NP) :
       /\ IsScan(p, MetaSizes)
       /\ md' = Append(md, [names |-> {nmdset[r] : r \in Rank},
                            doff |-> eof, size |-> p[NP], plain |-> AllPlain])
       /\ eof' = eof + p[NP]
       /\ base' = [r \in Rank |-> eof + p[r]]
  BY DEF CreateMeta
<1>2. /\ \A r \in Rank : pc[r] = "gather"
      /\ pc' = [r \in Rank |-> "mdwrite"]
      /\ UNCHANGED <<wreqs, view, disk, ld>>
  BY DEF CreateMeta, queue
<1>3. p \in [0 .. NP -> Nat] /\ p[NP] \in Nat /\ eof \in Nat
  BY <1>1, CreateScan
<1>4. \A r \in Rank : p[r] \in Nat /\ p[r] + (TableSize(r) + Len(wreqs[r])) <= p[NP]
                        /\ TableSize(r) + Len(wreqs[r]) \in Nat
  BY <1>1, <1>3, MetaScan
<1> DEFINE d == [names |-> {nmdset[r] : r \in Rank}, doff |-> eof, size |-> p[NP],
                 plain |-> AllPlain]
<1>5. d \in Dataset /\ d.doff = eof /\ d.size = p[NP] /\ d.plain = AllPlain
  <2>1. \A r \in Rank : nmdset[r] \in Nat
    BY DEF IInv, TypeOK
  <2> QED BY <1>3, <2>1 DEF Dataset, AllPlain
<1>6. md' = Append(md, d)
  BY <1>1
<1> HIDE DEF d
<1>7. /\ md \in Seq(Dataset) /\ ld \in Seq(Dataset) /\ Header <= eof
      /\ \A k \in DOMAIN md : Header <= md[k].doff /\ End(md[k]) <= eof
      /\ \A k \in DOMAIN ld : Header <= ld[k].doff /\ End(ld[k]) <= eof
      /\ Ordered(md)
  BY DEF IInv, TypeOK, Layout, FileOrder, InFile
<1>8. /\ Header <= eof'
      /\ \A k \in DOMAIN md' : Header <= md'[k].doff /\ End(md'[k]) <= eof'
      /\ \A k \in DOMAIN ld : Header <= ld[k].doff /\ End(ld[k]) <= eof'
      /\ Ordered(md')
      /\ md'[Len(md) + 1] = d /\ Len(md') = Len(md) + 1 /\ Len(md) + 1 \in DOMAIN md'
      /\ \A k \in DOMAIN md : k \in DOMAIN md' /\ md'[k] = md[k]
      /\ \A k \in DOMAIN md' : k = Len(md) + 1 \/ k \in DOMAIN md
  <2> DEFINE z == eof
  <2>1. z \in Nat
    BY <1>3
  <2> HIDE DEF z
  <2>2. /\ Header <= z + d.size
        /\ \A k \in DOMAIN Append(md, d) :
              Header <= Append(md, d)[k].doff /\ End(Append(md, d)[k]) <= z + d.size
        /\ \A k \in DOMAIN ld : Header <= ld[k].doff /\ End(ld[k]) <= z + d.size
        /\ Ordered(Append(md, d))
        /\ Append(md, d)[Len(md) + 1] = d /\ Len(Append(md, d)) = Len(md) + 1
        /\ Len(md) + 1 \in DOMAIN Append(md, d)
        /\ \A k \in DOMAIN md : k \in DOMAIN Append(md, d) /\ Append(md, d)[k] = md[k]
        /\ \A k \in DOMAIN Append(md, d) : k = Len(md) + 1 \/ k \in DOMAIN md
    BY <1>5, <1>7, <2>1, AppendOrder DEF z
  <2>3. eof' = z + d.size
    BY <1>1, <1>5 DEF z
  <2> QED BY <1>6, <2>2, <2>3
<1>9. FileOrder'
  <2>1. Apart'
    <3> SUFFICES ASSUME NEW j \in DOMAIN md', NEW k \in DOMAIN ld
                 PROVE  End(ld[k]) <= md'[j].doff \/ End(md'[j]) <= ld[k].doff
      BY <1>2 DEF Apart, End
    <3>1. CASE j = Len(md) + 1
      BY <1>5, <1>7, <1>8, <3>1
    <3>2. CASE j \in DOMAIN md
      BY <1>8, <3>2 DEF Layout, FileOrder, Apart
    <3> QED BY <1>8, <3>1, <3>2
  <2>2. Ordered(ld) /\ InFile(md)' /\ InFile(ld)' /\ Ordered(md)' /\ Ordered(ld)'
    BY <1>2, <1>8 DEF Layout, FileOrder, InFile, Ordered, End
  <2> QED BY <1>8, <2>1, <2>2 DEF FileOrder
<1>10. MetaPhase'
  BY <1>2 DEF MetaPhase
<1>11. Writers'
  <2> SUFFICES ASSUME NEW r \in Rank PROVE MetaWriter(r)'
    BY <1>2 DEF Writers
  <2>1. NewMeta' = d /\ Len(md') \in DOMAIN md'
    BY <1>8 DEF NewMeta
  <2>2. End(NewMeta)' = eof + p[NP]
    BY <1>5, <2>1 DEF End
  <2>3. base'[r] = eof + p[r]
    BY <1>1
  <2>4. NewMeta'.doff <= base'[r] /\ base'[r] + TableSize(r) + Len(wreqs'[r]) <= End(NewMeta)'
    <3> DEFINE t == TableSize(r)  n == Len(wreqs[r])
    <3>1. t \in Nat /\ n \in Nat
      BY PendingCount, Constants DEF IInv, TableSize
    <3>2. p[r] \in Nat /\ p[r] + (t + n) <= p[NP]
      BY <1>4
    <3> HIDE DEF t, n
    <3>3. base'[r] + t + n <= eof + p[NP]
      BY <1>3, <2>3, <3>1, <3>2
    <3> QED BY <1>2, <1>3, <1>5, <2>1, <2>2, <2>3, <3>2, <3>3 DEF t, n
  <2>5. \A k \in DOMAIN ld : End(ld[k])' <= NewMeta'.doff
    BY <1>2, <1>5, <1>7, <2>1 DEF End
  <2>6. NewMeta'.plain => view'[r] = Plain
    BY <1>2, <1>5, <2>1 DEF AllPlain
  <2> QED BY <1>2, <2>1, <2>4, <2>5, <2>6 DEF MetaWriter, TableSize
<1>12. NoStray'
  <2> SUFFICES ASSUME EverPlain', NEW x \in DOMAIN disk PROVE x < eof'
    BY <1>2 DEF NoStray
  <2>1. EverPlain
    BY <1>2, <1>8 DEF EverPlain
  <2>2. x < eof /\ x \in Nat
    BY <2>1 DEF Layout, NoStray, IInv, TypeOK
  <2> QED BY <1>1, <1>3, <2>2
<1> QED BY <1>9, <1>10, <1>11, <1>12 DEF Layout

\* Writing a block keeps the layout.
LEMMA WriteLogLayout == ASSUME IInv, Layout, NEW r \in Rank, WriteLog(r) PROVE Layout'
<1>1. /\ pc[r] = "ldwrite"
      /\ disk' = Written(r, base[r], mtype[r])
      /\ pc' = [pc EXCEPT ![r] = AfterFlush(r)]
      /\ wreqs' = [wreqs EXCEPT ![r] = Relocated(r)]
      /\ fsize' = [fsize EXCEPT ![r] = 0]
      /\ base' = [base EXCEPT ![r] = 0]
      /\ UNCHANGED <<view, eof, ld, md>>
  BY DEF WriteLog
<1>2. /\ pc'[r] \notin {"ldwrite", "mdwrite"}
      /\ \A q \in Rank : pc'[q] \in {"ldwrite", "mdwrite"} =>
           /\ pc'[q] = pc[q] /\ wreqs'[q] = wreqs[q] /\ fsize'[q] = fsize[q]
           /\ base'[q] = base[q] /\ view'[q] = view[q]
  BY <1>1 DEF AfterFlush, IInv, TypeOK
<1>7. DOMAIN disk' \subseteq Nat
  BY WriteLogIInv DEF IInv, TypeOK
<1>3. FileOrder'
  BY <1>1 DEF Layout, FileOrder, InFile, Ordered, Apart, End
<1>4. MetaPhase'
  <2>1. TypeOK /\ MetaPhase
    BY DEF IInv, Layout
  <2>2. AfterFlush(r) \notin {"mdwrite", "mdbarrier"}
    BY DEF AfterFlush
  <2> QED BY <1>1, <2>1, <2>2, PhaseStep
<1>5. Writers'
  <2> SUFFICES ASSUME NEW q \in Rank
               PROVE  /\ pc'[q] = "ldwrite" => LogWriter(q)'
                      /\ pc'[q] = "mdwrite" => MetaWriter(q)'
    BY DEF Writers
  <2>1. ASSUME pc'[q] = "ldwrite" PROVE LogWriter(q)'
    <3>1. LogWriter(q) /\ base'[q] = base[q] /\ fsize'[q] = fsize[q] /\ view'[q] = view[q]
      BY <1>2, <2>1 DEF Layout, Writers
    <3> QED BY <1>1, <3>1 DEF LogWriter, NewLog, End
  <2>2. ASSUME pc'[q] = "mdwrite" PROVE MetaWriter(q)'
    <3>1. MetaWriter(q) /\ base'[q] = base[q] /\ wreqs'[q] = wreqs[q] /\ view'[q] = view[q]
      BY <1>2, <2>2 DEF Layout, Writers
    <3> QED BY <1>1, <3>1 DEF MetaWriter, NewMeta, End, TableSize
  <2> QED BY <2>1, <2>2
<1>6. NoStray'
  <2> SUFFICES ASSUME EverPlain', NEW x \in DOMAIN disk' PROVE x < eof
    BY <1>1 DEF NoStray
  <2>1. EverPlain
    BY <1>1 DEF EverPlain
  <2>2. LogWriter(r)
    BY <1>1 DEF Layout, Writers
  <2>3. Len(ld) \in DOMAIN ld /\ NewLog.plain /\ view[r] = Plain
    BY <2>1, <2>2 DEF LogWriter, EverPlain, NewLog
  <2>4. base[r] + fsize[r] <= End(NewLog) /\ End(NewLog) <= eof
    BY <2>2 DEF LogWriter, Layout, FileOrder, InFile, NewLog
  <2>5. /\ base[r] \in Nat /\ fsize[r] \in Nat /\ eof \in Nat /\ End(NewLog) \in Nat
        /\ mtype[r] \in [0 .. fsize[r] - 1 -> Write]
    <3>1. End(NewLog) \in Nat
      BY <2>3, DatasetTypes DEF IInv, NewLog
    <3> QED BY <3>1 DEF IInv, TypeOK
  <2>6. DOMAIN mtype[r] \subseteq Nat /\ DOMAIN mtype[r] = 0 .. fsize[r] - 1
    BY <2>5
  <2>7. x \in Nat
    BY <1>7
  <2>8. x \in DOMAIN disk \/ x - base[r] \in DOMAIN mtype[r]
    BY <1>1, <2>3, <2>5, <2>6, <2>7, WrittenUnits
  <2>9. CASE x \in DOMAIN disk
    BY <2>1, <2>9 DEF Layout, NoStray
  <2>10. CASE x - base[r] \in DOMAIN mtype[r]
    BY <2>4, <2>5, <2>6, <2>7, <2>10
  <2> QED BY <2>8, <2>9, <2>10
<1> QED BY <1>3, <1>4, <1>5, <1>6 DEF Layout

\* Writing a section keeps the layout.
LEMMA WriteMetaLayout == ASSUME IInv, Layout, NEW r \in Rank, WriteMeta(r) PROVE Layout'
<1>1. /\ pc[r] = "mdwrite"
      /\ disk' = Written(r, base[r], SectionOf(r))
      /\ pc' = [pc EXCEPT ![r] = "mdbarrier"]
      /\ wreqs' = [wreqs EXCEPT ![r] = <<>>]
      /\ base' = [base EXCEPT ![r] = 0]
      /\ UNCHANGED <<view, fsize, eof, ld, md>>
  BY DEF WriteMeta, AfterMeta
<1>2. /\ pc'[r] \notin {"ldwrite", "mdwrite"}
      /\ \A q \in Rank : pc'[q] \in {"ldwrite", "mdwrite"} =>
           /\ pc'[q] = pc[q] /\ wreqs'[q] = wreqs[q] /\ fsize'[q] = fsize[q]
           /\ base'[q] = base[q] /\ view'[q] = view[q]
  BY <1>1 DEF IInv, TypeOK
<1>7. DOMAIN disk' \subseteq Nat
  BY WriteMetaIInv DEF IInv, TypeOK
<1>3. FileOrder'
  BY <1>1 DEF Layout, FileOrder, InFile, Ordered, Apart, End
<1>4. MetaPhase'
  <2>1. MetaPhase /\ \A q \in Rank : pc'[q] = IF q = r THEN "mdbarrier" ELSE pc[q]
    BY <1>1 DEF IInv, TypeOK, Layout
  <2> QED BY <1>1, <2>1 DEF MetaPhase
<1>5. Writers'
  <2> SUFFICES ASSUME NEW q \in Rank
               PROVE  /\ pc'[q] = "ldwrite" => LogWriter(q)'
                      /\ pc'[q] = "mdwrite" => MetaWriter(q)'
    BY DEF Writers
  <2>1. ASSUME pc'[q] = "ldwrite" PROVE LogWriter(q)'
    <3>1. LogWriter(q) /\ base'[q] = base[q] /\ fsize'[q] = fsize[q] /\ view'[q] = view[q]
      BY <1>2, <2>1 DEF Layout, Writers
    <3> QED BY <1>1, <3>1 DEF LogWriter, NewLog, End
  <2>2. ASSUME pc'[q] = "mdwrite" PROVE MetaWriter(q)'
    <3>1. MetaWriter(q) /\ base'[q] = base[q] /\ wreqs'[q] = wreqs[q] /\ view'[q] = view[q]
      BY <1>2, <2>2 DEF Layout, Writers
    <3> QED BY <1>1, <3>1 DEF MetaWriter, NewMeta, End, TableSize
  <2> QED BY <2>1, <2>2
<1>6. NoStray'
  <2> SUFFICES ASSUME EverPlain', NEW x \in DOMAIN disk' PROVE x < eof
    BY <1>1 DEF NoStray
  <2>1. EverPlain
    BY <1>1 DEF EverPlain
  <2>2. MetaWriter(r)
    BY <1>1 DEF Layout, Writers
  <2>3. Len(md) \in DOMAIN md /\ NewMeta.plain /\ view[r] = Plain
    BY <2>1, <2>2 DEF MetaWriter, EverPlain, NewMeta
  <2> DEFINE n == TableSize(r) + Len(wreqs[r])
  <2>4. base[r] + TableSize(r) + Len(wreqs[r]) <= End(NewMeta) /\ End(NewMeta) <= eof
    BY <2>2 DEF MetaWriter, Layout, FileOrder, InFile, NewMeta
  <2>5. base[r] \in Nat /\ eof \in Nat /\ End(NewMeta) \in Nat
    <3>1. End(NewMeta) \in Nat
      BY <2>3, DatasetTypes DEF IInv, NewMeta
    <3> QED BY <3>1 DEF IInv, TypeOK
  <2>6. /\ DOMAIN SectionOf(r) \subseteq Nat /\ DOMAIN SectionOf(r) = 0 .. n - 1
        /\ TableSize(r) \in Nat /\ Len(wreqs[r]) \in Nat
    BY <1>1, SectionUnits
  <2>11. n \in Nat /\ base[r] + n <= End(NewMeta)
    BY <2>4, <2>5, <2>6
  <2> HIDE DEF n
  <2>7. x \in Nat
    BY <1>7
  <2>8. x \in DOMAIN disk \/ x - base[r] \in DOMAIN SectionOf(r)
    BY <1>1, <2>3, <2>5, <2>6, <2>7, WrittenUnits
  <2>9. CASE x \in DOMAIN disk
    BY <2>1, <2>9 DEF Layout, NoStray
  <2>10. CASE x - base[r] \in DOMAIN SectionOf(r)
    BY <2>4, <2>5, <2>6, <2>7, <2>10, <2>11
  <2> QED BY <2>8, <2>9, <2>10
<1> QED BY <1>3, <1>4, <1>5, <1>6 DEF Layout

\* Every step keeps the layout.
LEMMA NextLayout == IInv /\ Layout /\ [Next]_vars => Layout'
<1> SUFFICES ASSUME IInv, Layout, [Next]_vars PROVE Layout'
  OBVIOUS
<1>0. TypeOK /\ MetaPhase
  BY DEF IInv, Layout
<1> DEFINE Kept(q) ==
      /\ pc'[q] = pc[q] /\ wreqs'[q] = wreqs[q] /\ fsize'[q] = fsize[q]
      /\ base'[q] = base[q] /\ view'[q] = view[q]
           Alone(r) == \A q \in Rank : q # r => Kept(q)
           Still == UNCHANGED <<eof, ld, md, disk>>
<1>1. ASSUME NEW r \in Rank, NEW t, Still, Alone(r), pc' = [pc EXCEPT ![r] = t],
             t \notin {"ldwrite", "mdwrite", "mdbarrier"},
             pc[r] \notin {"mdwrite", "mdbarrier"}
      PROVE  Layout'
  <2>1. MetaPhase'
    BY <1>0, <1>1, PhaseStep
  <2>2. pc'[r] = t
    BY <1>0, <1>1 DEF TypeOK
  <2>3. \A q \in Rank : pc'[q] \in {"ldwrite", "mdwrite"} => Kept(q)
    BY <1>1, <2>2
  <2> QED BY <1>1, <2>1, <2>3, LayoutFrame
<1>2. ASSUME NEW r \in Rank, Step(r) PROVE Layout'
  <2> USE DEF flags, counters, queue, prog, scratch, store
  <2>1. ASSUME NEW c \in Cells, NEW s \in Sizes, H5Dwrite(r, c, s) PROVE Layout'
    <3>1. Still /\ Alone(r) /\ pc[r] = "app" /\ pc' = pc
      BY <1>0, <2>1 DEF H5Dwrite, TypeOK
    <3>2. pc' = [pc EXCEPT ![r] = "app"]
      BY <1>0, <3>1 DEF TypeOK
    <3> QED BY <1>1, <3>1, <3>2
  <2>2. CASE H5Fflush(r)
    <3>1. Still /\ Alone(r) /\ pc[r] = "app" /\ pc' = [pc EXCEPT ![r] = "sync"]
      BY <1>0, <2>2 DEF H5Fflush, StartFlush, Call, TypeOK
    <3> QED BY <1>1, <3>1
  <2>3. CASE H5Dread(r)
    <3>1. Still /\ Alone(r) /\ pc[r] = "app"
      BY <1>0, <2>3 DEF H5Dread, Call, TypeOK
    <3>2. PICK t \in {"app", "search", "gather", "load"} : pc' = [pc EXCEPT ![r] = t]
      <4>1. CASE pc' = pc
        BY <1>0, <3>1, <4>1 DEF TypeOK
      <4>2. CASE pc' # pc
        BY <2>3, <4>2 DEF H5Dread
      <4> QED BY <4>1, <4>2
    <3> QED BY <1>1, <3>1, <3>2
  <2>4. CASE H5Fclose(r)
    <3>1. Still /\ Alone(r) /\ pc[r] = "app"
      BY <1>0, <2>4 DEF H5Fclose, StartFlush, Call, TypeOK
    <3>2. PICK t \in {"sync", "gather", "fclose"} : pc' = [pc EXCEPT ![r] = t]
      BY <2>4 DEF H5Fclose, StartFlush
    <3> QED BY <1>1, <3>1, <3>2
  <2>5. CASE WriteLog(r)
    BY <2>5, WriteLogLayout
  <2>6. CASE WriteMeta(r)
    BY <2>6, WriteMetaLayout
  <2>7. CASE LoadIndex(r)
    <3>1. Still /\ Alone(r) /\ pc[r] = "load"
      BY <1>0, <2>7 DEF LoadIndex, TypeOK
    <3>2. PICK t \in {"search", "failed"} : pc' = [pc EXCEPT ![r] = t]
      BY <2>7 DEF LoadIndex
    <3> QED BY <1>1, <3>1, <3>2
  <2>8. ASSUME NEW c \in Cells, Search(r, c) PROVE Layout'
    <3>1. Still /\ Alone(r) /\ pc[r] = "search" /\ pc' = [pc EXCEPT ![r] = "readall"]
      BY <1>0, <2>8 DEF Search, TypeOK
    <3> QED BY <1>1, <3>1
  <2>9. ASSUME NEW c \in Cells, SearchFails(r, c) PROVE Layout'
    <3>1. Still /\ Alone(r) /\ pc[r] = "search" /\ pc' = [pc EXCEPT ![r] = "failed"]
      BY <1>0, <2>9 DEF SearchFails, TypeOK
    <3> QED BY <1>1, <3>1
  <2> QED BY <1>2, <2>1, <2>2, <2>3, <2>4, <2>5, <2>6, <2>7, <2>8, <2>9 DEF Step
<1>3. ASSUME Still, \A q \in Rank : pc'[q] \notin {"ldwrite", "mdwrite", "mdbarrier"}
      PROVE  Layout'
  <2>1. MetaPhase'
    BY <1>3 DEF MetaPhase
  <2> QED BY <1>3, <2>1, LayoutFrame
<1>4. CASE Collective
  <2>1. CASE CreateLog
    BY <2>1, CreateLogLayout
  <2>2. CASE CreateMeta
    BY <2>2, CreateMetaLayout
  <2>3. CASE FlushNothing \/ MetaBarrier \/ ReadAll
    <3>1. /\ Still
          /\ \A q \in Rank : pc'[q] \notin {"ldwrite", "mdwrite", "mdbarrier"}
      BY <2>3 DEF FlushNothing, MetaBarrier, ReadAll, AfterFlush, AfterBarrier, store
    <3> QED BY <1>3, <3>1
  <2>4. CASE CloseFile
    <3>1. /\ Still
          /\ \A q \in Rank : pc'[q] \notin {"ldwrite", "mdwrite", "mdbarrier"}
      BY <2>4 DEF CloseFile
    <3> QED BY <1>3, <3>1
  <2> QED BY <1>4, <2>1, <2>2, <2>3, <2>4 DEF Collective
<1>5. CASE Reopen
  <2>1. Still /\ \A q \in Rank : pc'[q] \notin {"ldwrite", "mdwrite", "mdbarrier"}
    BY <1>5 DEF Reopen, store
  <2> QED BY <1>3, <2>1
<1>6. CASE Finished \/ UNCHANGED vars
  <2>1. UNCHANGED vars
    BY <1>6 DEF Finished
  <2>2. MetaPhase'
    BY <1>0, <2>1 DEF MetaPhase, vars
  <2> QED BY <2>1, <2>2, LayoutFrame DEF vars, queue, scratch, store
<1> QED BY <1>2, <1>4, <1>5, <1>6 DEF Next

\* A new file has its layout.
LEMMA InitLayout == Init => Layout
<1> SUFFICES ASSUME Init PROVE Layout
  OBVIOUS
<1>1. ld = <<>> /\ md = <<>> /\ eof = Header /\ \A r \in Rank : pc[r] = "app"
  BY DEF Init
<1>2. DOMAIN disk = {} /\ Header \in Nat
  BY Parameters DEF Init
<1> QED BY <1>1, <1>2 DEF Layout, FileOrder, InFile, Ordered, Apart, MetaPhase, Writers, NoStray

-----------------------------------------------------------------------------
(* Flushed data *)

\* What a process prepared for its share of a data flush: every pending
\* request has a place in the block, and the block holds its bytes there.
Prepared ==
  \A r \in Rank : pc[r] \in {"sync", "ldwrite"} =>
    \A i \in Pending(r) :
      /\ wreqs[r][i].foff >= 0
      /\ wreqs[r][i].foff + wreqs[r][i].w.size <= fsize[r]
      /\ \A o \in wreqs[r][i].foff .. wreqs[r][i].foff + wreqs[r][i].w.size - 1 :
           mtype[r][o] = wreqs[r][i].w

InBlock(o, r) == base[r] <= o /\ o < base[r] + fsize[r]

\* The blocks about to be written do not overlap.
BlocksApart ==
  \A r \in Rank : pc[r] = "ldwrite" =>
    \A q \in Rank \ {r} : pc[q] = "ldwrite" =>
         \A o \in Nat : ~ (InBlock(o, r) /\ InBlock(o, q))

\* A flushed request lies in a log dataset, and when that was created under
\* plain views its bytes are its own and no block will hit them.
Span(e) == e.foff .. e.foff + e.w.size - 1
Safe(e) ==
  \A o \in Span(e) : /\ UnitAt(o) = e.w
                     /\ \A r \in Rank : pc[r] = "ldwrite" => ~ InBlock(o, r)
HomeIn(e, k) ==
  /\ ld[k].doff <= e.foff /\ e.foff + e.w.size <= End(ld[k])
  /\ ld[k].plain => Safe(e)
Intact == \A e \in placed : \E k \in DOMAIN ld : HomeIn(e, k)

DataInv == Prepared /\ BlocksApart /\ Intact

\* A step that leaves the file and every flush under way alone preserves it.
LEMMA DataFrame ==
  ASSUME DataInv, UNCHANGED <<ld, disk, placed>>,
         \A r \in Rank : pc'[r] \in {"sync", "ldwrite"} =>
           /\ pc'[r] = pc[r] /\ wreqs'[r] = wreqs[r] /\ nflushed'[r] = nflushed[r]
           /\ fsize'[r] = fsize[r] /\ mtype'[r] = mtype[r] /\ base'[r] = base[r]
  PROVE  DataInv'
<1>1. Prepared'
  BY DEF DataInv, Prepared, Pending
<1>2. BlocksApart'
  BY DEF DataInv, BlocksApart, InBlock
<1>3. Intact'
  BY DEF DataInv, Intact, HomeIn, Safe, Span, InBlock, End, UnitAt
<1> QED BY <1>1, <1>2, <1>3 DEF DataInv

\* Preparing a data flush places every pending request in the block.
LEMMA StartFlushData ==
  ASSUME IInv, DataInv, NEW r \in Rank, StartFlush(r), pc[r] = "app",
         UNCHANGED <<nflushed, ld, disk, placed, base>>
  PROVE  DataInv'
<1> DEFINE n == NPending(r)
           z == PendingSizes(r)
           ent(p) == [i \in DOMAIN wreqs[r] |->
             IF i \in Pending(r) THEN [wreqs[r][i] EXCEPT !.foff = p[i - nflushed[r] - 1]]
                                 ELSE wreqs[r][i]]
           at(p, o) == CHOOSE i \in 1 .. n : p[i-1] <= o /\ o < p[i]
           mem(p) == [o \in 0 .. p[n] - 1 |-> wreqs[r][nflushed[r] + at(p, o)].w]
<1>1. PICK p \in Scans(n) :
        /\ IsScan(p, z)
        /\ wreqs' = [wreqs EXCEPT ![r] = ent(p)]
        /\ fsize' = [fsize EXCEPT ![r] = p[n]]
        /\ mtype' = [mtype EXCEPT ![r] = mem(p)]
        /\ pc' = [pc EXCEPT ![r] = "sync"]
  BY DEF StartFlush, LocalSize
<1>2. p \in [0 .. n -> Nat] /\ n \in Nat /\ p[n] \in Nat /\ p[0] = 0
  BY <1>1, PendingCount, Constants DEF Scans, IsScan, IInv
<1>3. /\ wreqs'[r] = ent(p) /\ fsize'[r] = p[n] /\ mtype'[r] = mem(p) /\ pc'[r] = "sync"
      /\ \A q \in Rank \ {r} : /\ wreqs'[q] = wreqs[q] /\ fsize'[q] = fsize[q]
                               /\ mtype'[q] = mtype[q] /\ pc'[q] = pc[q]
  BY <1>1 DEF IInv, TypeOK
<1>4. z \in [1 .. n -> Nat] /\ \A k \in 1 .. n : z[k] = wreqs[r][nflushed[r] + k].w.size
  BY PendingCount, EntryFields DEF PendingSizes, IInv
<1>5. \A i \in Pending(r) :
        LET k == i - nflushed[r] IN
        /\ k \in 1 .. n /\ p[k - 1] \in Nat /\ p[k] \in Nat
        /\ p[k] = p[k - 1] + wreqs[r][i].w.size
        /\ ent(p)[i].foff = p[k - 1] /\ ent(p)[i].w = wreqs[r][i].w
        /\ p[k] <= p[n]
  <2> SUFFICES ASSUME NEW i \in Pending(r), NEW k, k = i - nflushed[r]
               PROVE  /\ k \in 1 .. n /\ p[k - 1] \in Nat /\ p[k] \in Nat
                      /\ p[k] = p[k - 1] + wreqs[r][i].w.size
                      /\ ent(p)[i].foff = p[k - 1] /\ ent(p)[i].w = wreqs[r][i].w
                      /\ p[k] <= p[n]
    OBVIOUS
  <2>1. /\ k \in 1 .. n /\ nflushed[r] \in Nat /\ i \in DOMAIN wreqs[r]
        /\ wreqs[r][i] \in Entry /\ i = nflushed[r] + k
    BY PendingCount DEF IInv, Pending
  <2>2. p[k - 1] \in Nat /\ p[k] \in Nat
    <3> HIDE DEF n
    <3> QED BY <1>2, <2>1
  <2>3. p[k] = p[k - 1] + wreqs[r][i].w.size
    <3>1. DOMAIN z = 1 .. n
      BY <1>4
    <3> HIDE DEF n, z
    <3> QED BY <1>1, <1>4, <2>1, <3>1 DEF IsScan
  <2>4. ent(p)[i] = [wreqs[r][i] EXCEPT !.foff = p[k - 1]]
    BY <2>1
  <2>5. ent(p)[i].foff = p[k - 1] /\ ent(p)[i].w = wreqs[r][i].w
    <3> HIDE DEF ent
    <3> QED BY <2>1, <2>4 DEF Entry
  <2>6. p[k] <= p[n]
    <3>1. k \in 0 .. n /\ n \in 0 .. n /\ k <= n
      BY <1>2, <2>1
    <3> HIDE DEF n, z
    <3> QED BY <1>1, <1>2, <1>4, <3>1, ScanMonotone
  <2> HIDE DEF n, ent
  <2> QED BY <2>1, <2>2, <2>3, <2>5, <2>6
<1>6. \A i \in Pending(r) : \A o \in p[i - nflushed[r] - 1] .. p[i - nflushed[r]] - 1 :
        mem(p)[o] = wreqs[r][i].w
  <2> SUFFICES ASSUME NEW i \in Pending(r), NEW k, k = i - nflushed[r],
                      NEW o \in p[k - 1] .. p[k] - 1
               PROVE  mem(p)[o] = wreqs[r][i].w
    OBVIOUS
  <2>1. /\ k \in 1 .. n /\ p[k - 1] \in Nat /\ p[k] \in Nat /\ p[k] <= p[n]
        /\ nflushed[r] \in Nat
        /\ i = nflushed[r] + k
    <3>1. nflushed[r] \in Nat /\ i \in Nat
      BY PendingCount DEF IInv, Pending
    <3> HIDE DEF n, ent
    <3> QED BY <1>5, <3>1
  <2>2. o \in Nat /\ p[k - 1] <= o /\ o < p[k] /\ o \in 0 .. p[n] - 1
    BY <1>2, <2>1
  <2>3. at(p, o) \in 1 .. n /\ p[at(p, o) - 1] <= o /\ o < p[at(p, o)]
    BY <2>1, <2>2
  <2>4. at(p, o) = k
    <3> HIDE DEF at, n, z
    <3> QED BY <1>1, <1>2, <1>4, <2>1, <2>2, <2>3, ScanUnique
  <2>5. mem(p)[o] = wreqs[r][nflushed[r] + at(p, o)].w
    BY <2>2
  <2> HIDE DEF mem, at
  <2> QED BY <2>1, <2>4, <2>5
<1> HIDE DEF n, z, ent, at, mem
<1>7. Prepared'
  <2> SUFFICES ASSUME NEW q \in Rank, pc'[q] \in {"sync", "ldwrite"},
                      NEW i \in Pending(q)'
               PROVE  /\ wreqs'[q][i].foff >= 0
                      /\ wreqs'[q][i].foff + wreqs'[q][i].w.size <= fsize'[q]
                      /\ \A o \in wreqs'[q][i].foff .. wreqs'[q][i].foff + wreqs'[q][i].w.size - 1 :
                           mtype'[q][o] = wreqs'[q][i].w
    BY DEF Prepared
  <2>1. CASE q = r
    <3>1. Len(wreqs'[r]) = Len(wreqs[r])
      <4>1. wreqs'[r] \in Seq(Entry)
        BY StartFlushTypes DEF IInv
      <4>2. DOMAIN wreqs'[r] = DOMAIN wreqs[r]
        BY <1>3 DEF ent
      <4> QED BY <4>1, <4>2, LenProperties, PendingCount DEF IInv
    <3>2. i \in Pending(r)
      BY <2>1, <3>1 DEF Pending
    <3> DEFINE k == i - nflushed[r]
    <3>3. /\ p[k - 1] \in Nat /\ p[k] \in Nat
          /\ p[k] = p[k - 1] + wreqs[r][i].w.size
          /\ wreqs'[r][i].foff = p[k - 1] /\ wreqs'[r][i].w = wreqs[r][i].w
          /\ p[k] <= p[n]
      BY <1>3, <1>5, <3>2
    <3>4. \A o \in p[k - 1] .. p[k] - 1 : mtype'[r][o] = wreqs[r][i].w
      BY <1>3, <1>6, <3>2
    <3>5. wreqs'[r][i].foff + wreqs'[r][i].w.size = p[k]
      BY <3>3
    <3>6. p[k - 1] + wreqs[r][i].w.size <= p[n]
      BY <3>3
    <3> HIDE DEF k
    <3>7. /\ wreqs'[r][i].foff >= 0
          /\ wreqs'[r][i].foff + wreqs'[r][i].w.size <= fsize'[r]
      BY <1>3, <3>3, <3>6
    <3>8. \A o \in wreqs'[r][i].foff .. wreqs'[r][i].foff + wreqs'[r][i].w.size - 1 :
            mtype'[r][o] = wreqs'[r][i].w
      <4>0. wreqs[r][i].w.size \in Nat
        BY <3>2, PendingCount, EntryFields DEF IInv
      <4>1. wreqs'[r][i].foff + wreqs'[r][i].w.size - 1 = p[k] - 1
        BY <3>3, <4>0
      <4>2. wreqs'[r][i].foff = p[k - 1] /\ wreqs'[r][i].w = wreqs[r][i].w
        BY <3>3
      <4> QED BY <3>4, <4>1, <4>2
    <3> QED BY <2>1, <3>7, <3>8
  <2>2. CASE q # r
    <3>1. /\ wreqs'[q] = wreqs[q] /\ fsize'[q] = fsize[q] /\ mtype'[q] = mtype[q]
          /\ pc'[q] = pc[q] /\ nflushed' = nflushed
      BY <1>3, <2>2
    <3> QED BY <3>1 DEF DataInv, Prepared, Pending
  <2> QED BY <2>1, <2>2
<1>8. \A q \in Rank : pc'[q] = "ldwrite" =>
        pc[q] = "ldwrite" /\ fsize'[q] = fsize[q] /\ base'[q] = base[q]
  BY <1>3
<1>9. BlocksApart'
  BY <1>8 DEF DataInv, BlocksApart, InBlock
<1>10. Intact'
  BY <1>8 DEF DataInv, Intact, HomeIn, Safe, Span, InBlock, End, UnitAt
<1> QED BY <1>7, <1>9, <1>10 DEF DataInv

\* The new log dataset is cut into blocks behind everything written so far.
LEMMA CreateLogData == ASSUME IInv, Layout, DataInv, CreateLog PROVE DataInv'
<1>1. PICK p \in Scans(NP) :
       /\ IsScan(p, FlushSizes)
       /\ ld' = Append(ld, [names |-> {nldset[r] : r \in Rank},
                            doff |-> eof, size |-> p[NP], plain |-> AllPlain])
       /\ base' = [r \in Rank |-> eof + p[r]]
  BY DEF CreateLog, BlockOffset
<1>2. /\ \A r \in Rank : pc[r] = "sync"
      /\ pc' = [r \in Rank |-> "ldwrite"]
      /\ UNCHANGED <<wreqs, nflushed, fsize, mtype, disk, placed>>
  BY DEF CreateLog, queue
<1>3. p \in [0 .. NP -> Nat] /\ p[NP] \in Nat /\ eof \in Nat
  BY <1>1, CreateScan
<1>4. FlushSizes \in [1 .. NP -> Nat]
  BY <1>1, <1>3, FlushScan, Constants
<1>5. \A r \in Rank : p[r] \in Nat /\ p[r + 1] = p[r] + fsize[r] /\ fsize[r] \in Nat
  BY <1>1, <1>3, FlushScan
<1>7. \A r \in Rank : base'[r] = eof + p[r] /\ fsize'[r] = fsize[r] /\ pc'[r] = "ldwrite"
  BY <1>1, <1>2
<1>8. Prepared'
  BY <1>2 DEF DataInv, Prepared, Pending
<1>9. BlocksApart'
  <2> SUFFICES ASSUME NEW r \in Rank, NEW q \in Rank \ {r}, NEW o \in Nat,
                      InBlock(o, r)', InBlock(o, q)'
               PROVE  FALSE
    BY DEF BlocksApart
  <2>1. /\ p[r] <= o - eof /\ o - eof < p[r + 1]
        /\ p[q] <= o - eof /\ o - eof < p[q + 1]
        /\ o - eof \in Nat
    <3>1. /\ eof + p[r] <= o /\ o < eof + p[r] + fsize[r]
          /\ eof + p[q] <= o /\ o < eof + p[q] + fsize[q]
      BY <1>7 DEF InBlock
    <3>2. p[r] \in Nat /\ p[r + 1] = p[r] + fsize[r] /\ fsize[r] \in Nat
      BY <1>5
    <3>3. p[q] \in Nat /\ p[q + 1] = p[q] + fsize[q] /\ fsize[q] \in Nat
      BY <1>5
    <3> HIDE DEF Rank
    <3>5. eof \in Nat /\ o - eof \in Int
      BY <1>3
    <3>6. p[r] <= o - eof /\ o - eof < p[r + 1]
      BY <3>1, <3>2, <3>5
    <3>7. p[q] <= o - eof /\ o - eof < p[q + 1]
      BY <3>1, <3>3, <3>5
    <3>8. o - eof >= 0
      BY <3>2, <3>5, <3>6
    <3> QED BY <3>5, <3>6, <3>7, <3>8
  <2>2. /\ r + 1 \in 1 .. NP /\ q + 1 \in 1 .. NP /\ NP \in Nat
        /\ (r + 1) - 1 = r /\ (q + 1) - 1 = q
    BY Constants DEF Rank
  <2>3. r + 1 = q + 1
    BY <1>1, <1>3, <1>4, <2>1, <2>2, ScanUnique
  <2> QED BY <2>3, Constants
<1>10. Intact'
  <2> SUFFICES ASSUME NEW e \in placed PROVE \E k \in DOMAIN ld' : HomeIn(e, k)'
    BY <1>2 DEF Intact
  <2>1. PICK k \in DOMAIN ld : HomeIn(e, k)
    BY DEF DataInv, Intact
  <2>2. e.foff \in Nat \cup {Unset} /\ e.w.size \in Nat
    BY EntryFields DEF IInv, TypeOK
  <2>3. k \in DOMAIN ld' /\ ld'[k] = ld[k]
    <3>1. /\ ld \in Seq(Dataset) /\ Len(ld) \in Nat /\ DOMAIN ld = 1 .. Len(ld)
      BY LenProperties DEF IInv, TypeOK
    <3> DEFINE d == [names |-> {nldset[r] : r \in Rank}, doff |-> eof, size |-> p[NP],
                     plain |-> AllPlain]
    <3>2. d \in Dataset /\ ld' = Append(ld, d)
      <4>1. \A r \in Rank : nldset[r] \in Nat
        BY DEF IInv, TypeOK
      <4> QED BY <1>1, <1>3, <4>1 DEF Dataset, AllPlain
    <3> HIDE DEF d
    <3> QED BY <3>1, <3>2, AppendProperties
  <2>4. End(ld[k]) <= eof /\ End(ld[k]) \in Nat /\ ld[k].doff \in Nat
    BY DatasetTypes DEF Layout, FileOrder, InFile, IInv
  <2>5. ASSUME ld[k].plain PROVE Safe(e)'
    <3>1. Safe(e)
      BY <2>1, <2>5 DEF HomeIn
    <3>2. ASSUME NEW o \in Span(e), NEW r \in Rank PROVE ~ InBlock(o, r)'
      <4>1. ld[k].doff <= e.foff /\ e.foff + e.w.size <= End(ld[k])
        BY <2>1 DEF HomeIn
      <4>2. o \in Int /\ o < eof
        <5>1. eof \in Nat
          BY DEF IInv, TypeOK
        <5>2. e.foff \in Int
          BY <2>2 DEF Unset
        <5>3. o \in e.foff .. e.foff + e.w.size - 1
          BY <3>2 DEF Span
        <5> QED BY <2>2, <2>4, <4>1, <5>1, <5>2, <5>3
      <4>3. base'[r] = eof + p[r] /\ p[r] \in Nat
        BY <1>5, <1>7
      <4> QED BY <1>3, <4>2, <4>3 DEF InBlock
    <3> QED BY <1>2, <3>1, <3>2 DEF Safe, Span, UnitAt
  <2>6. HomeIn(e, k)'
    BY <2>1, <2>3, <2>5 DEF HomeIn, End
  <2> QED BY <2>3, <2>6
<1> QED BY <1>8, <1>9, <1>10 DEF DataInv

\* Where an earlier request lies, a writer of metadata writes nothing.
LEMMA WriteMetaData ==
  ASSUME IInv, Layout, DataInv, NEW r \in Rank, WriteMeta(r) PROVE DataInv'
<1>1. /\ pc[r] = "mdwrite"
      /\ disk' = Written(r, base[r], SectionOf(r))
      /\ pc' = [pc EXCEPT ![r] = "mdbarrier"]
      /\ UNCHANGED <<ld, placed>>
  BY DEF WriteMeta, AfterMeta
<1>2. \A q \in Rank : pc'[q] \notin {"sync", "ldwrite"}
  BY <1>1 DEF Layout, MetaPhase, IInv, TypeOK
<1>3. Prepared' /\ BlocksApart'
  BY <1>2 DEF Prepared, BlocksApart
<1>4. MetaWriter(r) /\ base[r] \in Nat /\ DOMAIN SectionOf(r) \subseteq Nat
  BY <1>1, SectionUnits DEF Layout, Writers, IInv, TypeOK
<1>5. Intact'
  <2> SUFFICES ASSUME NEW e \in placed PROVE \E k \in DOMAIN ld : HomeIn(e, k)'
    BY <1>1 DEF Intact
  <2>1. PICK k \in DOMAIN ld : HomeIn(e, k)
    BY DEF DataInv, Intact
  <2>2. e.foff \in Nat \cup {Unset} /\ e.w.size \in Nat
    BY EntryFields DEF IInv, TypeOK
  <2>3. End(ld[k]) <= NewMeta.doff /\ NewMeta.doff <= base[r]
    BY <1>4 DEF MetaWriter
  <2>4. End(ld[k]) \in Nat /\ NewMeta.doff \in Nat /\ ld[k].doff \in Nat
    BY <1>4, DatasetTypes DEF IInv, MetaWriter, NewMeta
  <2>5. ASSUME ld[k].plain, NEW o \in Span(e) PROVE UnitAt(o)' = e.w
    <3>1. ld[k].doff <= e.foff /\ e.foff + e.w.size <= End(ld[k])
      BY <2>1 DEF HomeIn
    <3>2. o \in Nat /\ o < base[r]
      BY <1>4, <2>2, <2>3, <2>4, <3>1 DEF Span, Unset
    <3>3. UnitAt(o)' = UnitAt(o)
      BY <1>1, <1>4, <3>2, WrittenUnits
    <3> QED BY <2>1, <2>5, <3>3 DEF HomeIn, Safe
  <2>6. HomeIn(e, k)'
    BY <1>1, <1>2, <2>1, <2>5 DEF HomeIn, End, Safe, Span
  <2> QED BY <2>6
<1> QED BY <1>3, <1>5 DEF DataInv

\* Writing a block puts every request of the process where its entry says, and
\* hits nothing that was there; through a left-over view it hits nothing in
\* front of the new dataset, and nothing is promised in it.
LEMMA WriteLogData ==
  ASSUME IInv, Layout, DataInv, NEW r \in Rank, WriteLog(r) PROVE DataInv'
<1>1. /\ pc[r] = "ldwrite"
      /\ disk' = Written(r, base[r], mtype[r])
      /\ wreqs' = [wreqs EXCEPT ![r] = Relocated(r)]
      /\ placed' = placed \cup {Relocated(r)[i] : i \in Pending(r)}
      /\ nflushed' = [nflushed EXCEPT ![r] = Len(wreqs[r])]
      /\ fsize' = [fsize EXCEPT ![r] = 0]
      /\ mtype' = [mtype EXCEPT ![r] = <<>>]
      /\ base' = [base EXCEPT ![r] = 0]
      /\ pc' = [pc EXCEPT ![r] = AfterFlush(r)]
      /\ UNCHANGED ld
  BY DEF WriteLog
<1>2. pc'[r] \notin {"sync", "ldwrite"}
  BY <1>1 DEF AfterFlush, IInv, TypeOK
<1>3. \A q \in Rank : pc'[q] \in {"sync", "ldwrite"} =>
        /\ q # r /\ pc'[q] = pc[q] /\ wreqs'[q] = wreqs[q] /\ nflushed'[q] = nflushed[q]
        /\ fsize'[q] = fsize[q] /\ mtype'[q] = mtype[q] /\ base'[q] = base[q]
  BY <1>1, <1>2 DEF IInv, TypeOK
<1>4. Prepared'
  BY <1>3 DEF DataInv, Prepared, Pending
<1>5. BlocksApart'
  BY <1>1, <1>3 DEF DataInv, BlocksApart, InBlock
<1>6. /\ base[r] \in Nat /\ fsize[r] \in Nat
      /\ DOMAIN mtype[r] = 0 .. fsize[r] - 1 /\ DOMAIN mtype[r] \subseteq Nat
  <2>1. base \in [Rank -> Nat] /\ fsize \in [Rank -> Nat]
    BY DEF IInv, TypeOK
  <2>2. mtype[r] \in [0 .. fsize[r] - 1 -> Write]
    BY DEF IInv, TypeOK
  <2>3. DOMAIN mtype[r] = 0 .. fsize[r] - 1
    BY <2>2
  <2> QED BY <2>1, <2>3
<1>7. /\ LogWriter(r) /\ Len(ld) \in DOMAIN ld /\ NewLog = ld[Len(ld)]
      /\ NewLog.doff \in Nat /\ End(NewLog) \in Nat /\ Len(ld) \in Nat
      /\ DOMAIN ld = 1 .. Len(ld)
  <2>1. LogWriter(r)
    BY <1>1 DEF Layout, Writers
  <2> QED BY <2>1, DatasetTypes DEF LogWriter, NewLog, IInv
<1>8. ASSUME NEW o \in Nat
      PROVE  /\ o < base[r] => UnitAt(o)' = UnitAt(o)
             /\ view[r] = Plain =>
                  UnitAt(o)' = IF InBlock(o, r) THEN mtype[r][o - base[r]] ELSE UnitAt(o)
  <2>1. /\ o < base[r] => UnitAt(o)' = UnitAt(o)
        /\ view[r] = Plain =>
             UnitAt(o)' = IF o - base[r] \in DOMAIN mtype[r] THEN mtype[r][o - base[r]]
                                                             ELSE UnitAt(o)
    BY <1>1, <1>6, WrittenUnits
  <2>2. InBlock(o, r) <=> o - base[r] \in DOMAIN mtype[r]
    BY <1>6 DEF InBlock
  <2> QED BY <2>1, <2>2
<1>9. ASSUME NEW e \in placed PROVE \E k \in DOMAIN ld : HomeIn(e, k)'
  <2>1. PICK k \in DOMAIN ld : HomeIn(e, k)
    BY DEF DataInv, Intact
  <2>2. e.foff \in Nat \cup {Unset} /\ e.w.size \in Nat
    BY EntryFields DEF IInv, TypeOK
  <2>3. ld[k].doff <= e.foff /\ e.foff + e.w.size <= End(ld[k])
    BY <2>1 DEF HomeIn
  <2>4. End(ld[k]) \in Nat /\ ld[k].doff \in Nat
    BY DatasetTypes DEF IInv
  <2>5. ASSUME ld[k].plain, NEW o \in Span(e)
        PROVE  UnitAt(o)' = e.w /\ \A q \in Rank : pc'[q] = "ldwrite" => ~ InBlock(o, q)'
    <3>1. /\ UnitAt(o) = e.w
          /\ \A q \in Rank : pc[q] = "ldwrite" => ~ InBlock(o, q)
      BY <2>1, <2>5 DEF HomeIn, Safe
    <3>2. o \in Nat /\ o < End(ld[k])
      BY <2>2, <2>3, <2>4 DEF Span, Unset
    <3>3. UnitAt(o)' = UnitAt(o)
      <4>1. CASE k = Len(ld)
        <5>1. view[r] = Plain
          BY <1>7, <2>5, <4>1 DEF LogWriter
        <5> QED BY <1>1, <1>8, <3>1, <3>2, <5>1
      <4>2. CASE k # Len(ld)
        <5>1. End(ld[k]) <= NewLog.doff
          BY <1>7, <4>2 DEF Layout, FileOrder, Ordered
        <5>2. o < base[r]
          BY <1>6, <1>7, <2>4, <3>2, <5>1 DEF LogWriter
        <5> QED BY <1>8, <3>2, <5>2
      <4> QED BY <4>1, <4>2
    <3>4. \A q \in Rank : pc'[q] = "ldwrite" => ~ InBlock(o, q)'
      BY <1>3, <3>1 DEF InBlock
    <3> QED BY <3>1, <3>3, <3>4
  <2>6. ld[k].plain => Safe(e)'
    BY <2>5 DEF Safe, Span
  <2>7. HomeIn(e, k)'
    BY <1>1, <2>3, <2>6 DEF HomeIn, End
  <2> QED BY <2>7
<1>10. ASSUME NEW i \in Pending(r), NEW e, e = Relocated(r)[i]
       PROVE  HomeIn(e, Len(ld))'
  <2> DEFINE f == wreqs[r][i]
  <2>1. f \in Entry /\ i \in DOMAIN wreqs[r]
    BY PendingCount DEF IInv
  <2>2. f.foff \in Nat \cup {Unset} /\ f.w.size \in Nat
    BY <2>1, EntryFields
  <2>3. e.foff = f.foff + base[r] /\ e.w = f.w
    <3>1. e = [f EXCEPT !.foff = @ + base[r]]
      BY <1>10, <2>1 DEF Relocated
    <3> HIDE DEF f
    <3> QED BY <2>1, <3>1 DEF Entry
  <2>4. /\ f.foff >= 0 /\ f.foff + f.w.size <= fsize[r]
        /\ \A o \in f.foff .. f.foff + f.w.size - 1 : mtype[r][o] = f.w
    BY <1>1 DEF DataInv, Prepared
  <2> HIDE DEF f
  <2>5. f.foff \in Nat
    BY <2>2, <2>4 DEF Unset
  <2>6. NewLog.doff <= e.foff /\ e.foff + e.w.size <= End(NewLog)
    <3>1. NewLog.doff <= base[r] /\ base[r] + fsize[r] <= End(NewLog)
      BY <1>7 DEF LogWriter
    <3> QED BY <1>6, <1>7, <2>2, <2>3, <2>4, <2>5, <3>1
  <2>7. ASSUME NewLog.plain, NEW o \in Span(e)
        PROVE  UnitAt(o)' = e.w /\ \A q \in Rank : pc'[q] = "ldwrite" => ~ InBlock(o, q)'
    <3>1. /\ o \in Nat /\ o - base[r] \in f.foff .. f.foff + f.w.size - 1
          /\ InBlock(o, r)
      <4>1. o \in Int /\ f.foff + base[r] <= o /\ o < f.foff + base[r] + f.w.size
        BY <1>6, <2>2, <2>3, <2>5 DEF Span
      <4>3. o - base[r] \in Int /\ f.foff <= o - base[r] /\ o - base[r] < f.foff + f.w.size
        BY <1>6, <2>2, <2>5, <4>1
      <4>4. o \in Nat /\ base[r] <= o /\ o < base[r] + fsize[r]
        BY <1>6, <2>2, <2>4, <2>5, <4>1
      <4>6. o - base[r] \in f.foff .. f.foff + f.w.size - 1
        BY <2>2, <2>5, <4>3
      <4> QED BY <4>4, <4>6 DEF InBlock
    <3>2. view[r] = Plain
      BY <1>7, <2>7 DEF LogWriter
    <3>3. UnitAt(o)' = mtype[r][o - base[r]]
      BY <1>8, <3>1, <3>2
    <3>4. UnitAt(o)' = e.w
      BY <2>3, <2>4, <3>1, <3>3
    <3>5. ASSUME NEW q \in Rank, pc'[q] = "ldwrite" PROVE ~ InBlock(o, q)'
      <4>1. q # r /\ pc[q] = "ldwrite" /\ base'[q] = base[q] /\ fsize'[q] = fsize[q]
        BY <1>3, <3>5
      <4>2. ~ InBlock(o, q)
        BY <1>1, <3>1, <4>1 DEF DataInv, BlocksApart
      <4> QED BY <4>1, <4>2 DEF InBlock
    <3> QED BY <3>4, <3>5
  <2>8. NewLog.plain => Safe(e)'
    BY <2>7 DEF Safe, Span
  <2> QED BY <1>1, <1>7, <2>6, <2>8 DEF HomeIn, End
<1>11. Intact'
  <2> SUFFICES ASSUME NEW e \in placed' PROVE \E k \in DOMAIN ld : HomeIn(e, k)'
    BY <1>1 DEF Intact
  <2>1. CASE e \in placed
    BY <1>9, <2>1
  <2>2. CASE e \notin placed
    <3>1. PICK i \in Pending(r) : e = Relocated(r)[i]
      BY <1>1, <2>2
    <3>2. HomeIn(e, Len(ld))'
      BY <1>10, <3>1
    <3>3. Len(ld) \in DOMAIN ld /\ Len(ld)' = Len(ld)
      BY <1>1, <1>7
    <3> QED BY <3>2, <3>3
  <2> QED BY <2>1, <2>2
<1> QED BY <1>4, <1>5, <1>11 DEF DataInv

\* Every step keeps the bytes of flushed requests in place.
LEMMA NextData == IInv /\ Layout /\ DataInv /\ [Next]_vars => DataInv'
<1> SUFFICES ASSUME IInv, Layout, DataInv, [Next]_vars PROVE DataInv'
  OBVIOUS
<1> DEFINE Kept(q) ==
      /\ pc'[q] = pc[q] /\ wreqs'[q] = wreqs[q] /\ nflushed'[q] = nflushed[q]
      /\ fsize'[q] = fsize[q] /\ mtype'[q] = mtype[q] /\ base'[q] = base[q]
<1>1. ASSUME NEW r \in Rank, Step(r) PROVE DataInv'
  <2> USE DEF flags, counters, queue, prog, scratch, store
  <2>1. ASSUME NEW c \in Cells, NEW s \in Sizes, H5Dwrite(r, c, s) PROVE DataInv'
    <3>1. /\ UNCHANGED <<ld, disk, placed, pc, nflushed, fsize, mtype, base>>
          /\ pc[r] = "app"
          /\ \A q \in Rank : q # r => wreqs'[q] = wreqs[q]
      BY <2>1 DEF H5Dwrite, IInv, TypeOK
    <3>2. \A q \in Rank : pc'[q] \in {"sync", "ldwrite"} => Kept(q)
      BY <3>1
    <3> QED BY <3>1, <3>2, DataFrame
  <2>2. CASE H5Fflush(r)
    BY <2>2, StartFlushData DEF H5Fflush, Call
  <2>3. CASE H5Dread(r)
    <3>1. /\ UNCHANGED <<ld, disk, placed, wreqs, nflushed, fsize, mtype, base>>
          /\ \A q \in Rank : q # r => pc'[q] = pc[q]
          /\ pc'[r] \notin {"sync", "ldwrite"}
      BY <2>3 DEF H5Dread, Call, IInv, TypeOK
    <3> QED BY <3>1, DataFrame
  <2>4. CASE H5Fclose(r)
    <3>1. UNCHANGED <<nflushed, ld, disk, placed, base>> /\ pc[r] = "app"
      BY <2>4 DEF H5Fclose, Call
    <3>2. CASE StartFlush(r)
      BY <3>1, <3>2, StartFlushData
    <3>3. CASE ~ StartFlush(r)
      <4>1. /\ UNCHANGED <<wreqs, fsize, mtype>>
            /\ \A q \in Rank : q # r => pc'[q] = pc[q]
            /\ pc'[r] \notin {"sync", "ldwrite"}
        BY <2>4, <3>3 DEF H5Fclose, IInv, TypeOK
      <4> QED BY <3>1, <4>1, DataFrame
    <3> QED BY <3>2, <3>3
  <2>5. CASE WriteLog(r)
    BY <2>5, WriteLogData
  <2>6. CASE WriteMeta(r)
    BY <2>6, WriteMetaData
  <2>7. CASE LoadIndex(r)
    <3>1. /\ UNCHANGED <<ld, disk, placed, wreqs, nflushed, fsize, mtype, base>>
          /\ \A q \in Rank : q # r => pc'[q] = pc[q]
          /\ pc'[r] \notin {"sync", "ldwrite"}
      BY <2>7 DEF LoadIndex, IInv, TypeOK
    <3> QED BY <3>1, DataFrame
  <2>8. ASSUME NEW c \in Cells, Search(r, c) PROVE DataInv'
    <3>1. /\ UNCHANGED <<ld, disk, placed, wreqs, nflushed, fsize, mtype, base>>
          /\ \A q \in Rank : q # r => pc'[q] = pc[q]
          /\ pc'[r] \notin {"sync", "ldwrite"}
      BY <2>8 DEF Search, IInv, TypeOK
    <3> QED BY <3>1, DataFrame
  <2>9. ASSUME NEW c \in Cells, SearchFails(r, c) PROVE DataInv'
    <3>1. /\ UNCHANGED <<ld, disk, placed, wreqs, nflushed, fsize, mtype, base>>
          /\ \A q \in Rank : q # r => pc'[q] = pc[q]
          /\ pc'[r] \notin {"sync", "ldwrite"}
      BY <2>9 DEF SearchFails, IInv, TypeOK
    <3> QED BY <3>1, DataFrame
  <2> QED BY <1>1, <2>1, <2>2, <2>3, <2>4, <2>5, <2>6, <2>7, <2>8, <2>9 DEF Step
<1>2. CASE Collective
  <2>1. CASE CreateLog
    BY <2>1, CreateLogData
  <2>2. CASE CreateMeta
    <3>1. /\ UNCHANGED <<ld, disk, placed>>
          /\ \A q \in Rank : pc'[q] \notin {"sync", "ldwrite"}
      BY <2>2 DEF CreateMeta, prog, queue, flags
    <3> QED BY <3>1, DataFrame
  <2>3. CASE FlushNothing \/ MetaBarrier \/ ReadAll
    <3>1. /\ UNCHANGED <<ld, disk, placed>>
          /\ \A q \in Rank : pc'[q] \notin {"sync", "ldwrite"}
      BY <2>3 DEF FlushNothing, MetaBarrier, ReadAll, AfterFlush, AfterBarrier, store
    <3> QED BY <3>1, DataFrame
  <2>4. CASE CloseFile
    <3>1. /\ UNCHANGED <<ld, disk, placed>>
          /\ \A q \in Rank : pc'[q] \notin {"sync", "ldwrite"}
      BY <2>4 DEF CloseFile
    <3> QED BY <3>1, DataFrame
  <2> QED BY <1>2, <2>1, <2>2, <2>3, <2>4 DEF Collective
<1>3. CASE Reopen
  <2>1. /\ UNCHANGED <<ld, disk, placed>>
        /\ \A q \in Rank : pc'[q] \notin {"sync", "ldwrite"}
    BY <1>3 DEF Reopen, store
  <2> QED BY <2>1, DataFrame
<1>4. CASE Finished \/ UNCHANGED vars
  <2>1. UNCHANGED vars
    BY <1>4 DEF Finished
  <2> QED BY <2>1, DataFrame DEF vars, queue, scratch, store
<1> QED BY <1>1, <1>2, <1>3, <1>4 DEF Next

\* What DataInv says of a flushed request is what a read of it finds.
LEMMA DataInvSuffices == IInv /\ Layout /\ DataInv => FlushedDataIntact
<1> SUFFICES ASSUME IInv, Layout, DataInv, NEW k \in DOMAIN ld, ld[k].plain,
                    NEW e \in placed, InLog(e, k)
             PROVE  BytesAt(e) = e.w
  BY DEF FlushedDataIntact
<1>1. e.foff \in Nat \cup {Unset} /\ e.w.size \in Nat /\ e.w.size >= 1 /\ e.w \in Write
  BY EntryFields DEF IInv, TypeOK
<1>2. PICK j \in DOMAIN ld : HomeIn(e, j)
  BY DEF DataInv, Intact
<1>3. /\ ld[k].doff \in Nat /\ End(ld[k]) \in Nat /\ ld[j].doff \in Nat
      /\ End(ld[j]) \in Nat /\ Len(ld) \in Nat /\ DOMAIN ld = 1 .. Len(ld)
      /\ End(ld[k]) = ld[k].doff + ld[k].size
  BY DatasetTypes DEF IInv, End
<1>4. /\ ld[k].doff <= e.foff /\ e.foff < End(ld[k])
      /\ ld[j].doff <= e.foff /\ e.foff + e.w.size <= End(ld[j])
  BY <1>2, <1>3 DEF InLog, HomeIn
<1>5. e.foff \in Nat
  BY <1>1, <1>3, <1>4 DEF Unset
<1>6. j = k
  <2>1. CASE j < k
    <3>1. End(ld[j]) <= ld[k].doff
      BY <2>1 DEF Layout, FileOrder, Ordered
    <3> QED BY <1>1, <1>3, <1>4, <1>5, <3>1
  <2>2. CASE k < j
    <3>1. End(ld[k]) <= ld[j].doff
      BY <2>2 DEF Layout, FileOrder, Ordered
    <3> QED BY <1>1, <1>3, <1>4, <1>5, <3>1
  <2> QED BY <1>3, <2>1, <2>2
<1>7. \A o \in Span(e) : UnitAt(o) = e.w
  BY <1>2, <1>6 DEF HomeIn, Safe
<1>8. e.foff \in Span(e) /\ e.foff # Unset
  BY <1>1, <1>5 DEF Span, Unset
<1> QED BY <1>1, <1>7, <1>8 DEF BytesAt, Span

\* For any number of processes and any sizes: once a request is flushed into a
\* log dataset created under plain views, its bytes are in the file at the offset
\* its metadata entry records, and no later flush of any process overwrites them,
\* nor does a write through the view that a read has left.
THEOREM FlushedDataStays == Spec => []FlushedDataIntact
<1>1. Init => DataInv
  BY DEF Init, DataInv, Prepared, BlocksApart, Intact
<1>2. Spec => [](IInv /\ Layout /\ DataInv)
  BY <1>1, InitIInv, InitLayout, NextIInv, NextLayout, NextData, PTL DEF Spec
<1> QED BY <1>2, DataInvSuffices, PTL

-----------------------------------------------------------------------------
(***************************************************************************)
(* The second part: what LogFile writes into its metadata datasets and     *)
(* loads from them, for any program.  The section table of every metadata  *)
(* dataset cuts it into one section per process, and an index never holds  *)
(* a hole or the offset of a request not yet placed.  Both hold of what is *)
(* created under plain views and rest on an invariant that follows the     *)
(* sections of the dataset being written through the steps of its writers. *)
(* And what the processes agree on: the flags that choose the collectives  *)
(* of a call, for every program; and the collectives themselves, for a     *)
(* program that flushes before it reads or closes and reads no empty       *)
(* selection.                                                              *)
(***************************************************************************)

\* A process queues its own writes only.
QueueOwn == \A r \in Rank : \A i \in DOMAIN wreqs[r] : wreqs[r][i].w.rank = r

\* The offset of an entry is the place of its data, or was never set.
Settled(e) == e \in placed \/ e.foff = Unset

\* Only the requests of a data flush under way carry a relative offset.
QueueSettled ==
  \A r \in Rank : \A i \in DOMAIN wreqs[r] :
    (pc[r] \in {"sync", "ldwrite"} => i \notin Pending(r)) => Settled(wreqs[r][i])

\* Process r has yet to write its section of metadata dataset k.
Writing(k, r) == k = Len(md) /\ pc[r] = "mdwrite"

\* The offset of the first entry of process r's section, and the section
\* table, when p is the prefix sum of the sizes of the sections.
First(p, r) == p[r] + TableSize(r)
Table(p) == [i \in 1 .. NP + 1 |-> IF i = 1 THEN NP ELSE p[i - 1]]

\* A section its process has written holds settled entries of that process.
OwnEntry(x, r) == x \in Entry /\ x.w.rank = r /\ Settled(x)
Section(k, p, r) ==
  /\ First(p, r) <= p[r + 1]
  /\ IF Writing(k, r)
     THEN base[r] = md[k].doff + p[r] /\ p[r + 1] = First(p, r) + Len(wreqs[r])
     ELSE \A u \in First(p, r) .. p[r + 1] - 1 : OwnEntry(UnitAt(md[k].doff + u), r)

TableWord(k, p, u) == UnitAt(md[k].doff + u) = [word |-> Table(p)[u + 1]]
Cut(k, p) ==
  /\ p[0] = 0 /\ p[NP] = md[k].size
  /\ IF Writing(k, 0) THEN mdoffs = Table(p) ELSE \A u \in 0 .. NP : TableWord(k, p, u)
  /\ \A r \in Rank : Section(k, p, r)

MetaCut == \A k \in DOMAIN md : md[k].plain => \E p \in Scans(NP) : Cut(k, p)

IndexInv == QueueOwn /\ QueueSettled /\ MetaCut /\ IndexSound

-----------------------------------------------------------------------------
(* Steps of one process, and steps of all *)

\* A step of one process changes nothing that belongs to another.
LEMMA StepLocal ==
  ASSUME TypeOK, NEW r \in Rank, Step(r), NEW q \in Rank, q # r
  PROVE  /\ pc'[q] = pc[q] /\ ncall'[q] = ncall[q] /\ dirty'[q] = dirty[q]
         /\ wreqs'[q] = wreqs[q] /\ nflushed'[q] = nflushed[q]
         /\ metadirty'[q] = metadirty[q] /\ idxvalid'[q] = idxvalid[q]
         /\ idx'[q] = idx[q] /\ base'[q] = base[q] /\ fsize'[q] = fsize[q]
         /\ view'[q] = view[q]
<1> USE DEF TypeOK, prog, queue, flags, counters, scratch, store
<1>1. CASE \E c \in Cells, s \in Sizes : H5Dwrite(r, c, s)
  BY <1>1 DEF H5Dwrite
<1>2. CASE H5Fflush(r)
  BY <1>2 DEF H5Fflush, Call, StartFlush
<1>3. CASE H5Dread(r)
  BY <1>3 DEF H5Dread, Call
<1>4. CASE H5Fclose(r)
  BY <1>4 DEF H5Fclose, Call, StartFlush
<1>5. CASE WriteLog(r)
  BY <1>5 DEF WriteLog
<1>6. CASE WriteMeta(r)
  BY <1>6 DEF WriteMeta
<1>7. CASE LoadIndex(r)
  BY <1>7 DEF LoadIndex
<1>8. CASE \E c \in Cells : Search(r, c) \/ SearchFails(r, c)
  BY <1>8 DEF Search, SearchFails
<1> QED BY <1>1, <1>2, <1>3, <1>4, <1>5, <1>6, <1>7, <1>8 DEF Step

\* Where a step takes the process that makes it.
LEMMA StepMoves ==
  ASSUME TypeOK, NEW r \in Rank, Step(r)
  PROVE  \/ pc[r] = "app" /\ pc'[r] \in {"app", "sync", "gather", "load", "search", "fclose"}
         \/ pc[r] = "ldwrite" /\ pc'[r] \in {"app", "gather"} /\ WriteLog(r)
         \/ pc[r] = "mdwrite" /\ pc'[r] = "mdbarrier" /\ WriteMeta(r)
         \/ pc[r] = "load" /\ pc'[r] \in {"search", "failed"} /\ LoadIndex(r)
         \/ pc[r] = "search" /\ pc'[r] \in {"readall", "failed"}
<1> USE DEF TypeOK
<1>1. CASE \E c \in Cells, s \in Sizes : H5Dwrite(r, c, s)
  BY <1>1 DEF H5Dwrite
<1>2. CASE H5Fflush(r)
  BY <1>2 DEF H5Fflush, Call, StartFlush
<1>3. CASE H5Dread(r)
  BY <1>3 DEF H5Dread, Call
<1>4. CASE H5Fclose(r)
  BY <1>4 DEF H5Fclose, Call, StartFlush
<1>5. CASE WriteLog(r)
  BY <1>5 DEF WriteLog, AfterFlush
<1>6. CASE WriteMeta(r)
  BY <1>6 DEF WriteMeta, AfterMeta
<1>7. CASE LoadIndex(r)
  BY <1>7 DEF LoadIndex
<1>8. CASE \E c \in Cells : Search(r, c) \/ SearchFails(r, c)
  BY <1>8 DEF Search, SearchFails
<1> QED BY <1>1, <1>2, <1>3, <1>4, <1>5, <1>6, <1>7, <1>8 DEF Step

\* Where a collective takes all processes.
LEMMA CollectiveMoves ==
  ASSUME Collective \/ Reopen
  PROVE  \E from, to \in Joint \cup Local :
           /\ from \in Joint /\ \A r \in Rank : pc[r] = from
           /\ \/ /\ from = "sync" /\ FlushNothing
                 /\ \A r \in Rank : pc'[r] = AfterFlush(r)
              \/ /\ from = "sync" /\ to = "ldwrite" /\ CreateLog
                 /\ \A r \in Rank : pc'[r] = to
              \/ /\ from = "gather" /\ to = "mdwrite" /\ CreateMeta
                 /\ \A r \in Rank : pc'[r] = to
              \/ /\ from = "mdbarrier" /\ MetaBarrier
                 /\ \A r \in Rank : pc'[r] = AfterBarrier(r)
              \/ /\ from = "readall" /\ to = "app" /\ ReadAll
                 /\ \A r \in Rank : pc'[r] = to
              \/ /\ from = "fclose" /\ to = "closed" /\ CloseFile
                 /\ \A r \in Rank : pc'[r] = to
              \/ /\ from = "closed" /\ to = "app" /\ Reopen
                 /\ \A r \in Rank : pc'[r] = to
<1> USE DEF Joint, Local
<1>1. CASE FlushNothing
  BY <1>1 DEF FlushNothing
<1>2. CASE CreateLog
  BY <1>2 DEF CreateLog
<1>3. CASE CreateMeta
  BY <1>3 DEF CreateMeta
<1>4. CASE MetaBarrier
  BY <1>4 DEF MetaBarrier
<1>5. CASE ReadAll
  BY <1>5 DEF ReadAll
<1>6. CASE CloseFile
  BY <1>6 DEF CloseFile
<1>7. CASE Reopen
  BY <1>7 DEF Reopen
<1> QED BY <1>1, <1>2, <1>3, <1>4, <1>5, <1>6, <1>7 DEF Collective

-----------------------------------------------------------------------------
(* The queues *)

\* Preparing a data flush changes offsets of pending requests and nothing else.
LEMMA StartFlushQueue ==
  ASSUME TypeOK, NEW r \in Rank, StartFlush(r)
  PROVE  /\ DOMAIN wreqs'[r] = DOMAIN wreqs[r]
         /\ Len(wreqs'[r]) = Len(wreqs[r])
         /\ \A i \in DOMAIN wreqs[r] : /\ wreqs'[r][i].w = wreqs[r][i].w
                                       /\ wreqs'[r][i].ref = wreqs[r][i].ref
         /\ \A i \in DOMAIN wreqs[r] : i \notin Pending(r) => wreqs'[r][i] = wreqs[r][i]
<1> DEFINE ent(p) == [i \in DOMAIN wreqs[r] |->
             IF i \in Pending(r) THEN [wreqs[r][i] EXCEPT !.foff = p[i - nflushed[r] - 1]]
                                 ELSE wreqs[r][i]]
<1>1. PICK p \in Scans(NPending(r)) : wreqs' = [wreqs EXCEPT ![r] = ent(p)]
  BY DEF StartFlush
<1>2. wreqs'[r] = ent(p)
  BY <1>1 DEF TypeOK
<1>3. DOMAIN wreqs'[r] = DOMAIN wreqs[r]
  BY <1>2
<1>4. \A i \in DOMAIN wreqs[r] : wreqs[r][i] \in Entry
  BY PendingCount
<1>5. \A i \in DOMAIN wreqs[r] : /\ ent(p)[i].w = wreqs[r][i].w
                                 /\ ent(p)[i].ref = wreqs[r][i].ref
  BY <1>4 DEF Entry
<1>6. \A i \in DOMAIN wreqs[r] : i \notin Pending(r) => ent(p)[i] = wreqs[r][i]
  OBVIOUS
<1>7. Len(wreqs'[r]) = Len(wreqs[r])
  <2>1. wreqs' \in [Rank -> Seq(Entry)] /\ wreqs \in [Rank -> Seq(Entry)]
    BY StartFlushTypes DEF TypeOK
  <2> QED BY <1>3, <2>1, LenProperties
<1> HIDE DEF ent
<1> QED BY <1>2, <1>3, <1>5, <1>6, <1>7

\* What relocation does to an entry.
LEMMA RelocatedFields ==
  ASSUME TypeOK, NEW r \in Rank
  PROVE  /\ DOMAIN Relocated(r) = DOMAIN wreqs[r]
         /\ Len(Relocated(r)) = Len(wreqs[r])
         /\ \A i \in DOMAIN wreqs[r] : /\ Relocated(r)[i].w = wreqs[r][i].w
                                       /\ Relocated(r)[i].ref = wreqs[r][i].ref
         /\ \A i \in DOMAIN wreqs[r] :
              i \notin Pending(r) => Relocated(r)[i] = wreqs[r][i]
<1>1. DOMAIN Relocated(r) = DOMAIN wreqs[r]
  BY DEF Relocated
<1>2. \A i \in DOMAIN wreqs[r] : wreqs[r][i] \in Entry
  BY PendingCount
<1>3. \A i \in DOMAIN wreqs[r] : /\ Relocated(r)[i].w = wreqs[r][i].w
                                 /\ Relocated(r)[i].ref = wreqs[r][i].ref
  BY <1>2 DEF Entry, Relocated
<1>4. \A i \in DOMAIN wreqs[r] : i \notin Pending(r) => Relocated(r)[i] = wreqs[r][i]
  BY DEF Relocated
<1>5. Len(Relocated(r)) = Len(wreqs[r])
  <2>1. Relocated(r) \in Seq(Entry) /\ wreqs[r] \in Seq(Entry)
    BY RelocatedTypes DEF TypeOK
  <2> QED BY <1>1, <2>1, LenProperties
<1> QED BY <1>1, <1>3, <1>4, <1>5

\* Data once placed stays placed.
LEMMA PlacedGrows == ASSUME [Next]_vars PROVE placed \subseteq placed'
<1> USE DEF store
<1>1. ASSUME NEW r \in Rank, Step(r) PROVE placed \subseteq placed'
  BY <1>1 DEF Step, H5Dwrite, H5Fflush, H5Dread, H5Fclose, WriteLog, WriteMeta, LoadIndex,
              Search, SearchFails
<1>2. CASE Collective
  BY <1>2 DEF Collective, FlushNothing, CreateLog, CreateMeta, MetaBarrier, ReadAll, CloseFile
<1>3. CASE Reopen \/ Finished \/ UNCHANGED vars
  BY <1>3 DEF Reopen, Finished, vars
<1> QED BY <1>1, <1>2, <1>3 DEF Next

\* How a step changes the queue of the process that makes it.
LEMMA QueueSteps ==
  ASSUME TypeOK, NEW r \in Rank, Step(r)
  PROVE  \/ wreqs' = wreqs /\ nflushed' = nflushed /\ pc[r] \notin {"sync", "ldwrite"}
            /\ pc'[r] \notin {"sync", "ldwrite"}
         \/ \E c \in Cells, s \in Sizes : H5Dwrite(r, c, s)
         \/ StartFlush(r) /\ nflushed' = nflushed /\ pc[r] = "app" /\ placed' = placed
            /\ pc'[r] = "sync"
         \/ WriteLog(r)
         \/ WriteMeta(r)
<1> USE DEF TypeOK, queue
<1>1. CASE H5Fflush(r)
  BY <1>1 DEF H5Fflush, Call, StartFlush, store
<1>2. CASE H5Dread(r)
  BY <1>2 DEF H5Dread, Call
<1>3. CASE H5Fclose(r)
  BY <1>3 DEF H5Fclose, Call, StartFlush, store
<1>4. CASE LoadIndex(r)
  BY <1>4 DEF LoadIndex
<1>5. CASE \E c \in Cells : Search(r, c) \/ SearchFails(r, c)
  BY <1>5 DEF Search, SearchFails
<1> QED BY <1>1, <1>2, <1>3, <1>4, <1>5 DEF Step

\* How a collective changes the queues.
LEMMA QueueCollectives ==
  ASSUME Collective \/ Reopen
  PROVE  \/ wreqs' = wreqs /\ nflushed' = nflushed
         \/ wreqs' = [r \in Rank |-> <<>>]
BY DEF Collective, FlushNothing, CreateLog, CreateMeta, MetaBarrier, ReadAll, CloseFile,
       Reopen, queue

\* A process never queues a write of another.
LEMMA QueueOwnKept == ASSUME IInv, QueueOwn, [Next]_vars PROVE QueueOwn'
<1>0. TypeOK
  BY DEF IInv
<1>1. ASSUME NEW r \in Rank, Step(r) PROVE QueueOwn'
  <2> SUFFICES ASSUME NEW i \in DOMAIN wreqs'[r] PROVE wreqs'[r][i].w.rank = r
    BY <1>0, <1>1, StepLocal DEF QueueOwn
  <2>1. CASE wreqs' = wreqs
    BY <2>1 DEF QueueOwn
  <2>2. ASSUME NEW c \in Cells, NEW s \in Sizes, H5Dwrite(r, c, s)
        PROVE  wreqs'[r][i].w.rank = r
    <3> DEFINE w == [rank |-> r, seq |-> 1 + Cardinality({v \in issued : v.rank = r}),
                     cell |-> c, size |-> s]
               e == [w |-> w, foff |-> Unset, ref |-> Deduplicated(r, c)]
    <3>1. wreqs'[r] = Append(wreqs[r], e) /\ e.w.rank = r
      BY <1>0, <2>2 DEF H5Dwrite, TypeOK
    <3> HIDE DEF e
    <3>2. wreqs[r] \in Seq(Entry) /\ wreqs'[r] \in Seq(Entry)
      <4>1. TypeOK'
        BY <2>2, H5DwriteIInv DEF IInv
      <4> QED BY <1>0, <4>1 DEF TypeOK
    <3>3. DOMAIN wreqs[r] = 1 .. Len(wreqs[r]) /\ Len(wreqs[r]) \in Nat
      BY <3>2, LenProperties
    <3>4. i \in 1 .. Len(wreqs[r]) + 1
      BY <3>1, <3>3
    <3>5. CASE i \in 1 .. Len(wreqs[r])
      BY <3>1, <3>3, <3>5 DEF QueueOwn
    <3>6. CASE i = Len(wreqs[r]) + 1
      BY <3>1, <3>3, <3>6
    <3> QED BY <3>3, <3>4, <3>5, <3>6
  <2>3. CASE StartFlush(r)
    BY <1>0, <2>3, StartFlushQueue DEF QueueOwn
  <2>4. CASE WriteLog(r)
    <3>1. wreqs'[r] = Relocated(r)
      BY <1>0, <2>4 DEF WriteLog, TypeOK
    <3> QED BY <1>0, <3>1, RelocatedFields DEF QueueOwn
  <2>5. CASE WriteMeta(r)
    BY <1>0, <2>5 DEF WriteMeta, TypeOK
  <2> QED BY <1>0, <1>1, <2>1, <2>2, <2>3, <2>4, <2>5, QueueSteps
<1>2. CASE Collective \/ Reopen
  BY <1>2, QueueCollectives DEF QueueOwn
<1>3. CASE Finished \/ UNCHANGED vars
  BY <1>3 DEF Finished, vars, queue, QueueOwn
<1> QED BY <1>1, <1>2, <1>3 DEF Next

\* A data flush that finds no data to write has no requests to write either.
LEMMA NothingPending ==
  ASSUME IInv, Prepared, NEW r \in Rank, pc[r] = "sync", fsize[r] = 0
  PROVE  Pending(r) = {}
<1> SUFFICES ASSUME NEW i \in Pending(r) PROVE FALSE
  OBVIOUS
<1>1. wreqs[r][i].foff >= 0 /\ wreqs[r][i].foff + wreqs[r][i].w.size <= 0
  BY DEF Prepared
<1>2. wreqs[r][i] \in Entry
  BY PendingCount DEF IInv
<1>3. wreqs[r][i].foff \in Int /\ wreqs[r][i].w.size \in Nat /\ wreqs[r][i].w.size >= 1
  BY <1>2, EntryFields, Constants
<1> QED BY <1>1, <1>3

\* An entry outside a data flush has the place of its data, or none.
LEMMA QueueSettledKept ==
  ASSUME IInv, Prepared, QueueSettled, [Next]_vars PROVE QueueSettled'
<1>0. TypeOK /\ placed \subseteq placed'
  BY PlacedGrows DEF IInv
<1>1. ASSUME NEW r \in Rank, Step(r) PROVE QueueSettled'
  <2> SUFFICES ASSUME NEW i \in DOMAIN wreqs'[r],
                      pc'[r] \in {"sync", "ldwrite"} => i \notin Pending(r)'
               PROVE  Settled(wreqs[r][i])'
    <3>1. \A q \in Rank : q # r => /\ pc'[q] = pc[q] /\ wreqs'[q] = wreqs[q]
                                   /\ nflushed'[q] = nflushed[q]
      BY <1>0, <1>1, StepLocal
    <3> QED BY <1>0, <3>1 DEF QueueSettled, Settled, Pending
  <2>1. CASE wreqs' = wreqs /\ nflushed' = nflushed /\ pc[r] \notin {"sync", "ldwrite"}
    BY <1>0, <2>1 DEF QueueSettled, Settled
  <2>2. ASSUME NEW c \in Cells, NEW s \in Sizes, H5Dwrite(r, c, s)
        PROVE  Settled(wreqs[r][i])'
    <3> DEFINE w == [rank |-> r, seq |-> 1 + Cardinality({v \in issued : v.rank = r}),
                     cell |-> c, size |-> s]
               e == [w |-> w, foff |-> Unset, ref |-> Deduplicated(r, c)]
    <3>1. /\ wreqs'[r] = Append(wreqs[r], e) /\ e.foff = Unset /\ pc[r] = "app"
          /\ wreqs[r] \in Seq(Entry)
      BY <1>0, <2>2 DEF H5Dwrite, TypeOK
    <3> HIDE DEF e
    <3>2. /\ DOMAIN wreqs[r] = 1 .. Len(wreqs[r]) /\ Len(wreqs[r]) \in Nat
          /\ DOMAIN wreqs'[r] = 1 .. Len(wreqs[r]) + 1
      BY <3>1, LenProperties
    <3>3. CASE i \in 1 .. Len(wreqs[r])
      <4>1. wreqs'[r][i] = wreqs[r][i]
        BY <3>1, <3>2, <3>3
      <4> QED BY <1>0, <3>1, <3>2, <3>3, <4>1 DEF QueueSettled, Settled
    <3>4. CASE i = Len(wreqs[r]) + 1
      BY <3>1, <3>2, <3>4 DEF Settled
    <3> QED BY <3>2, <3>3, <3>4
  <2>3. CASE StartFlush(r) /\ nflushed' = nflushed /\ pc[r] = "app" /\ pc'[r] = "sync"
    <3>1. Pending(r)' = Pending(r)
      BY <1>0, <2>3, StartFlushQueue DEF Pending
    <3> QED BY <1>0, <2>3, <3>1, StartFlushQueue DEF QueueSettled, Settled
  <2>4. CASE WriteLog(r)
    <3>1. wreqs'[r] = Relocated(r) /\ pc[r] = "ldwrite"
      BY <1>0, <2>4 DEF WriteLog, TypeOK
    <3>2. placed' = placed \cup {Relocated(r)[j] : j \in Pending(r)}
      BY <2>4 DEF WriteLog
    <3>3. CASE i \in Pending(r)
      BY <3>1, <3>2, <3>3 DEF Settled
    <3>4. CASE i \notin Pending(r)
      BY <1>0, <3>1, <3>4, RelocatedFields DEF QueueSettled, Settled
    <3> QED BY <3>3, <3>4
  <2>5. CASE WriteMeta(r)
    BY <1>0, <2>5 DEF WriteMeta, TypeOK
  <2> QED BY <1>0, <1>1, <2>1, <2>2, <2>3, <2>4, <2>5, QueueSteps
<1>2. CASE Collective \/ Reopen
  <2>1. CASE wreqs' = [r \in Rank |-> <<>>]
    BY <2>1 DEF QueueSettled
  <2>2. CASE wreqs' = wreqs /\ nflushed' = nflushed
    <3>1. CASE FlushNothing
      BY <1>0, <2>2, <3>1, NothingPending DEF FlushNothing, QueueSettled, Settled
    <3>2. CASE ~FlushNothing
      <4>1. \A r \in Rank : pc[r] \in {"sync", "ldwrite"} => pc'[r] \in {"sync", "ldwrite"}
        BY <1>2, <3>2, CollectiveMoves
      <4> QED BY <1>0, <2>2, <4>1 DEF QueueSettled, Settled, Pending
    <3> QED BY <3>1, <3>2
  <2> QED BY <1>2, <2>1, <2>2, QueueCollectives
<1>3. CASE Finished \/ UNCHANGED vars
  BY <1>3 DEF Finished, vars, queue, store, QueueSettled, Settled, Pending
<1> QED BY <1>1, <1>2, <1>3 DEF Next

-----------------------------------------------------------------------------
(* The sections of a metadata dataset *)

\* A sequence of offsets that never goes back does not do so over any distance.
LEMMA CutMonotone ==
  ASSUME NEW n \in Nat, NEW p \in [0 .. n -> Nat], \A l \in 1 .. n : p[l-1] <= p[l],
         NEW i \in 0 .. n, NEW j \in 0 .. n, i <= j
  PROVE  p[i] <= p[j]
<1>1. \A l \in 1 .. n : p[l] \in Nat /\ p[l-1] \in Nat /\ p[l-1] <= p[l]
  OBVIOUS
<1> DEFINE T == {k \in 0 .. n : i <= k /\ p[k] < p[i]}
<1>4. CASE T = {}
  <2>1. j \notin T /\ p[i] \in Nat /\ p[j] \in Nat
    BY <1>4
  <2> QED BY <2>1
<1>5. CASE T # {}
  <2>1. PICK k \in T : \A l \in T : k <= l
    <3>1. T \in SUBSET Nat
      OBVIOUS
    <3> HIDE DEF T
    <3> QED BY <1>5, <3>1, LeastNat
  <2>2. k \in 0 .. n /\ i <= k /\ p[k] < p[i] /\ k # i
    OBVIOUS
  <2>3. k - 1 \in 0 .. n /\ i <= k - 1 /\ k \in 1 .. n /\ k - 1 \notin T
    BY <2>1, <2>2
  <2>4. ~ (p[k - 1] < p[i]) /\ p[k - 1] <= p[k] /\ p[k] \in Nat /\ p[k - 1] \in Nat
        /\ p[i] \in Nat
    BY <1>1, <2>3
  <2> HIDE DEF T
  <2> QED BY <2>2, <2>4
<1> QED BY <1>4, <1>5

\* The offsets of the sections do not go back, and each section follows the
\* one before it.
LEMMA SectionsOrdered ==
  ASSUME NEW k, NEW p \in Scans(NP), Cut(k, p), NEW r \in Rank, NEW q \in Rank
  PROVE  /\ p[r] \in Nat /\ p[r + 1] \in Nat /\ First(p, r) \in Nat
         /\ p[r] <= First(p, r) /\ First(p, r) <= p[r + 1] /\ p[r + 1] <= p[NP]
         /\ p[NP] \in Nat
         /\ r < q => p[r + 1] <= p[q]
         /\ r = 0 => p[r] = 0 /\ First(p, r) = NP + 1
<1>1. p \in [0 .. NP -> Nat] /\ NP \in Nat
  BY Constants DEF Scans
<1>2. \A x \in Rank : /\ x \in 0 .. NP /\ x + 1 \in 0 .. NP /\ x + 1 \in 1 .. NP
                      /\ x \in Nat
                      /\ p[x] \in Nat /\ p[x + 1] \in Nat
  BY <1>1, Constants DEF Rank
<1>3. \A x \in Rank : TableSize(x) \in Nat
  BY <1>1 DEF TableSize
<1>4. \A x \in Rank : /\ First(p, x) \in Nat /\ p[x] <= First(p, x)
                      /\ First(p, x) <= p[x + 1]
  BY <1>2, <1>3 DEF Cut, Section, First
<1>5. \A l \in 1 .. NP : p[l - 1] <= p[l]
  <2> SUFFICES ASSUME NEW l \in 1 .. NP PROVE p[l - 1] <= p[l]
    OBVIOUS
  <2>1. l - 1 \in Rank /\ (l - 1) + 1 = l
    BY <1>1 DEF Rank
  <2>2. /\ p[l - 1] \in Nat /\ p[l] \in Nat /\ First(p, l - 1) \in Nat
        /\ p[l - 1] <= First(p, l - 1) /\ First(p, l - 1) <= p[l]
    BY <1>2, <1>4, <2>1
  <2> QED BY <2>2
<1>6. p[r + 1] <= p[NP]
  <2>1. NP \in 0 .. NP /\ r + 1 <= NP
    BY <1>1 DEF Rank
  <2> QED BY <1>1, <1>2, <1>5, <2>1, CutMonotone
<1>7. ASSUME r < q PROVE p[r + 1] <= p[q]
  <2>1. r + 1 <= q
    BY <1>2, <1>7
  <2> QED BY <1>1, <1>2, <1>5, <2>1, CutMonotone
<1>8. p[NP] \in Nat
  BY <1>1
<1>9. r = 0 => p[r] = 0 /\ First(p, r) = NP + 1
  BY <1>1 DEF Cut, First, TableSize
<1> QED BY <1>2, <1>4, <1>6, <1>7, <1>8, <1>9

\* Every unit behind the section table lies in the section of some process.
LEMMA UnitOwner ==
  ASSUME NEW k, NEW p \in Scans(NP), Cut(k, p), NEW u \in NP + 1 .. p[NP] - 1
  PROVE  \E r \in Rank : u \in First(p, r) .. p[r + 1] - 1
<1>1. p \in [0 .. NP -> Nat] /\ NP \in Nat /\ p[0] = 0 /\ p[NP] \in Nat
  BY Constants DEF Scans, Cut
<1>2. u \in Nat /\ u \in 0 .. p[NP] - 1 /\ u >= NP + 1
  BY <1>1
<1>3. PICK i \in 1 .. NP : p[i-1] <= u /\ u < p[i]
  BY <1>1, <1>2, ScanCovers
<1>4. i - 1 \in Rank /\ (i - 1) + 1 = i
  BY <1>1 DEF Rank
<1> DEFINE r == i - 1
<1>5. First(p, r) <= u
  <2>1. CASE r = 0
    BY <1>1, <1>2, <2>1 DEF First, TableSize
  <2>2. CASE r # 0
    <3>1. First(p, r) = p[r] + 0 /\ p[r] \in Nat
      BY <1>1, <1>4, <2>2, SectionsOrdered DEF First, TableSize
    <3> QED BY <1>3, <3>1
  <2> QED BY <2>1, <2>2
<1>6. First(p, r) \in Nat /\ p[i] \in Nat
  BY <1>4, SectionsOrdered
<1> HIDE DEF r
<1>7. u \in First(p, r) .. p[i] - 1
  BY <1>2, <1>3, <1>5, <1>6
<1> QED BY <1>4, <1>7 DEF r

\* A step that leaves the units of a metadata dataset and its writers alone
\* keeps its sections.
SameUnits(k) == \A x \in Nat : x < End(md[k]) => UnitAt(x)' = UnitAt(x)
SameWriter(k, r) ==
  /\ Writing(k, r)' <=> Writing(k, r)
  /\ Writing(k, r) => /\ base'[r] = base[r] /\ wreqs'[r] = wreqs[r]
                      /\ r = 0 => mdoffs' = mdoffs

\* The table and the sections lie inside the dataset.
LEMMA InsideCut ==
  ASSUME TypeOK, NEW k \in DOMAIN md, NEW p \in Scans(NP), Cut(k, p)
  PROVE  /\ \A u \in 0 .. NP : md[k].doff + u \in Nat /\ md[k].doff + u < End(md[k])
         /\ \A r \in Rank : \A u \in First(p, r) .. p[r + 1] - 1 :
              md[k].doff + u \in Nat /\ md[k].doff + u < End(md[k])
<1>1. /\ md[k].doff \in Nat /\ md[k].size \in Nat /\ p[NP] = md[k].size
      /\ End(md[k]) = md[k].doff + p[NP] /\ NP \in Nat /\ 0 \in Rank
  BY DatasetTypes, Constants DEF End, Cut
<1>2. ASSUME NEW u \in 0 .. NP PROVE md[k].doff + u \in Nat /\ md[k].doff + u < End(md[k])
  <2>1. /\ First(p, 0) = NP + 1 /\ First(p, 0) <= p[0 + 1] /\ p[0 + 1] <= p[NP]
        /\ p[0 + 1] \in Nat
    BY <1>1, SectionsOrdered
  <2> QED BY <1>1, <2>1
<1>3. ASSUME NEW r \in Rank, NEW u \in First(p, r) .. p[r + 1] - 1
      PROVE  md[k].doff + u \in Nat /\ md[k].doff + u < End(md[k])
  <2>1. First(p, r) \in Nat /\ p[r + 1] \in Nat /\ p[r + 1] <= p[NP]
    BY SectionsOrdered
  <2> QED BY <1>1, <2>1
<1> QED BY <1>2, <1>3

\* What the frame says of one dataset.
LEMMA CutFrame ==
  ASSUME TypeOK, NEW k \in DOMAIN md, md'[k] = md[k], SameUnits(k), placed \subseteq placed',
         \A r \in Rank : SameWriter(k, r), NEW p \in Scans(NP), Cut(k, p)
  PROVE  Cut(k, p)'
<1>1. \A r \in Rank : Section(k, p, r)'
  <2> SUFFICES ASSUME NEW r \in Rank PROVE Section(k, p, r)'
    OBVIOUS
  <2>1. Section(k, p, r) /\ SameWriter(k, r)
    BY DEF Cut
  <2>2. First(p, r)' = First(p, r)
    BY DEF First, TableSize
  <2>3. ASSUME ~Writing(k, r), NEW u \in First(p, r) .. p[r + 1] - 1
        PROVE  OwnEntry(UnitAt(md[k].doff + u), r)'
    <3>1. OwnEntry(UnitAt(md[k].doff + u), r)
      BY <2>1, <2>3 DEF Section
    <3>2. UnitAt(md[k].doff + u)' = UnitAt(md[k].doff + u)
      <4>1. md[k].doff + u \in Nat /\ md[k].doff + u < End(md[k])
        BY <2>3, InsideCut
      <4> QED BY <4>1 DEF SameUnits, UnitAt
    <3> QED BY <3>1, <3>2 DEF OwnEntry, Settled
  <2> QED BY <2>1, <2>2, <2>3 DEF Section, SameWriter, First, TableSize
<1>2. ASSUME ~Writing(k, 0), NEW u \in 0 .. NP PROVE TableWord(k, p, u)'
  <2>1. TableWord(k, p, u)
    BY <1>2 DEF Cut
  <2>2. UnitAt(md[k].doff + u)' = UnitAt(md[k].doff + u)
    <3>1. md[k].doff + u \in Nat /\ md[k].doff + u < End(md[k])
      BY <1>2, InsideCut
    <3> QED BY <3>1 DEF SameUnits, UnitAt
  <2> QED BY <2>1, <2>2 DEF TableWord, Table
<1>3. SameWriter(k, 0) /\ 0 \in Rank
  BY Constants
<1>4. Cut(k, p)'
  BY <1>1, <1>2, <1>3 DEF Cut, SameWriter, Table
<1> QED BY <1>4

\* What a step that creates no metadata dataset keeps of all of them.
LEMMA MetaCutFrame ==
  ASSUME TypeOK, MetaCut, md' = md, placed \subseteq placed',
         \A k \in DOMAIN md : md[k].plain => SameUnits(k) /\ \A r \in Rank : SameWriter(k, r)
  PROVE  MetaCut'
<1> SUFFICES ASSUME NEW k \in DOMAIN md, md[k].plain PROVE \E p \in Scans(NP) : Cut(k, p)'
  BY DEF MetaCut
<1>1. PICK p \in Scans(NP) : Cut(k, p)
  BY DEF MetaCut
<1>2. Cut(k, p)'
  BY <1>1, CutFrame
<1> QED BY <1>2

\* A new metadata dataset is cut by the prefix sum rank 0 computed.
LEMMA CreateMetaCut == ASSUME IInv, MetaCut, CreateMeta PROVE MetaCut'
<1>1. PICK p \in Scans(NP) :
       /\ IsScan(p, MetaSizes)
       /\ mdoffs' = Table(p)
       /\ base' = [r \in Rank |-> eof + p[r]]
       /\ md' = Append(md, [names |-> {nmdset[r] : r \in Rank},
                            doff |-> eof, size |-> p[NP], plain |-> AllPlain])
  BY DEF CreateMeta, Table
<1>2. /\ \A r \in Rank : pc[r] = "gather" /\ pc'[r] = "mdwrite"
      /\ UNCHANGED <<wreqs, placed, disk>>
  BY DEF CreateMeta, queue
<1>3. p \in [0 .. NP -> Nat] /\ p[NP] \in Nat /\ p[0] = 0 /\ eof \in Nat
  BY <1>1, CreateScan DEF IsScan
<1> DEFINE d == [names |-> {nmdset[r] : r \in Rank}, doff |-> eof, size |-> p[NP],
                 plain |-> AllPlain]
<1>4. /\ Len(md) \in Nat /\ DOMAIN md = 1 .. Len(md) /\ Len(md') = Len(md) + 1
      /\ \A k \in DOMAIN md : md'[k] = md[k]
      /\ DOMAIN md' = 1 .. Len(md) + 1
      /\ md'[Len(md) + 1].doff = eof /\ md'[Len(md) + 1].size = p[NP]
  <2>1. md \in Seq(Dataset) /\ d.doff = eof /\ d.size = p[NP]
    BY DEF IInv, TypeOK
  <2>2. d \in Dataset
    <3>1. \A r \in Rank : nmdset[r] \in Nat
      BY DEF IInv, TypeOK
    <3> QED BY <1>3, <3>1 DEF Dataset, AllPlain
  <2>3. md' = Append(md, d)
    BY <1>1
  <2> HIDE DEF d
  <2>4. Len(md) \in Nat /\ DOMAIN md = 1 .. Len(md)
    BY <2>1, LenProperties
  <2> QED BY <2>1, <2>2, <2>3, <2>4, AppendProperties
<1> SUFFICES ASSUME NEW k \in 1 .. Len(md) + 1, md'[k].plain
             PROVE  \E pp \in Scans(NP) : Cut(k, pp)'
  BY <1>4 DEF MetaCut
<1>5. CASE k \in 1 .. Len(md)
  <2>1. PICK pp \in Scans(NP) : Cut(k, pp)
    BY <1>4, <1>5 DEF MetaCut
  <2>2. \A r \in Rank : SameWriter(k, r)
    <3> SUFFICES ASSUME NEW r \in Rank PROVE SameWriter(k, r)
      OBVIOUS
    <3>1. ~Writing(k, r)
      BY <1>2 DEF Writing
    <3>2. ~Writing(k, r)'
      <4>1. k # Len(md')
        BY <1>4, <1>5
      <4> QED BY <4>1 DEF Writing
    <3> QED BY <3>1, <3>2 DEF SameWriter
  <2>3. SameUnits(k)
    BY <1>2 DEF SameUnits, UnitAt
  <2>4. TypeOK /\ k \in DOMAIN md /\ md'[k] = md[k]
    BY <1>4, <1>5 DEF IInv
  <2>5. Cut(k, pp)'
    BY <1>2, <2>1, <2>2, <2>3, <2>4, CutFrame
  <2> QED BY <2>5
<1>6. CASE k = Len(md) + 1
  <2>1. \A r \in Rank : Writing(k, r)'
    BY <1>2, <1>4, <1>6 DEF Writing
  <2>2. ASSUME NEW r \in Rank PROVE Section(k, p, r)'
    <3> DEFINE t == TableSize(r)  n == Len(wreqs[r])
    <3>1. t \in Nat /\ n \in Nat
      BY PendingCount, Constants DEF IInv, TableSize
    <3>2. p[r] \in Nat /\ p[r + 1] = p[r] + (t + n)
      BY <1>1, <1>3, MetaScan
    <3>3. First(p, r) = p[r] + t /\ First(p, r)' = First(p, r)
      BY DEF First, TableSize
    <3>4. base'[r] = md'[k].doff + p[r] /\ Len(wreqs'[r]) = n
      BY <1>1, <1>2, <1>4, <1>6
    <3> HIDE DEF t, n
    <3>5. First(p, r) <= p[r + 1] /\ p[r + 1] = First(p, r) + n
      BY <3>1, <3>2, <3>3
    <3> QED BY <2>1, <3>3, <3>4, <3>5 DEF Section
  <2>3. Cut(k, p)'
    BY <1>1, <1>3, <1>4, <1>6, <2>1, <2>2, Constants DEF Cut, Table
  <2> QED BY <2>3
<1> QED BY <1>4, <1>5, <1>6

\* A process writes its section, from its first unit to its last, and of all
\* datasets created under plain views no other unit.
LEMMA WriteMetaUnits ==
  ASSUME IInv, Layout, NEW r \in Rank, WriteMeta(r), NEW k \in DOMAIN md, md[k].plain,
         NEW p \in Scans(NP), Cut(k, p)
  PROVE  /\ k # Len(md) => SameUnits(k)
         /\ k = Len(md) =>
              \A u \in 0 .. p[NP] - 1 :
                UnitAt(md[k].doff + u)' =
                  IF u \in p[r] .. p[r + 1] - 1
                  THEN SectionOf(r)[u - p[r]] ELSE UnitAt(md[k].doff + u)
<1>1. pc[r] = "mdwrite" /\ disk' = Written(r, base[r], SectionOf(r)) /\ md' = md
  BY DEF WriteMeta
<1>2. MetaWriter(r) /\ base[r] \in Nat /\ DOMAIN SectionOf(r) \subseteq Nat
  BY <1>1, SectionUnits DEF Layout, Writers, IInv, TypeOK
<1>3. /\ md[k].doff \in Nat /\ End(md[k]) \in Nat /\ NewMeta.doff \in Nat
      /\ Len(md) \in DOMAIN md /\ NewMeta = md[Len(md)]
      /\ DOMAIN md = 1 .. Len(md) /\ Len(md) \in Nat
  <2>1. Len(md) \in DOMAIN md
    BY <1>2 DEF MetaWriter
  <2> QED BY <2>1, DatasetTypes DEF IInv, NewMeta
<1>4. ASSUME k # Len(md) PROVE SameUnits(k)
  <2> SUFFICES ASSUME NEW x \in Nat, x < End(md[k]) PROVE UnitAt(x)' = UnitAt(x)
    BY DEF SameUnits
  <2>1. End(md[k]) <= NewMeta.doff
    BY <1>3, <1>4 DEF Layout, FileOrder, Ordered
  <2>2. x < base[r]
    BY <1>2, <1>3, <2>1 DEF MetaWriter
  <2> QED BY <1>1, <1>2, <2>2, WrittenUnits
<1>5. ASSUME k = Len(md), NEW u \in 0 .. p[NP] - 1
      PROVE  UnitAt(md[k].doff + u)' =
               IF u \in p[r] .. p[r + 1] - 1
               THEN SectionOf(r)[u - p[r]] ELSE UnitAt(md[k].doff + u)
  <2>1. view[r] = Plain
    BY <1>2, <1>3, <1>5 DEF MetaWriter
  <2>2. /\ base[r] = md[k].doff + p[r] /\ p[r + 1] = First(p, r) + Len(wreqs[r])
        /\ p[r] \in Nat /\ p[r + 1] \in Nat /\ p[NP] \in Nat
    <3>1. Writing(k, r)
      BY <1>1, <1>5 DEF Writing
    <3> QED BY <3>1, SectionsOrdered DEF Cut, Section
  <2>0. md[k].doff + u \in Nat
    BY <1>3, <2>2
  <2> PICK x \in Nat : x = md[k].doff + u
    BY <2>0
  <2>3. x - base[r] = u - p[r] /\ u - p[r] \in Int
    BY <1>3, <2>2
  <2>4. DOMAIN SectionOf(r) = 0 .. TableSize(r) + Len(wreqs[r]) - 1
        /\ TableSize(r) \in Nat /\ Len(wreqs[r]) \in Nat
    BY <1>1, SectionUnits
  <2>5. x - base[r] \in DOMAIN SectionOf(r) <=> u \in p[r] .. p[r + 1] - 1
    <3>1. p[r + 1] = p[r] + TableSize(r) + Len(wreqs[r])
      BY <2>2 DEF First
    <3> DEFINE t == TableSize(r)  n == Len(wreqs[r])
    <3>2. t \in Nat /\ n \in Nat /\ p[r + 1] = p[r] + t + n /\ DOMAIN SectionOf(r) = 0 .. t + n - 1
      BY <2>4, <3>1
    <3> HIDE DEF t, n
    <3>3. x - base[r] \in DOMAIN SectionOf(r) <=> u - p[r] \in 0 .. t + n - 1
      BY <2>3, <3>2
    <3>4. u - p[r] \in 0 .. t + n - 1 <=> u \in p[r] .. p[r + 1] - 1
      <4>1. PICK a \in Nat, b \in Nat, v \in Nat : a = p[r] /\ b = p[r + 1] /\ v = u
        BY <2>2
      <4>2. b = a + t + n
        BY <3>2, <4>1
      <4>3. v - a \in 0 .. t + n - 1 <=> v \in a .. b - 1
        BY <3>2, <4>2
      <4> QED BY <4>1, <4>3
    <3> QED BY <3>3, <3>4
  <2>6. UnitAt(x)' = IF x - base[r] \in DOMAIN SectionOf(r) THEN SectionOf(r)[x - base[r]]
                                                             ELSE UnitAt(x)
    BY <1>1, <1>2, <2>1, <2>3, WrittenUnits
  <2>7. UnitAt(x)' = IF u \in p[r] .. p[r + 1] - 1 THEN SectionOf(r)[u - p[r]] ELSE UnitAt(x)
    BY <2>3, <2>5, <2>6
  <2>8. UnitAt(md[k].doff + u)' = UnitAt(x)'
    BY <1>1 DEF UnitAt
  <2> QED BY <2>7, <2>8
<1> QED BY <1>4, <1>5

\* A section just written holds the entries of its process; the others keep
\* what they have.
LEMMA WriteMetaSection ==
  ASSUME IInv, Layout, QueueOwn, QueueSettled, NEW r \in Rank, WriteMeta(r),
         NEW k \in DOMAIN md, md[k].plain, k = Len(md), NEW p \in Scans(NP), Cut(k, p)
  PROVE  Cut(k, p)'
<1>1. /\ pc[r] = "mdwrite" /\ pc'[r] = "mdbarrier"
      /\ \A q \in Rank : q # r => /\ pc'[q] = pc[q] /\ base'[q] = base[q]
                                  /\ wreqs'[q] = wreqs[q]
      /\ mdoffs' = IF r = 0 THEN <<>> ELSE mdoffs
      /\ placed' = placed /\ md' = md
  BY DEF WriteMeta, AfterMeta, IInv, TypeOK
<1>2. \A u \in 0 .. p[NP] - 1 :
        UnitAt(md[k].doff + u)' =
          IF u \in p[r] .. p[r + 1] - 1
          THEN SectionOf(r)[u - p[r]] ELSE UnitAt(md[k].doff + u)
  BY WriteMetaUnits
<1>3. Writing(k, r) /\ p[r + 1] = First(p, r) + Len(wreqs[r])
  BY <1>1 DEF Writing, Cut, Section
<1>4. \A q \in Rank : Writing(k, q)' <=> q # r /\ Writing(k, q)
  BY <1>1 DEF Writing
<1>5. /\ p[r] \in Nat /\ p[r + 1] \in Nat /\ First(p, r) \in Nat /\ p[r] <= First(p, r)
      /\ First(p, r) <= p[r + 1] /\ p[r + 1] <= p[NP] /\ p[NP] \in Nat
      /\ First(p, r) = p[r] + TableSize(r) /\ r \in Nat
  BY SectionsOrdered, Constants DEF First
<1>6. /\ TableSize(r) \in Nat /\ Len(wreqs[r]) \in Nat
      /\ DOMAIN SectionOf(r) = 0 .. TableSize(r) + Len(wreqs[r]) - 1
      /\ \A i \in DOMAIN SectionOf(r) :
           /\ i < TableSize(r) =>
                r = 0 /\ mdoffs[i + 1] \in Nat /\ SectionOf(r)[i] = [word |-> mdoffs[i + 1]]
           /\ ~ (i < TableSize(r)) =>
                /\ i - TableSize(r) + 1 \in DOMAIN wreqs[r]
                /\ SectionOf(r)[i] = wreqs[r][i - TableSize(r) + 1]
  BY <1>1, SectionUnits
<1>7. ASSUME NEW u \in First(p, r) .. p[r + 1] - 1
      PROVE  OwnEntry(UnitAt(md[k].doff + u), r)'
  <2> DEFINE i == u - p[r]  j == i - TableSize(r) + 1
  <2>1. u \in 0 .. p[NP] - 1 /\ u \in p[r] .. p[r + 1] - 1
    BY <1>5
  <2>2. i \in DOMAIN SectionOf(r) /\ ~ (i < TableSize(r))
    <3> DEFINE t == TableSize(r)  n == Len(wreqs[r])
    <3>1. /\ t \in Nat /\ n \in Nat /\ p[r + 1] = p[r] + t + n /\ First(p, r) = p[r] + t
          /\ DOMAIN SectionOf(r) = 0 .. t + n - 1
      BY <1>3, <1>5, <1>6
    <3>4. u \in First(p, r) .. p[r + 1] - 1 /\ p[r] \in Nat
      BY <1>5
    <3> HIDE DEF t, n, i
    <3>2. u \in p[r] + t .. p[r] + t + n - 1
      BY <3>1, <3>4
    <3> USE DEF i
    <3>3. i \in 0 .. t + n - 1 /\ ~ (i < t)
      BY <3>1, <3>2, <3>4
    <3> QED BY <3>1, <3>3 DEF t
  <2> HIDE DEF i
  <2>3. j \in DOMAIN wreqs[r] /\ SectionOf(r)[i] = wreqs[r][j]
    BY <1>6, <2>2
  <2>4. UnitAt(md[k].doff + u)' = SectionOf(r)[i]
    BY <1>2, <2>1 DEF i
  <2> HIDE DEF j
  <2>5. wreqs[r][j] \in Entry
    BY <2>3, PendingCount DEF IInv
  <2>6. wreqs[r][j].w.rank = r /\ Settled(wreqs[r][j])
    BY <1>1, <2>3 DEF QueueOwn, QueueSettled
  <2> QED BY <1>1, <2>3, <2>4, <2>5, <2>6 DEF OwnEntry, Settled
<1>8. ASSUME NEW q \in Rank, q # r, NEW u \in First(p, q) .. p[q + 1] - 1
      PROVE  UnitAt(md[k].doff + u)' = UnitAt(md[k].doff + u)
  <2>1. /\ First(p, q) \in Nat /\ p[q + 1] \in Nat /\ p[q + 1] <= p[NP]
        /\ p[q] \in Nat /\ p[q] <= First(p, q) /\ q \in Nat
        /\ r < q => p[r + 1] <= p[q]
        /\ q < r => p[q + 1] <= p[r]
    BY SectionsOrdered, Constants
  <2>2. u \in 0 .. p[NP] - 1
    BY <1>5, <2>1
  <2>3. u \notin p[r] .. p[r + 1] - 1
    <3>1. CASE r < q
      BY <1>5, <2>1, <3>1
    <3>2. CASE q < r
      BY <1>5, <2>1, <3>2
    <3> QED BY <1>5, <1>8, <2>1, <3>1, <3>2
  <2> QED BY <1>2, <2>2, <2>3
<1>9. ASSUME NEW q \in Rank PROVE Section(k, p, q)'
  <2>1. Section(k, p, q) /\ First(p, q)' = First(p, q) /\ First(p, q) <= p[q + 1]
    BY DEF Cut, Section, First, TableSize
  <2>2. CASE q = r
    BY <1>4, <1>7, <2>1, <2>2 DEF Section
  <2>3. CASE q # r
    <3>1. ASSUME ~Writing(k, q), NEW u \in First(p, q) .. p[q + 1] - 1
          PROVE  OwnEntry(UnitAt(md[k].doff + u), q)'
      <4>1. OwnEntry(UnitAt(md[k].doff + u), q)
        BY <2>1, <3>1 DEF Section
      <4>2. UnitAt(md[k].doff + u)' = UnitAt(md[k].doff + u)
        BY <1>8, <2>3, <3>1
      <4> QED BY <1>1, <4>1, <4>2 DEF OwnEntry, Settled
    <3>2. Writing(k, q) =>
            base'[q] = md'[k].doff + p[q] /\ p[q + 1] = First(p, q) + Len(wreqs'[q])
      BY <1>1, <2>1, <2>3 DEF Section
    <3> QED BY <1>1, <1>4, <2>1, <2>3, <3>1, <3>2 DEF Section
  <2> QED BY <2>2, <2>3
<1>10. ASSUME ~Writing(k, 0)', NEW u \in 0 .. NP PROVE TableWord(k, p, u)'
  <2>1. /\ p[0] = 0 /\ First(p, 0) = NP + 1 /\ First(p, 0) <= p[0 + 1] /\ p[0 + 1] <= p[NP]
        /\ p[0 + 1] \in Nat /\ NP \in Nat /\ 0 \in Rank
        /\ 0 < r => p[0 + 1] <= p[r]
    BY SectionsOrdered, Constants
  <2>2. u \in 0 .. p[NP] - 1 /\ u + 1 \in 1 .. NP + 1
    BY <1>5, <2>1
  <2>3. CASE r = 0
    <3>1. u \in p[r] .. p[r + 1] - 1 /\ u - p[r] = u
      BY <1>5, <2>1, <2>3
    <3>2. UnitAt(md[k].doff + u)' = SectionOf(r)[u]
      BY <1>2, <2>2, <3>1
    <3>3. TableSize(r) = NP + 1
      BY <2>3 DEF TableSize
    <3>4. u \in DOMAIN SectionOf(r) /\ u < TableSize(r)
      BY <1>6, <2>1, <3>3
    <3>5. SectionOf(r)[u] = [word |-> mdoffs[u + 1]]
      BY <1>6, <3>4
    <3>6. mdoffs = Table(p)
      BY <1>3, <2>3 DEF Cut
    <3> QED BY <1>1, <3>2, <3>5, <3>6 DEF TableWord, Table
  <2>4. CASE r # 0
    <3>1. ~Writing(k, 0)
      BY <1>4, <1>10, <2>1, <2>4
    <3>2. TableWord(k, p, u)
      BY <3>1 DEF Cut
    <3>3. u \notin p[r] .. p[r + 1] - 1
      BY <1>5, <2>1, <2>4
    <3>4. UnitAt(md[k].doff + u)' = UnitAt(md[k].doff + u)
      BY <1>2, <2>2, <3>3
    <3> QED BY <1>1, <3>2, <3>4 DEF TableWord, Table
  <2> QED BY <2>3, <2>4
<1>11. ASSUME Writing(k, 0)' PROVE mdoffs' = Table(p)'
  <2>1. r # 0 /\ Writing(k, 0)
    BY <1>4, <1>11, Constants
  <2> QED BY <1>1, <2>1 DEF Cut, Table
<1>12. p[0] = 0 /\ p[NP] = md'[k].size
  BY <1>1 DEF Cut
<1> QED BY <1>9, <1>10, <1>11, <1>12 DEF Cut

\* Writing a section keeps the sections of every dataset.
LEMMA WriteMetaCut ==
  ASSUME IInv, Layout, MetaCut, QueueOwn, QueueSettled, NEW r \in Rank, WriteMeta(r)
  PROVE  MetaCut'
<1>1. md' = md /\ placed' = placed
  BY DEF WriteMeta
<1> SUFFICES ASSUME NEW k \in DOMAIN md, md[k].plain PROVE \E p \in Scans(NP) : Cut(k, p)'
  BY <1>1 DEF MetaCut
<1>2. PICK p \in Scans(NP) : Cut(k, p)
  BY DEF MetaCut
<1>3. CASE k = Len(md)
  <2>1. Cut(k, p)'
    BY <1>2, <1>3, WriteMetaSection
  <2> QED BY <2>1
<1>4. CASE k # Len(md)
  <2>1. SameUnits(k)
    BY <1>2, <1>4, WriteMetaUnits
  <2>2. \A q \in Rank : SameWriter(k, q)
    BY <1>1, <1>4 DEF SameWriter, Writing
  <2>3. TypeOK /\ md'[k] = md[k] /\ placed \subseteq placed'
    BY <1>1 DEF IInv
  <2>4. Cut(k, p)'
    BY <1>2, <2>1, <2>2, <2>3, CutFrame
  <2> QED BY <2>4
<1> QED BY <1>3, <1>4

\* Writing a block of data hits no metadata dataset.
LEMMA WriteLogCut ==
  ASSUME IInv, Layout, MetaCut, NEW r \in Rank, WriteLog(r) PROVE MetaCut'
<1>1. /\ pc[r] = "ldwrite" /\ disk' = Written(r, base[r], mtype[r]) /\ md' = md
      /\ pc' = [pc EXCEPT ![r] = AfterFlush(r)]
  BY DEF WriteLog
<1>2. LogWriter(r) /\ base[r] \in Nat /\ DOMAIN mtype[r] \subseteq Nat
  <2>1. LogWriter(r) /\ base[r] \in Nat /\ mtype[r] \in [0 .. fsize[r] - 1 -> Write]
        /\ fsize[r] \in Nat
    BY <1>1 DEF Layout, Writers, IInv, TypeOK
  <2>2. DOMAIN mtype[r] = 0 .. fsize[r] - 1
    BY <2>1
  <2> QED BY <2>1, <2>2
<1>3. ASSUME NEW k \in DOMAIN md PROVE SameUnits(k)
  <2> SUFFICES ASSUME NEW x \in Nat, x < End(md[k]) PROVE UnitAt(x)' = UnitAt(x)
    BY DEF SameUnits
  <2>1. End(md[k]) <= NewLog.doff /\ NewLog.doff <= base[r] /\ Len(ld) \in DOMAIN ld
    BY <1>2 DEF LogWriter
  <2>2. End(md[k]) \in Nat /\ NewLog.doff \in Nat
    BY <2>1, DatasetTypes DEF IInv, NewLog
  <2>3. x < base[r]
    BY <1>2, <2>1, <2>2
  <2> QED BY <1>1, <1>2, <2>3, WrittenUnits
<1>4. \A q \in Rank : pc[q] # "mdwrite" /\ pc'[q] # "mdwrite"
  <2>1. \A q \in Rank : pc[q] # "mdwrite"
    BY <1>1 DEF Layout, MetaPhase
  <2> QED BY <1>1, <2>1 DEF AfterFlush, IInv, TypeOK
<1>5. ASSUME NEW k \in DOMAIN md, NEW q \in Rank PROVE SameWriter(k, q)
  BY <1>4 DEF SameWriter, Writing
<1>6. TypeOK /\ placed \subseteq placed'
  BY DEF WriteLog, IInv
<1> QED BY <1>1, <1>3, <1>5, <1>6, MetaCutFrame

\* Every step keeps the sections.
LEMMA MetaCutKept ==
  ASSUME IInv, Layout, MetaCut, QueueOwn, QueueSettled, [Next]_vars PROVE MetaCut'
<1>0. TypeOK /\ placed \subseteq placed'
  BY PlacedGrows DEF IInv
<1> USE DEF prog, queue, flags, counters, scratch, store
<1>1. ASSUME disk' = disk PROVE \A k \in DOMAIN md : SameUnits(k)
  BY <1>1 DEF SameUnits, UnitAt
<1>2. ASSUME NEW r \in Rank, Step(r) PROVE MetaCut'
  <2>1. CASE WriteMeta(r)
    BY <2>1, WriteMetaCut
  <2>2. CASE WriteLog(r)
    BY <2>2, WriteLogCut
  <2>3. CASE pc[r] \notin {"mdwrite", "ldwrite"}
    <3>1. pc'[r] # "mdwrite"
      BY <1>0, <1>2, <2>3, StepMoves
    <3>2. \A q \in Rank : q # r => pc'[q] = pc[q] /\ base'[q] = base[q] /\ wreqs'[q] = wreqs[q]
      BY <1>0, <1>2, StepLocal
    <3>3. md' = md /\ mdoffs' = mdoffs /\ disk' = disk
      <4>1. ~WriteMeta(r) /\ ~WriteLog(r)
        BY <2>3 DEF WriteMeta, WriteLog
      <4> QED BY <1>2, <4>1 DEF Step, H5Dwrite, H5Fflush, H5Dread, H5Fclose,
                                LoadIndex, Search, SearchFails
    <3>4. ASSUME NEW k \in DOMAIN md, NEW q \in Rank PROVE SameWriter(k, q)
      BY <2>3, <3>1, <3>2, <3>3 DEF SameWriter, Writing
    <3> QED BY <1>0, <1>1, <3>3, <3>4, MetaCutFrame
  <2> QED BY <1>0, <1>2, <2>1, <2>2, <2>3, StepMoves
<1>3. CASE Collective \/ Reopen
  <2>1. CASE CreateMeta
    BY <2>1, CreateMetaCut
  <2>2. CASE ~CreateMeta
    <3>1. \A r \in Rank : pc[r] # "mdwrite" /\ pc'[r] # "mdwrite"
      BY <1>3, <2>2, CollectiveMoves DEF Joint, AfterFlush, AfterBarrier
    <3>2. md' = md /\ disk' = disk
      BY <1>3, <2>2 DEF Collective, FlushNothing, CreateLog, MetaBarrier, ReadAll, CloseFile,
                        Reopen
    <3>3. ASSUME NEW k \in DOMAIN md, NEW q \in Rank PROVE SameWriter(k, q)
      BY <3>1 DEF SameWriter, Writing
    <3> QED BY <1>0, <1>1, <3>2, <3>3, MetaCutFrame
  <2> QED BY <2>1, <2>2
<1>4. CASE Finished \/ UNCHANGED vars
  <2>1. UNCHANGED <<md, disk, pc, base, wreqs, mdoffs>>
    BY <1>4 DEF Finished, vars
  <2>2. ASSUME NEW k \in DOMAIN md, NEW q \in Rank PROVE SameWriter(k, q)
    BY <2>1 DEF SameWriter, Writing
  <2> QED BY <1>0, <1>1, <2>1, <2>2, MetaCutFrame
<1> QED BY <1>2, <1>3, <1>4 DEF Next

\* A dataset created under plain views holds, once it is complete, its table
\* and settled entries behind it, and the table says how long it is.
LEMMA CompleteSections ==
  ASSUME IInv, MetaCut, NEW k \in DOMAIN md, md[k].plain, \A r \in Rank : pc[r] # "mdwrite"
  PROVE  /\ \A u \in 0 .. NP : UnitAt(md[k].doff + u) \in Word
         /\ UnitAt(md[k].doff) = [word |-> NP] /\ Sections(md[k]) = NP
         /\ \A u \in NP + 1 .. md[k].size - 1 :
              UnitAt(md[k].doff + u) \in Entry /\ Settled(UnitAt(md[k].doff + u))
         /\ \A e \in EntriesOf(md[k]) : e \in Entry /\ Settled(e)
         /\ WellFormed(md[k])
<1>1. PICK p \in Scans(NP) : Cut(k, p)
  BY DEF MetaCut
<1>2. \A r \in Rank : ~Writing(k, r)
  BY DEF Writing
<1>3. /\ p \in [0 .. NP -> Nat] /\ NP \in Nat /\ p[NP] = md[k].size
      /\ md[k].doff \in Nat /\ md[k].size \in Nat
  BY <1>1, DatasetTypes, Constants DEF Cut, IInv, Scans
<1>4. ASSUME NEW u \in 0 .. NP
      PROVE  /\ UnitAt(md[k].doff + u) = [word |-> Table(p)[u + 1]]
             /\ UnitAt(md[k].doff + u) \in Word
  <2>1. UnitAt(md[k].doff + u) = [word |-> Table(p)[u + 1]]
    BY <1>1, <1>2, Constants DEF Cut, TableWord
  <2>2. Table(p)[u + 1] \in Nat
    BY <1>3 DEF Table
  <2> QED BY <2>1, <2>2 DEF Word
<1>5. UnitAt(md[k].doff) = [word |-> NP] /\ Sections(md[k]) = NP
  <2>1. 0 \in 0 .. NP /\ md[k].doff + 0 = md[k].doff /\ Table(p)[0 + 1] = NP
    BY <1>3 DEF Table
  <2>2. UnitAt(md[k].doff) = [word |-> NP] /\ UnitAt(md[k].doff) \in Word
    BY <1>4, <2>1
  <2> QED BY <2>2 DEF Sections
<1>6. ASSUME NEW u \in NP + 1 .. md[k].size - 1
      PROVE  UnitAt(md[k].doff + u) \in Entry /\ Settled(UnitAt(md[k].doff + u))
  <2>1. PICK r \in Rank : u \in First(p, r) .. p[r + 1] - 1
    BY <1>1, <1>3, UnitOwner
  <2> QED BY <1>1, <1>2, <2>1 DEF Cut, Section, OwnEntry
<1>7. ASSUME NEW e \in EntriesOf(md[k]) PROVE e \in Entry /\ Settled(e)
  <2>1. PICK o \in md[k].doff + NP + 1 .. md[k].doff + md[k].size - 1 : e = UnitAt(o)
    BY <1>5 DEF EntriesOf
  <2>2. o - md[k].doff \in NP + 1 .. md[k].size - 1 /\ md[k].doff + (o - md[k].doff) = o
    BY <1>3, <2>1
  <2> QED BY <1>6, <2>1, <2>2
<1>8. WellFormed(md[k])
  <2>1. UnitAt(md[k].doff) \in Word
    BY <1>3, <1>5 DEF Word
  <2> QED BY <1>7, <2>1 DEF WellFormed
<1> QED BY <1>4, <1>5, <1>6, <1>7, <1>8

\* A dataset once created is not replaced.
LEMMA MetaGrows ==
  ASSUME IInv, [Next]_vars
  PROVE  md' = md \/ (CreateMeta /\ \A k \in DOMAIN md : k \in DOMAIN md' /\ md'[k] = md[k])
<1> USE DEF store
<1>1. ASSUME NEW r \in Rank, Step(r) PROVE md' = md
  BY <1>1 DEF Step, H5Dwrite, H5Fflush, H5Dread, H5Fclose, WriteLog, WriteMeta, LoadIndex,
              Search, SearchFails
<1>2. ASSUME CreateMeta PROVE \A k \in DOMAIN md : k \in DOMAIN md' /\ md'[k] = md[k]
  <2>1. md \in Seq(Dataset) /\ md' \in Seq(Dataset)
    BY <1>2, CreateMetaIInv DEF IInv, TypeOK
  <2>2. PICK d : md' = Append(md, d)
    BY <1>2 DEF CreateMeta
  <2>3. Len(md) \in Nat /\ DOMAIN md = 1 .. Len(md)
    BY <2>1, LenProperties
  <2>4. Len(md') = Len(md) + 1 /\ DOMAIN md' = 1 .. Len(md')
    BY <2>1, <2>2, LenProperties
  <2> QED BY <2>1, <2>2, <2>3, <2>4
<1>3. CASE Collective
  BY <1>2, <1>3 DEF Collective, FlushNothing, CreateLog, MetaBarrier, ReadAll, CloseFile
<1>4. CASE Reopen \/ Finished \/ UNCHANGED vars
  BY <1>4 DEF Reopen, Finished, vars
<1> QED BY <1>1, <1>3, <1>4 DEF Next

\* An index is built from complete metadata datasets only.
LEMMA IndexSoundKept ==
  ASSUME IInv, Layout, MetaCut, IndexSound, [Next]_vars PROVE IndexSound'
<1>0. TypeOK /\ placed \subseteq placed'
  BY PlacedGrows DEF IInv
<1> SUFFICES ASSUME \A k \in DOMAIN md' : md'[k].plain
             PROVE  \A q \in Rank : \A e \in idx'[q] :
                      e \in Entry /\ (e \in placed' \/ e.foff = Unset)
  BY DEF IndexSound
<1>5. \A k \in DOMAIN md : md[k].plain
  BY <1>0, MetaGrows
<1>6. \A q \in Rank : \A e \in idx[q] : e \in Entry /\ (e \in placed \/ e.foff = Unset)
  BY <1>5 DEF IndexSound
<1>1. ASSUME NEW r \in Rank, LoadIndex(r), NEW q \in Rank, NEW e \in idx'[q]
      PROVE  e \in Entry /\ (e \in placed' \/ e.foff = Unset)
  <2>1. /\ pc[r] = "load"
        /\ idx' = [idx EXCEPT ![r] = UNION {EntriesOf(md[k]) : k \in 1 .. nmdset[r]}]
    BY <1>1 DEF LoadIndex
  <2>2. \A x \in Rank : pc[x] # "mdwrite"
    BY <2>1 DEF Layout, MetaPhase
  <2>3. \A k \in 1 .. nmdset[r] : k \in DOMAIN md
    BY <1>0, DatasetTypes DEF IInv, Counted
  <2>4. \A y \in UNION {EntriesOf(md[k]) : k \in 1 .. nmdset[r]} : y \in Entry /\ Settled(y)
    BY <1>5, <2>2, <2>3, CompleteSections
  <2>6. q # r => idx'[q] = idx[q]
    BY <2>1 DEF IInv, TypeOK
  <2>7. idx'[r] = UNION {EntriesOf(md[k]) : k \in 1 .. nmdset[r]}
    BY <2>1 DEF IInv, TypeOK
  <2>8. CASE q = r
    BY <1>0, <1>1, <2>4, <2>7, <2>8 DEF Settled
  <2>9. CASE q # r
    BY <1>0, <1>1, <1>6, <2>6, <2>9
  <2> QED BY <2>8, <2>9
<1>2. CASE idx' = idx
  BY <1>0, <1>2, <1>6
<1>3. CASE Reopen
  BY <1>3 DEF Reopen
<1>4. [Next]_vars => idx' = idx \/ Reopen \/ \E r \in Rank : LoadIndex(r)
  <2>1. ASSUME NEW r \in Rank, Step(r) PROVE idx' = idx \/ LoadIndex(r)
    BY <2>1 DEF Step, H5Dwrite, H5Fflush, H5Dread, H5Fclose, WriteLog, WriteMeta, Search,
                SearchFails
  <2>2. Collective => idx' = idx
    BY DEF Collective, FlushNothing, CreateLog, CreateMeta, MetaBarrier, ReadAll, CloseFile
  <2>3. Finished \/ UNCHANGED vars => idx' = idx
    BY DEF Finished, vars
  <2> QED BY <2>1, <2>2, <2>3 DEF Next
<1> QED BY <1>1, <1>2, <1>3, <1>4

\* A file just created has no metadata.
LEMMA InitIndexInv == Init => IndexInv
BY Constants DEF Init, IndexInv, QueueOwn, QueueSettled, MetaCut, IndexSound

\* Every step keeps it.
LEMMA NextIndexInv ==
  ASSUME IInv, Layout, DataInv, IndexInv, [Next]_vars PROVE IndexInv'
<1>1. Prepared
  BY DEF DataInv
<1>2. QueueOwn'
  BY QueueOwnKept DEF IndexInv
<1>3. QueueSettled'
  BY <1>1, QueueSettledKept DEF IndexInv
<1>4. MetaCut'
  BY MetaCutKept DEF IndexInv
<1>5. IndexSound'
  BY IndexSoundKept DEF IndexInv
<1> QED BY <1>2, <1>3, <1>4, <1>5 DEF IndexInv

\* The sections of a metadata dataset are what its section table says.
LEMMA TableSound == IInv /\ IndexInv => SectionTable
<1> SUFFICES ASSUME IInv, IndexInv, \A r \in Rank : pc[r] # "mdwrite",
                    NEW k \in DOMAIN md, md[k].plain
             PROVE  LET first == md[k].doff
                        end(i) == IF i = 0 THEN NP + 1 ELSE UnitAt(first + i).word
                    IN  /\ \A i \in 0 .. NP : UnitAt(first + i) \in Word
                        /\ UnitAt(first).word = NP
                        /\ end(NP) = md[k].size
                        /\ \A i \in 1 .. NP :
                             /\ end(i - 1) <= end(i)
                             /\ \A o \in first + end(i - 1) .. first + end(i) - 1 :
                                  UnitAt(o) \in Entry /\ UnitAt(o).w.rank = i - 1
  BY DEF SectionTable
<1> DEFINE first == md[k].doff
           end(i) == IF i = 0 THEN NP + 1 ELSE UnitAt(first + i).word
<1>1. PICK p \in Scans(NP) : Cut(k, p)
  BY DEF IndexInv, MetaCut
<1>2. (\A u \in 0 .. NP : UnitAt(first + u) \in Word) /\ UnitAt(first) = [word |-> NP]
  BY CompleteSections DEF IndexInv
<1>3. /\ NP \in Nat /\ NP >= 1 /\ p[0] = 0 /\ first \in Nat /\ p \in [0 .. NP -> Nat]
  BY <1>1, Constants, DatasetTypes DEF Cut, Scans, IInv
<1>4. ASSUME NEW i \in 1 .. NP PROVE end(i) = p[i]
  <2>1. TableWord(k, p, i)
    BY <1>1, Constants DEF Cut, Writing
  <2>2. Table(p)[i + 1] = p[i]
    BY <1>3 DEF Table
  <2> QED BY <2>1, <2>2 DEF TableWord
<1>5. UnitAt(first).word = NP
  BY <1>2
<1>6. end(NP) = md[k].size
  BY <1>1, <1>3, <1>4 DEF Cut
<1>7. ASSUME NEW i \in 1 .. NP
      PROVE  /\ end(i - 1) <= end(i)
             /\ \A o \in first + end(i - 1) .. first + end(i) - 1 :
                  UnitAt(o) \in Entry /\ UnitAt(o).w.rank = i - 1
  <2> DEFINE r == i - 1
  <2>1. r \in Rank /\ r + 1 = i
    BY <1>3 DEF Rank
  <2>2. end(i - 1) = First(p, r)
    <3>1. CASE r = 0
      BY <1>3, <3>1 DEF First, TableSize
    <3>2. CASE r # 0
      <4>1. end(r) = p[r]
        BY <1>3, <1>4, <3>2
      <4>2. First(p, r) = p[r] + 0 /\ p[r] \in Nat
        BY <1>1, <2>1, <3>2, SectionsOrdered DEF First, TableSize
      <4> QED BY <4>1, <4>2
    <3> QED BY <3>1, <3>2
  <2>3. end(i) = p[r + 1]
    BY <1>4, <2>1
  <2>4. Section(k, p, r) /\ ~Writing(k, r)
    BY <1>1, <2>1 DEF Cut, Writing
  <2>5. r = i - 1
    OBVIOUS
  <2> HIDE DEF end, r
  <2>6. First(p, r) <= p[r + 1] /\ First(p, r) \in Nat /\ p[r + 1] \in Nat
    BY <1>1, <2>1, SectionsOrdered
  <2>7. ASSUME NEW o \in first + First(p, r) .. first + p[r + 1] - 1
        PROVE  UnitAt(o) \in Entry /\ UnitAt(o).w.rank = r
    <3>1. o - first \in First(p, r) .. p[r + 1] - 1 /\ first + (o - first) = o
      BY <1>3, <2>6
    <3>2. OwnEntry(UnitAt(first + (o - first)), r)
      BY <2>4, <3>1 DEF Section
    <3> QED BY <3>1, <3>2 DEF OwnEntry
  <2> QED BY <2>2, <2>3, <2>5, <2>6, <2>7
<1> QED BY <1>2, <1>5, <1>6, <1>7

-----------------------------------------------------------------------------
(* Theorems *)

\* The invariant about queues, sections and indexes holds in every behaviour.
THEOREM IndexInvariantHolds == Spec => [](IInv /\ Layout /\ DataInv /\ IndexInv)
<1>1. Init => DataInv
  BY DEF Init, DataInv, Prepared, BlocksApart, Intact
<1>2. IInv /\ Layout /\ DataInv /\ IndexInv /\ [Next]_vars
        => (IInv /\ Layout /\ DataInv /\ IndexInv)'
  BY NextIInv, NextLayout, NextData, NextIndexInv
<1> QED BY <1>1, <1>2, InitIInv, InitLayout, InitIndexInv, PTL DEF Spec

\* For any number of processes and any program: once every process has written
\* its section, the section table in front of a metadata dataset that was
\* created under plain views ends with the dataset, never goes back, and each
\* of its sections holds entries of one process; and so it stays, whatever is
\* later written through views that reads have left.
THEOREM SectionsOfOwners == Spec => []SectionTable
BY IndexInvariantHolds, TableSound, PTL

\* For any number of processes and any program: as long as all metadata datasets
\* were created under plain views, no index ever holds a unit that was not
\* written, one that is not an entry, or the process-relative offset of a
\* request whose data flush was still under way.
THEOREM IndexesSound == Spec => []IndexSound
<1>1. IndexInv => IndexSound
  BY DEF IndexInv
<1> QED BY <1>1, IndexInvariantHolds, PTL

-----------------------------------------------------------------------------
(* What the processes agree on *)

\* A process behind the loading of the index that has not returned from its
\* read; one that failed in loading it may never have had an index.
Searching == {"search", "readall", "failed"}

\* Outside the two collective writes metadirty is the same everywhere.  Behind
\* the first it is set, behind the second it is reset.
DirtyAgree ==
  /\ \A r, q \in Rank :
       pc[r] \notin {"ldwrite", "mdwrite"} /\ pc[q] \notin {"ldwrite", "mdwrite"} =>
         metadirty[r] = metadirty[q]
  /\ \A r, q \in Rank : pc[r] # "ldwrite" /\ pc[q] = "ldwrite" => metadirty[r]
  /\ \A r \in Rank : pc[r] = "mdbarrier" => ~metadirty[r]

\* Outside a read idxvalid is the same everywhere, and in its search it is set.
ValidAgree ==
  /\ \A r, q \in Rank :
       pc[r] \notin Searching \cup {"mdwrite"} /\ pc[q] \notin Searching \cup {"mdwrite"} =>
         idxvalid[r] = idxvalid[q]
  /\ \A r \in Rank : pc[r] \in {"search", "readall"} => idxvalid[r]
  /\ \A r \in Rank : pc[r] = "mdbarrier" => ~idxvalid[r]

\* When a process is past the metadata flush of its read, no process that
\* makes this read later will begin one.
NoMoreGather ==
  \A r, q \in Rank :
    pc[r] \in Searching \cup {"load"} /\ pc[q] \notin Searching =>
      idxvalid[q] \/ (~metadirty[q] /\ pc[q] # "ldwrite")

FlagsInv == DirtyAgree /\ ValidAgree /\ NoMoreGather

-----------------------------------------------------------------------------
(* Flags *)

\* How a step changes the flags of its process, and which way its flags send it.
LEMMA FlagSteps ==
  ASSUME TypeOK, NEW r \in Rank, Step(r)
  PROVE  \/ /\ metadirty' = metadirty /\ idxvalid' = idxvalid
            /\ pc[r] = "app"
            /\ pc'[r] \in {"app", "sync", "gather", "load", "search", "fclose"}
            /\ pc'[r] = "search" => idxvalid[r]
            /\ pc'[r] = "load" => ~idxvalid[r] /\ ~metadirty[r]
         \/ /\ pc[r] = "ldwrite" /\ pc'[r] \in {"app", "gather"}
            /\ idxvalid' = idxvalid /\ metadirty'[r] = TRUE
         \/ /\ pc[r] = "mdwrite" /\ pc'[r] = "mdbarrier"
            /\ idxvalid'[r] = FALSE /\ metadirty'[r] = FALSE
         \/ /\ pc[r] = "load" /\ pc'[r] = "search"
            /\ metadirty' = metadirty /\ idxvalid'[r] = TRUE
         \/ /\ pc[r] \in {"load", "search"} /\ pc'[r] = "failed"
            /\ metadirty' = metadirty /\ idxvalid' = idxvalid
         \/ /\ pc[r] = "search" /\ pc'[r] = "readall"
            /\ metadirty' = metadirty /\ idxvalid' = idxvalid
<1> USE DEF TypeOK, flags
<1>1. CASE \E c \in Cells, s \in Sizes : H5Dwrite(r, c, s)
  BY <1>1 DEF H5Dwrite
<1>2. CASE H5Fflush(r)
  BY <1>2 DEF H5Fflush, Call, StartFlush
<1>3. CASE H5Dread(r)
  BY <1>3 DEF H5Dread, Call
<1>4. CASE H5Fclose(r)
  BY <1>4 DEF H5Fclose, Call, StartFlush
<1>5. CASE WriteLog(r)
  BY <1>5 DEF WriteLog, AfterFlush, DirtyAfterFlush
<1>6. CASE WriteMeta(r)
  BY <1>6 DEF WriteMeta, AfterMeta
<1>7. CASE LoadIndex(r)
  BY <1>7 DEF LoadIndex
<1>8. CASE \E c \in Cells : Search(r, c) \/ SearchFails(r, c)
  BY <1>8 DEF Search, SearchFails
<1> QED BY <1>1, <1>2, <1>3, <1>4, <1>5, <1>6, <1>7, <1>8 DEF Step

\* A file just created has no flag set.
LEMMA InitFlagsInv == Init => FlagsInv
BY DEF Init, FlagsInv, DirtyAgree, ValidAgree, NoMoreGather, Searching

\* A step of one process keeps the flags in agreement.
LEMMA StepFlagsInv ==
  ASSUME TypeOK, MetaPhase, FlagsInv, NEW r \in Rank, Step(r) PROVE FlagsInv'
<1>1. \A q \in Rank : q # r => /\ pc'[q] = pc[q] /\ metadirty'[q] = metadirty[q]
                               /\ idxvalid'[q] = idxvalid[q]
  BY StepLocal
<1>2. CASE /\ metadirty' = metadirty /\ idxvalid' = idxvalid
           /\ pc[r] = "app"
           /\ pc'[r] \in {"app", "sync", "gather", "load", "search", "fclose"}
           /\ pc'[r] = "search" => idxvalid[r]
           /\ pc'[r] = "load" => ~idxvalid[r] /\ ~metadirty[r]
  <2>1. DirtyAgree'
    BY <1>1, <1>2 DEF FlagsInv, DirtyAgree
  <2>2. ValidAgree'
    BY <1>1, <1>2 DEF FlagsInv, ValidAgree, Searching
  <2>3. \A q \in Rank : pc[q] \notin {"mdwrite", "mdbarrier"}
    BY <1>2 DEF MetaPhase
  <2>4. NoMoreGather'
    BY <1>1, <1>2, <2>3 DEF FlagsInv, NoMoreGather, DirtyAgree, ValidAgree, Searching
  <2> QED BY <2>1, <2>2, <2>4 DEF FlagsInv
<1>3. CASE /\ pc[r] = "ldwrite" /\ pc'[r] \in {"app", "gather"}
           /\ idxvalid' = idxvalid /\ metadirty'[r] = TRUE
  <2>1. \A q \in Rank : pc[q] \notin {"mdwrite", "mdbarrier"}
    BY <1>3 DEF MetaPhase
  <2>3. DirtyAgree'
    <3>1. \A q \in Rank : pc[q] # "ldwrite" => metadirty[q]
      BY <1>3 DEF FlagsInv, DirtyAgree
    <3> QED BY <1>1, <1>3, <2>1, <3>1 DEF FlagsInv, DirtyAgree
  <2>4. ValidAgree'
    BY <1>1, <1>3 DEF FlagsInv, ValidAgree, Searching
  <2>5. NoMoreGather'
    BY <1>1, <1>3 DEF FlagsInv, NoMoreGather, Searching
  <2> QED BY <2>3, <2>4, <2>5 DEF FlagsInv
<1>4. CASE /\ pc[r] = "mdwrite" /\ pc'[r] = "mdbarrier"
           /\ idxvalid'[r] = FALSE /\ metadirty'[r] = FALSE
  <2>1. \A q \in Rank : pc[q] \in {"mdwrite", "mdbarrier"}
    BY <1>4 DEF MetaPhase
  <2>2. DirtyAgree'
    <3>1. \A q \in Rank : pc'[q] # "mdwrite" => metadirty'[q] = FALSE
      <4>1. \A q \in Rank : pc[q] = "mdbarrier" => metadirty[q] = FALSE
        BY DEF FlagsInv, DirtyAgree, TypeOK
      <4> QED BY <1>1, <1>4, <2>1, <4>1
    <3> QED BY <1>1, <1>4, <2>1, <3>1 DEF DirtyAgree
  <2>3. ValidAgree'
    <3>1. \A q \in Rank : pc'[q] # "mdwrite" => idxvalid'[q] = FALSE
      <4>1. \A q \in Rank : pc[q] = "mdbarrier" => idxvalid[q] = FALSE
        BY DEF FlagsInv, ValidAgree, TypeOK
      <4> QED BY <1>1, <1>4, <2>1, <4>1
    <3> QED BY <1>1, <1>4, <2>1, <3>1 DEF ValidAgree, Searching
  <2>4. NoMoreGather'
    BY <1>1, <1>4, <2>1 DEF NoMoreGather, Searching
  <2> QED BY <2>2, <2>3, <2>4 DEF FlagsInv
<1>5. CASE /\ pc[r] = "load" /\ pc'[r] = "search"
           /\ metadirty' = metadirty /\ idxvalid'[r] = TRUE
  BY <1>1, <1>5 DEF FlagsInv, DirtyAgree, ValidAgree, NoMoreGather, Searching
<1>7. CASE /\ pc[r] \in {"load", "search"} /\ pc'[r] = "failed"
           /\ metadirty' = metadirty /\ idxvalid' = idxvalid
  BY <1>1, <1>7 DEF FlagsInv, DirtyAgree, ValidAgree, NoMoreGather, Searching
<1>6. CASE /\ pc[r] = "search" /\ pc'[r] = "readall"
           /\ metadirty' = metadirty /\ idxvalid' = idxvalid
  BY <1>1, <1>6 DEF FlagsInv, DirtyAgree, ValidAgree, NoMoreGather, Searching
<1> QED BY <1>2, <1>3, <1>4, <1>5, <1>6, <1>7, FlagSteps

\* So does a collective.
LEMMA CollectiveFlagsInv ==
  ASSUME TypeOK, FlagsInv, Collective \/ Reopen PROVE FlagsInv'
<1>1. CASE Reopen
  BY <1>1 DEF Reopen, FlagsInv, DirtyAgree, ValidAgree, NoMoreGather, Searching
<1>2. CASE ~Reopen
  <2>1. metadirty' = metadirty /\ idxvalid' = idxvalid
    BY <1>2 DEF Collective, FlushNothing, CreateLog, CreateMeta, MetaBarrier, ReadAll,
                CloseFile, flags
  <2>2. PICK from \in Joint :
          /\ \A r \in Rank : pc[r] = from
          /\ \/ from = "mdbarrier" /\ \A r \in Rank : pc'[r] \in {"fclose", "load"}
             \/ from = "readall" /\ \A r \in Rank : pc'[r] = "app"
             \/ from \in {"sync", "fclose"} /\ \A r \in Rank : pc'[r] \in {"app", "gather", "closed"}
             \/ from = "sync" /\ \A r \in Rank : pc'[r] = "ldwrite"
             \/ from = "gather" /\ \A r \in Rank : pc'[r] = "mdwrite"
    BY <1>2, CollectiveMoves DEF AfterFlush, AfterBarrier, Reopen
  <2>3. \A r, q \in Rank : metadirty[r] = metadirty[q] /\ idxvalid[r] = idxvalid[q]
    <3>1. from \notin {"ldwrite", "mdwrite"}
      BY DEF Joint
    <3>2. \A r, q \in Rank : metadirty[r] = metadirty[q]
      BY <2>2, <3>1 DEF FlagsInv, DirtyAgree
    <3>3. CASE from \notin Searching
      BY <2>2, <3>1, <3>2, <3>3 DEF FlagsInv, ValidAgree
    <3>4. CASE from \in Searching
      <4>1. \A r \in Rank : idxvalid[r] = TRUE
        BY <2>2, <3>4 DEF FlagsInv, ValidAgree, TypeOK, Searching, Joint
      <4> QED BY <3>2, <4>1
    <3> QED BY <3>3, <3>4
  <2>4. from = "readall" => \A r \in Rank : idxvalid[r]
    BY <2>2 DEF FlagsInv, ValidAgree, Searching
  <2>5. from = "mdbarrier" => \A r \in Rank : ~metadirty[r]
    BY <2>2 DEF FlagsInv, DirtyAgree
  <2> QED BY <2>1, <2>2, <2>3, <2>4, <2>5 DEF FlagsInv, DirtyAgree, ValidAgree, NoMoreGather,
                                          Searching
<1> QED BY <1>1, <1>2

\* Every step keeps the flags in agreement.
LEMMA NextFlagsInv ==
  ASSUME TypeOK, MetaPhase, FlagsInv, [Next]_vars PROVE FlagsInv'
<1>1. CASE Finished \/ UNCHANGED vars
  BY <1>1 DEF Finished, vars, flags, FlagsInv, DirtyAgree, ValidAgree, NoMoreGather, Searching
<1> QED BY <1>1, StepFlagsInv, CollectiveFlagsInv DEF Next

\* For any number of processes and any program: processes back in the program
\* agree on metadirty and idxvalid, and so choose the same collectives in the
\* calls to come.
THEOREM FlagsStayAgreed == Spec => []FlagsAgree
<1>1. FlagsInv => FlagsAgree
  BY DEF FlagsInv, DirtyAgree, ValidAgree, FlagsAgree, Searching
<1>2. IInv /\ Layout => TypeOK /\ MetaPhase
  BY DEF IInv, Layout
<1>3. Spec => []FlagsInv
  <2>1. IInv /\ Layout /\ FlagsInv /\ [Next]_vars => FlagsInv'
    BY <1>2, NextFlagsInv
  <2> QED BY <2>1, IndexInvariantHolds, InitFlagsInv, PTL DEF Spec
<1> QED BY <1>1, <1>3, PTL

-----------------------------------------------------------------------------
(* Programs that flush before they read or close *)

\* The programs the rest is about: no empty selection is read, and what is
\* written is flushed before a read or a close.
Orderly == Disciplined /\ ~EmptyReads

\* Where a process is says which call it is in.
PcOp ==
  \A r \in Rank :
    /\ pc[r] = "app" => ncall[r] = 0 \/ Op(r) # "close"
    /\ pc[r] # "app" => ncall[r] >= 1
    /\ pc[r] \in {"sync", "ldwrite"} => Op(r) = "flush"
    /\ pc[r] \in {"gather", "mdwrite", "mdbarrier"} => Op(r) \in {"read", "close"}
    /\ pc[r] \in Searching \cup {"load"} => Op(r) = "read"
    /\ pc[r] \in {"fclose", "closed"} => Op(r) = "close"

\* A read enters the metadata flush for stale metadata only.
ReadGathers ==
  \A r \in Rank :
    pc[r] \in {"gather", "mdwrite"} /\ Op(r) = "read" => metadirty[r] /\ ~idxvalid[r]

\* A process has flushed what it wrote when it enters a call or is about to
\* read or close; and then has no request pending.
Clean ==
  \A r \in Rank :
    /\ pc[r] # "app" => ~dirty[r]
    /\ ncall[r] < Len(calls) /\ calls[ncall[r] + 1] # "flush" => ~dirty[r]
    /\ ~dirty[r] /\ pc[r] \notin {"sync", "ldwrite"} => Len(wreqs[r]) <= nflushed[r]

\* The points where two processes can be in the same call, and those before
\* the first collective of a call.
MetaFlush == {"mdwrite", "mdbarrier"}
Together(a, b) ==
  \/ a \in {"app", "ldwrite"} /\ b \in {"app", "ldwrite"}
  \/ a \in MetaFlush /\ b \in MetaFlush
  \/ a \in Searching \cup {"load"} /\ b \in Searching \cup {"load"}
  \/ a = b
Entering == {"sync", "gather", "load", "fclose"} \cup Searching

\* No process is more than a call ahead; one that is ahead waits for, or is
\* about to enter, the first collective of its call, and the other has left
\* the last collective of the call before.
Lockstep ==
  \A r, q \in Rank :
    /\ ncall[r] <= ncall[q] + 1
    /\ ncall[r] = ncall[q] => Together(pc[r], pc[q])
    /\ ncall[r] = ncall[q] + 1 =>
         /\ pc[q] \in {"app", "ldwrite"} /\ pc[r] \in Entering
         /\ pc[r] = "fclose" => session > 1

CallsInv == PcOp /\ ReadGathers /\ Clean /\ Lockstep

\* A collective call of an orderly program, and where it leads.
LEMMA CallKinds ==
  ASSUME IInv, Orderly, Clean, NEW r \in Rank, H5Fflush(r) \/ H5Dread(r) \/ H5Fclose(r)
  PROVE  /\ pc[r] = "app" /\ session' = session /\ metadirty' = metadirty
         /\ idxvalid' = idxvalid /\ nflushed' = nflushed
         /\ \E op \in Ops :
              /\ Call(r, op)
              /\ \/ /\ op = "flush" /\ pc'[r] = "sync" /\ dirty'[r] = FALSE /\ StartFlush(r)
                 \/ /\ op = "read" /\ ~dirty[r] /\ dirty'[r] = dirty[r] /\ wreqs' = wreqs
                    /\ pc'[r] = IF idxvalid[r] THEN "search"
                                ELSE IF metadirty[r] THEN "gather" ELSE "load"
                 \/ /\ op = "close" /\ ~dirty[r] /\ dirty'[r] = dirty[r] /\ wreqs' = wreqs
                    /\ pc'[r] = IF session > 1 THEN "fclose" ELSE "gather"
<1>0. TypeOK
  BY DEF IInv
<1>1. ASSUME NEW op \in {"read", "close"}, Call(r, op) PROVE ~dirty[r]
  <2>1. CASE ncall[r] < Len(calls)
    <3>1. calls[ncall[r] + 1] = op
      BY <1>1, <2>1 DEF Call
    <3> QED BY <2>1, <3>1 DEF Clean
  <2>2. CASE ~(ncall[r] < Len(calls))
    BY <1>1, <2>2 DEF Call, Orderly
  <2> QED BY <2>1, <2>2
<1>2. CASE H5Fflush(r)
  BY <1>0, <1>2 DEF H5Fflush, StartFlush, Call, Ops, TypeOK, flags
<1>3. CASE H5Dread(r)
  BY <1>0, <1>1, <1>3 DEF H5Dread, Call, Ops, TypeOK, flags, queue, Orderly
<1>4. CASE H5Fclose(r)
  <2>1. Call(r, "close") /\ pc[r] = "app" /\ ~dirty[r]
    BY <1>1, <1>4 DEF H5Fclose, Call
  <2>2. Len(wreqs[r]) \in Nat /\ nflushed[r] \in Nat
    BY <1>0, PendingCount
  <2>3. ~(Len(wreqs[r]) > nflushed[r])
    BY <2>1, <2>2 DEF Clean
  <2> QED BY <1>0, <1>4, <2>1, <2>3 DEF H5Fclose, Ops, TypeOK, flags
<1> QED BY <1>2, <1>3, <1>4

\* The other steps of a process make no call.
LEMMA OtherSteps ==
  ASSUME IInv, NEW r \in Rank, Step(r), ~(H5Fflush(r) \/ H5Dread(r) \/ H5Fclose(r))
  PROVE  /\ calls' = calls /\ ncall' = ncall /\ session' = session
         /\ \/ /\ pc[r] = "app" /\ pc' = pc /\ nflushed' = nflushed
               /\ metadirty' = metadirty /\ idxvalid' = idxvalid /\ dirty'[r] = TRUE
               /\ Disciplined /\ ncall[r] < Len(calls) => calls[ncall[r] + 1] = "flush"
            \/ /\ dirty' = dirty /\ pc[r] = "ldwrite" /\ WriteLog(r)
               /\ pc'[r] = AfterFlush(r)
            \/ /\ dirty' = dirty /\ pc[r] = "mdwrite" /\ WriteMeta(r)
               /\ pc'[r] = "mdbarrier"
            \/ /\ dirty' = dirty /\ wreqs' = wreqs /\ nflushed' = nflushed
               /\ pc[r] \in {"load", "search"} /\ pc'[r] \in Searching
<1>0. TypeOK
  BY DEF IInv
<1> USE DEF TypeOK, prog, queue, flags
<1>1. CASE \E c \in Cells, s \in Sizes : H5Dwrite(r, c, s)
  BY <1>0, <1>1 DEF H5Dwrite
<1>2. CASE WriteLog(r)
  BY <1>0, <1>2 DEF WriteLog
<1>3. CASE WriteMeta(r)
  BY <1>0, <1>3 DEF WriteMeta, AfterMeta
<1>4. CASE LoadIndex(r)
  BY <1>0, <1>4 DEF LoadIndex, Searching
<1>5. CASE \E c \in Cells : Search(r, c) \/ SearchFails(r, c)
  BY <1>0, <1>5 DEF Search, SearchFails, Searching
<1> QED BY <1>1, <1>2, <1>3, <1>4, <1>5 DEF Step

\* Another call of a process leaves the calls the others are in alone.
LEMMA OpsStay ==
  ASSUME IInv, NEW r \in Rank, NEW op \in Ops, Call(r, op)
  PROVE  /\ ncall'[r] = ncall[r] + 1 /\ Op(r)' = op /\ pc[r] = "app"
         /\ \A q \in Rank : q # r => ncall'[q] = ncall[q]
         /\ \A q \in Rank : q # r /\ ncall[q] >= 1 => Op(q)' = Op(q)
         /\ \A q \in Rank : ncall[q] \in Nat
<1>1. ncall \in [Rank -> Nat]
  BY DEF IInv, TypeOK
<1> QED BY <1>1, CallFacts DEF Op

\* A call of an orderly program keeps every process in the call it is in.
LEMMA CallPcOp ==
  ASSUME IInv, Orderly, Clean, PcOp, NEW r \in Rank, Step(r),
         H5Fflush(r) \/ H5Dread(r) \/ H5Fclose(r)
  PROVE  PcOp'
<1>1. PICK op \in Ops :
        /\ Call(r, op)
        /\ \/ op = "flush" /\ pc'[r] = "sync"
           \/ op = "read" /\ pc'[r] \in {"search", "gather", "load"}
           \/ op = "close" /\ pc'[r] \in {"fclose", "gather"}
  BY CallKinds
<1>2. /\ ncall'[r] = ncall[r] + 1 /\ Op(r)' = op
      /\ \A q \in Rank : q # r => ncall'[q] = ncall[q]
      /\ \A q \in Rank : q # r /\ ncall[q] >= 1 => Op(q)' = Op(q)
      /\ \A q \in Rank : ncall[q] \in Nat
  BY <1>1, OpsStay
<1>3. \A q \in Rank : q # r => pc'[q] = pc[q]
  BY StepLocal DEF IInv
<1> SUFFICES ASSUME NEW q \in Rank
             PROVE  /\ pc'[q] = "app" => ncall'[q] = 0 \/ Op(q)' # "close"
                    /\ pc'[q] # "app" => ncall'[q] >= 1
                    /\ pc'[q] \in {"sync", "ldwrite"} => Op(q)' = "flush"
                    /\ pc'[q] \in {"gather", "mdwrite", "mdbarrier"} => Op(q)' \in {"read", "close"}
                    /\ pc'[q] \in Searching \cup {"load"} => Op(q)' = "read"
                    /\ pc'[q] \in {"fclose", "closed"} => Op(q)' = "close"
  BY DEF PcOp
<1>4. CASE q = r
  <2>1. ncall'[q] >= 1
    BY <1>2, <1>4
  <2> QED BY <1>1, <1>2, <1>4, <2>1 DEF Searching
<1>5. CASE q # r
  <2>1. pc'[q] = pc[q] /\ ncall'[q] = ncall[q] /\ (ncall[q] >= 1 => Op(q)' = Op(q))
        /\ ncall[q] \in Nat
    BY <1>2, <1>3, <1>5
  <2>2. CASE ncall[q] = 0
    <3>1. pc[q] = "app"
      BY <2>2 DEF PcOp
    <3> QED BY <2>1, <2>2, <3>1 DEF Searching
  <2>3. CASE ncall[q] >= 1
    BY <2>1, <2>3 DEF PcOp
  <2> QED BY <2>1, <2>2, <2>3
<1> QED BY <1>4, <1>5

\* So does every step.
LEMMA NextPcOp ==
  ASSUME IInv, Orderly, Clean, PcOp, [Next]_vars PROVE PcOp'
<1>0. TypeOK
  BY DEF IInv
<1>1. ASSUME NEW r \in Rank, Step(r) PROVE PcOp'
  <2>1. CASE H5Fflush(r) \/ H5Dread(r) \/ H5Fclose(r)
    BY <1>1, <2>1, CallPcOp
  <2>2. CASE ~(H5Fflush(r) \/ H5Dread(r) \/ H5Fclose(r))
    <3>1. calls' = calls /\ ncall' = ncall /\ \A q \in Rank : Op(q)' = Op(q)
      BY <1>1, <2>2, OtherSteps DEF Op
    <3>2. \A q \in Rank : q # r => pc'[q] = pc[q]
      BY <1>0, <1>1, StepLocal
    <3>3. \/ pc[r] = "app" /\ pc'[r] = "app"
          \/ pc[r] = "ldwrite" /\ pc'[r] = AfterFlush(r)
          \/ pc[r] = "mdwrite" /\ pc'[r] = "mdbarrier"
          \/ pc[r] \in {"load", "search"} /\ pc'[r] \in Searching
      BY <1>1, <2>2, OtherSteps
    <3> QED BY <3>1, <3>2, <3>3 DEF PcOp, Searching, AfterFlush
  <2> QED BY <2>1, <2>2
<1>2. CASE Collective
  <2>1. \A q \in Rank : ncall'[q] = ncall[q] /\ Op(q)' = Op(q)
    BY <1>2 DEF Collective, FlushNothing, CreateLog, CreateMeta, MetaBarrier, ReadAll,
                CloseFile, prog, Op
  <2>2. CASE FlushNothing
    BY <2>1, <2>2 DEF FlushNothing, PcOp, AfterFlush, Searching
  <2>3. CASE CreateLog
    BY <2>1, <2>3 DEF CreateLog, PcOp, Searching
  <2>4. CASE CreateMeta
    BY <2>1, <2>4 DEF CreateMeta, PcOp, Searching
  <2>5. CASE MetaBarrier
    BY <2>1, <2>5 DEF MetaBarrier, PcOp, AfterBarrier, Searching
  <2>6. CASE ReadAll
    BY <2>1, <2>6 DEF ReadAll, PcOp, Searching
  <2>7. CASE CloseFile
    BY <2>1, <2>7 DEF CloseFile, PcOp, Searching
  <2> QED BY <1>2, <2>2, <2>3, <2>4, <2>5, <2>6, <2>7 DEF Collective
<1>3. CASE Reopen
  BY <1>3 DEF Reopen, PcOp, Searching
<1>4. CASE Finished \/ UNCHANGED vars
  BY <1>4 DEF Finished, vars, prog, PcOp, Op
<1> QED BY <1>1, <1>2, <1>3, <1>4 DEF Next

\* A process in a metadata flush for a read keeps its flags.
LEMMA NextReadGathers ==
  ASSUME IInv, Orderly, Clean, PcOp, ReadGathers, [Next]_vars PROVE ReadGathers'
<1>0. TypeOK
  BY DEF IInv
<1>1. ASSUME NEW r \in Rank, Step(r) PROVE ReadGathers'
  <2>1. \A q \in Rank : q # r => /\ pc'[q] = pc[q] /\ metadirty'[q] = metadirty[q]
                                 /\ idxvalid'[q] = idxvalid[q]
    BY <1>0, <1>1, StepLocal
  <2>2. CASE H5Fflush(r) \/ H5Dread(r) \/ H5Fclose(r)
    <3>1. PICK op \in Ops :
        /\ Call(r, op) /\ metadirty' = metadirty /\ idxvalid' = idxvalid
        /\ \/ op = "flush" /\ pc'[r] = "sync"
           \/ /\ op = "read"
              /\ pc'[r] = IF idxvalid[r] THEN "search"
                          ELSE IF metadirty[r] THEN "gather" ELSE "load"
           \/ op = "close"
      BY <2>2, CallKinds
    <3>2. Op(r)' = op /\ \A q \in Rank : q # r /\ ncall[q] >= 1 => Op(q)' = Op(q)
      BY <3>1, OpsStay
    <3>3. \A q \in Rank : pc[q] \in {"gather", "mdwrite"} => ncall[q] >= 1
      BY DEF PcOp
    <3> QED BY <2>1, <3>1, <3>2, <3>3 DEF ReadGathers
  <2>3. CASE ~(H5Fflush(r) \/ H5Dread(r) \/ H5Fclose(r))
    <3>1. \A q \in Rank : Op(q)' = Op(q)
      BY <1>1, <2>3, OtherSteps DEF Op
    <3>2. pc'[r] \in {"gather", "mdwrite"} => Op(r) # "read"
      BY <1>1, <2>3, OtherSteps DEF AfterFlush, Searching
    <3> QED BY <2>1, <3>1, <3>2 DEF ReadGathers
  <2> QED BY <2>2, <2>3
<1>2. CASE Collective
  <2>1. \A q \in Rank : Op(q)' = Op(q)
    BY <1>2 DEF Collective, FlushNothing, CreateLog, CreateMeta, MetaBarrier, ReadAll,
                CloseFile, prog, Op
  <2>2. \A q \in Rank : pc'[q] = "gather" => Op(q) # "read"
    BY <1>2, CollectiveMoves DEF AfterFlush, AfterBarrier
  <2>3. \A q \in Rank : pc'[q] = "mdwrite" => pc[q] = "gather"
    BY <1>2, CollectiveMoves DEF AfterFlush, AfterBarrier
  <2>4. metadirty' = metadirty /\ idxvalid' = idxvalid
    BY <1>2 DEF Collective, FlushNothing, CreateLog, CreateMeta, MetaBarrier, ReadAll,
                CloseFile, flags
  <2> QED BY <2>1, <2>2, <2>3, <2>4 DEF ReadGathers
<1>3. CASE Reopen
  BY <1>3 DEF Reopen, ReadGathers
<1>4. CASE Finished \/ UNCHANGED vars
  BY <1>4 DEF Finished, vars, prog, flags, ReadGathers, Op
<1> QED BY <1>1, <1>2, <1>3, <1>4 DEF Next

\* Nothing is pending outside a data flush but what the program wrote since.
LEMMA NextClean ==
  ASSUME IInv, Prepared, Orderly, Clean, [Next]_vars PROVE Clean'
<1>0. TypeOK
  BY DEF IInv
<1>1. ASSUME NEW r \in Rank, Step(r) PROVE Clean'
  <2>1. \A q \in Rank : q # r => /\ pc'[q] = pc[q] /\ dirty'[q] = dirty[q]
                                 /\ wreqs'[q] = wreqs[q] /\ nflushed'[q] = nflushed[q]
                                 /\ ncall'[q] = ncall[q]
    BY <1>0, <1>1, StepLocal
  <2>2. CASE H5Fflush(r) \/ H5Dread(r) \/ H5Fclose(r)
    <3>1. PICK op \in Ops :
        /\ Call(r, op) /\ nflushed' = nflushed
        /\ \/ op = "flush" /\ pc'[r] = "sync" /\ dirty'[r] = FALSE
           \/ op # "flush" /\ ~dirty[r] /\ dirty'[r] = dirty[r] /\ wreqs' = wreqs
      BY <2>2, CallKinds
    <3>2. pc[r] = "app" /\ ncall'[r] = ncall[r] + 1
      BY <3>1, OpsStay
    <3>3. ~dirty'[r]
      BY <3>1
    <3>4. /\ \A q \in Rank : ncall[q] \in Nat /\ ncall[q] <= Len(calls)
          /\ Len(calls) \in Nat /\ calls \in Seq(Ops)
      BY <1>0, LenProperties DEF IInv, InCall, TypeOK
    <3>5. ASSUME NEW q \in Rank, ncall'[q] < Len(calls'), calls'[ncall'[q] + 1] # "flush"
          PROVE  ~dirty'[q]
      <4>1. CASE q = r
        BY <3>3, <4>1
      <4>2. CASE q # r
        <5>1. ncall'[q] = ncall[q] /\ dirty'[q] = dirty[q]
          BY <2>1, <4>2
        <5>2. CASE ncall[r] < Len(calls)
          <6>1. calls' = calls
            BY <3>1, <5>2 DEF Call
          <6> QED BY <3>5, <5>1, <6>1 DEF Clean
        <5>3. CASE ~(ncall[r] < Len(calls))
          <6>1. calls' = Append(calls, op) /\ ncall[r] = Len(calls)
            BY <3>1, <3>4, <5>3 DEF Call
          <6>2. /\ Len(calls') = Len(calls) + 1
                /\ \A i \in 1 .. Len(calls) : calls'[i] = calls[i]
                /\ calls'[Len(calls) + 1] = op
            BY <3>4, <6>1, AppendProperties
          <6>3. CASE ncall[q] < Len(calls)
            <7>1. ncall[q] + 1 \in 1 .. Len(calls)
              BY <3>4, <6>3
            <7>2. calls[ncall[q] + 1] # "flush"
              BY <3>5, <5>1, <6>2, <7>1
            <7> QED BY <5>1, <6>3, <7>2 DEF Clean
          <6>4. CASE ncall[q] = Len(calls)
            <7>1. op # "flush"
              BY <3>5, <5>1, <6>2, <6>4
            <7>2. \A x \in Rank : ncall[x] = ncall[r] => ~dirty[x]
              BY <3>1, <5>3, <7>1 DEF Call, Orderly
            <7> QED BY <5>1, <6>1, <6>4, <7>2
          <6> QED BY <3>4, <6>3, <6>4
        <5> QED BY <5>2, <5>3
      <4> QED BY <4>1, <4>2
    <3>6. ~dirty'[r] /\ pc'[r] \notin {"sync", "ldwrite"} => Len(wreqs'[r]) <= nflushed'[r]
      BY <3>1, <3>2 DEF Clean
    <3> QED BY <2>1, <3>3, <3>5, <3>6 DEF Clean
  <2>3. CASE ~(H5Fflush(r) \/ H5Dread(r) \/ H5Fclose(r))
    <3>1. calls' = calls /\ ncall' = ncall
      BY <1>1, <2>3, OtherSteps
    <3>2. CASE /\ pc[r] = "app" /\ pc' = pc /\ dirty'[r] = TRUE
               /\ Disciplined /\ ncall[r] < Len(calls) => calls[ncall[r] + 1] = "flush"
      BY <2>1, <3>1, <3>2 DEF Clean, Orderly
    <3>3. CASE dirty' = dirty /\ pc[r] = "ldwrite" /\ WriteLog(r)
      <4>1. wreqs'[r] = Relocated(r) /\ nflushed'[r] = Len(wreqs[r])
        BY <1>0, <3>3 DEF WriteLog, TypeOK
      <4>2. Len(wreqs'[r]) <= nflushed'[r]
        BY <1>0, <4>1, RelocatedFields, PendingCount
      <4>3. ~dirty[r]
        BY <3>3 DEF Clean
      <4> QED BY <2>1, <3>1, <3>3, <4>2, <4>3 DEF Clean
    <3>4. CASE dirty' = dirty /\ pc[r] = "mdwrite" /\ WriteMeta(r)
      <4>1. wreqs'[r] = <<>> /\ nflushed'[r] = nflushed[r]
        BY <1>0, <3>4 DEF WriteMeta, TypeOK
      <4>2. Len(wreqs'[r]) <= nflushed'[r]
        BY <1>0, <4>1, EmptySeq, PendingCount
      <4>3. ~dirty[r]
        BY <3>4 DEF Clean
      <4> QED BY <2>1, <3>1, <3>4, <4>2, <4>3 DEF Clean
    <3>5. CASE /\ dirty' = dirty /\ wreqs' = wreqs /\ nflushed' = nflushed
               /\ pc[r] \in {"load", "search"} /\ pc'[r] \in Searching
      BY <2>1, <3>1, <3>5 DEF Clean, Searching
    <3> QED BY <1>1, <2>3, <3>2, <3>3, <3>4, <3>5, OtherSteps
  <2> QED BY <2>2, <2>3
<1>2. CASE Collective
  <2>1. dirty' = dirty /\ calls' = calls /\ ncall' = ncall /\ wreqs' = wreqs
        /\ nflushed' = nflushed
    BY <1>2 DEF Collective, FlushNothing, CreateLog, CreateMeta, MetaBarrier, ReadAll,
                CloseFile, prog, queue
  <2>2. \A q \in Rank : pc[q] # "app"
    BY <1>2, CollectiveMoves DEF Joint
  <2>3. CASE FlushNothing
    <3>1. \A q \in Rank : Len(wreqs[q]) <= nflushed[q]
      <4> SUFFICES ASSUME NEW q \in Rank PROVE Len(wreqs[q]) <= nflushed[q]
        OBVIOUS
      <4>1. Pending(q) = {}
        BY <2>3, NothingPending DEF FlushNothing
      <4>2. Len(wreqs[q]) \in Nat /\ nflushed[q] \in Nat
        BY <1>0, PendingCount
      <4>3. ~(Len(wreqs[q]) \in nflushed[q] + 1 .. Len(wreqs[q]))
        BY <4>1 DEF Pending
      <4> QED BY <4>2, <4>3
    <3> QED BY <2>1, <2>2, <3>1 DEF Clean
  <2>4. CASE ~FlushNothing
    <3>1. \A q \in Rank : pc[q] \in {"sync", "ldwrite"} => pc'[q] \in {"sync", "ldwrite"}
      BY <1>2, <2>4, CollectiveMoves
    <3> QED BY <2>1, <2>2, <3>1 DEF Clean
  <2> QED BY <2>3, <2>4
<1>3. CASE Reopen
  <2>1. /\ \A q \in Rank : /\ wreqs'[q] = <<>> /\ nflushed'[q] = 0 /\ ncall'[q] = 0
                           /\ pc'[q] = "app"
        /\ calls' = <<>>
    BY <1>3 DEF Reopen
  <2> QED BY <2>1, EmptySeq DEF Clean
<1>4. CASE Finished \/ UNCHANGED vars
  BY <1>4 DEF Finished, vars, prog, queue, Clean
<1> QED BY <1>1, <1>2, <1>3, <1>4 DEF Next

\* A call leads where the processes that made it before are.
LEMMA CallLockstep ==
  ASSUME IInv, MetaPhase, FlagsInv, Orderly, CallsInv, NEW r \in Rank, Step(r),
         H5Fflush(r) \/ H5Dread(r) \/ H5Fclose(r)
  PROVE  Lockstep'
<1>1. PICK op \in Ops :
        /\ Call(r, op) /\ session' = session
        /\ \/ op = "flush" /\ pc'[r] = "sync"
           \/ /\ op = "read"
              /\ pc'[r] = IF idxvalid[r] THEN "search"
                          ELSE IF metadirty[r] THEN "gather" ELSE "load"
           \/ op = "close" /\ pc'[r] = IF session > 1 THEN "fclose" ELSE "gather"
  BY CallKinds DEF CallsInv
<1>2. /\ ncall'[r] = ncall[r] + 1 /\ pc[r] = "app"
      /\ \A q \in Rank : q # r => ncall'[q] = ncall[q]
      /\ \A q \in Rank : ncall[q] \in Nat
  BY <1>1, OpsStay
<1>3. \A q \in Rank : q # r => pc'[q] = pc[q]
  BY StepLocal DEF IInv
<1>4. pc'[r] \in Entering /\ (pc'[r] = "fclose" => session > 1)
  BY <1>1 DEF Entering, Searching
<1>5. ASSUME NEW q \in Rank, q # r
      PROVE  /\ ncall[q] = ncall[r] \/ ncall[q] = ncall[r] + 1
             /\ ncall[q] = ncall[r] => pc[q] \in {"app", "ldwrite"}
             /\ ncall[q] = ncall[r] + 1 => pc'[r] = pc[q] \/
                  (pc'[r] \in Searching \cup {"load"} /\ pc[q] \in Searching \cup {"load"})
  <2>1. /\ ncall[r] <= ncall[q] + 1 /\ ncall[q] <= ncall[r] + 1
        /\ ncall[q] = ncall[r] => Together(pc[q], pc[r])
        /\ ncall[r] # ncall[q] + 1
    BY <1>2 DEF CallsInv, Lockstep, Entering, Searching
  <2>2. ncall[q] = ncall[r] \/ ncall[q] = ncall[r] + 1
    BY <1>2, <2>1
  <2>3. ncall[q] = ncall[r] => pc[q] \in {"app", "ldwrite"}
    BY <1>2, <2>1 DEF Together, MetaFlush, Searching
  <2>4. ASSUME ncall[q] = ncall[r] + 1
        PROVE  pc'[r] = pc[q] \/
                 (pc'[r] \in Searching \cup {"load"} /\ pc[q] \in Searching \cup {"load"})
    <3>1. /\ pc[q] \in Entering /\ (pc[q] = "fclose" => session > 1)
      BY <2>4 DEF CallsInv, Lockstep
    <3>2. Op(q) = op
      <4>1. ncall[q] <= Len(calls) /\ Len(calls) \in Nat
        BY LenProperties DEF IInv, InCall, TypeOK
      <4>2. ncall[r] < Len(calls)
        BY <1>2, <2>4, <4>1
      <4>3. op = calls[ncall[r] + 1]
        BY <1>1, <4>2 DEF Call
      <4> QED BY <2>4, <4>3 DEF Op
    <3>3. CASE op = "flush"
      BY <1>1, <3>1, <3>2, <3>3 DEF CallsInv, PcOp, Entering
    <3>4. CASE op = "read"
      <4>1. pc[q] \in {"gather", "load"} \cup Searching
        BY <3>1, <3>2, <3>4 DEF CallsInv, PcOp, Entering
      <4>2. CASE pc[q] = "gather"
        <5>1. metadirty[q] /\ ~idxvalid[q]
          BY <3>2, <3>4, <4>2 DEF CallsInv, ReadGathers
        <5>2. metadirty[r] = metadirty[q] /\ idxvalid[r] = idxvalid[q]
          BY <1>2, <4>2 DEF FlagsInv, DirtyAgree, ValidAgree, Searching
        <5> QED BY <1>1, <3>4, <4>2, <5>1, <5>2
      <4>3. CASE pc[q] \in {"load"} \cup Searching
        <5>1. idxvalid[r] \/ ~metadirty[r]
          BY <1>2, <4>3 DEF FlagsInv, NoMoreGather, Searching
        <5> QED BY <1>1, <3>4, <4>3, <5>1 DEF Searching
      <4> QED BY <4>1, <4>2, <4>3
    <3>5. CASE op = "close"
      <4>1. pc[q] \in {"gather", "fclose"}
        BY <3>1, <3>2, <3>5 DEF CallsInv, PcOp, Entering, Searching
      <4>2. pc[q] = "gather" => ~(session > 1)
        BY DEF IInv, ReadOnly
      <4> QED BY <1>1, <3>1, <3>5, <4>1, <4>2
    <3> QED BY <1>1, <3>3, <3>4, <3>5
  <2> QED BY <2>2, <2>3, <2>4
<1>6. ASSUME NEW q \in Rank, q # r
      PROVE  /\ ncall'[q] <= ncall'[r] + 1 /\ ncall'[r] <= ncall'[q] + 1
             /\ ncall'[r] = ncall'[q] => Together(pc[r], pc[q])' /\ Together(pc[q], pc[r])'
             /\ ncall'[r] = ncall'[q] + 1 =>
                  pc'[q] \in {"app", "ldwrite"} /\ pc'[r] \in Entering
                  /\ (pc'[r] = "fclose" => session' > 1)
             /\ ncall'[q] # ncall'[r] + 1
  <2>1. ncall'[q] = ncall[q] /\ pc'[q] = pc[q]
    BY <1>2, <1>3, <1>6
  <2>2. /\ ncall[q] = ncall[r] \/ ncall[q] = ncall[r] + 1
        /\ ncall[q] = ncall[r] => pc[q] \in {"app", "ldwrite"}
        /\ ncall[q] = ncall[r] + 1 => pc'[r] = pc[q] \/
             (pc'[r] \in Searching \cup {"load"} /\ pc[q] \in Searching \cup {"load"})
    BY <1>5, <1>6
  <2>3. ncall[r] \in Nat /\ ncall[q] \in Nat
    BY <1>2
  <2>4. CASE ncall[q] = ncall[r]
    BY <1>1, <1>2, <1>4, <2>1, <2>2, <2>3, <2>4
  <2>5. CASE ncall[q] = ncall[r] + 1
    <3>1. Together(pc[r], pc[q])' /\ Together(pc[q], pc[r])'
      BY <2>1, <2>2, <2>5 DEF Together
    <3> QED BY <1>2, <2>1, <2>3, <2>5, <3>1
  <2> QED BY <2>2, <2>4, <2>5
<1>7. \A q, s \in Rank : q # r /\ s # r =>
        /\ pc'[q] = pc[q] /\ pc'[s] = pc[s] /\ ncall'[q] = ncall[q] /\ ncall'[s] = ncall[s]
  BY <1>2, <1>3
<1>8. ncall'[r] \in Nat /\ Together(pc[r], pc[r])'
  BY <1>2 DEF Together
<1> SUFFICES ASSUME NEW q \in Rank, NEW s \in Rank
             PROVE  /\ ncall'[q] <= ncall'[s] + 1
                    /\ ncall'[q] = ncall'[s] => Together(pc[q], pc[s])'
                    /\ ncall'[q] = ncall'[s] + 1 =>
                         /\ pc'[s] \in {"app", "ldwrite"} /\ pc'[q] \in Entering
                         /\ pc'[q] = "fclose" => session' > 1
  BY DEF Lockstep
<1>9. CASE q = r /\ s = r
  BY <1>8, <1>9
<1>10. CASE q = r /\ s # r
  BY <1>6, <1>10
<1>11. CASE q # r /\ s = r
  BY <1>6, <1>11
<1>12. CASE q # r /\ s # r
  BY <1>1, <1>7, <1>12 DEF CallsInv, Lockstep, Together
<1> QED BY <1>9, <1>10, <1>11, <1>12

\* The steps inside a call do not leave the part of it they are in.
LEMMA NextLockstep ==
  ASSUME IInv, MetaPhase, FlagsInv, Orderly, CallsInv, [Next]_vars PROVE Lockstep'
<1>0. TypeOK
  BY DEF IInv
<1>1. ASSUME NEW r \in Rank, Step(r) PROVE Lockstep'
  <2>1. CASE H5Fflush(r) \/ H5Dread(r) \/ H5Fclose(r)
    BY <1>1, <2>1, CallLockstep
  <2>2. CASE ~(H5Fflush(r) \/ H5Dread(r) \/ H5Fclose(r))
    <3>1. ncall' = ncall /\ session' = session
      BY <1>1, <2>2, OtherSteps
    <3>2. \A q \in Rank : q # r => pc'[q] = pc[q]
      BY <1>0, <1>1, StepLocal
    <3>3. \/ pc[r] = "app" /\ pc'[r] = "app"
          \/ pc[r] = "ldwrite" /\ pc'[r] = "app"
          \/ pc[r] = "mdwrite" /\ pc'[r] = "mdbarrier"
          \/ pc[r] \in {"load", "search"} /\ pc'[r] \in Searching
      BY <1>1, <2>2, OtherSteps DEF CallsInv, PcOp, AfterFlush
    <3>4. CASE pc[r] \in {"app", "ldwrite"}
      <4>1. pc'[r] = "app"
        BY <3>3, <3>4
      <4> QED BY <3>1, <3>2, <3>4, <4>1 DEF CallsInv, Lockstep, Together, MetaFlush,
                                            Searching, Entering
    <3>5. CASE pc[r] = "mdwrite"
      <4>1. pc'[r] = "mdbarrier" /\ \A q \in Rank : pc[q] \in MetaFlush
        BY <3>3, <3>5 DEF MetaPhase, MetaFlush
      <4>2. \A q \in Rank : pc'[q] \in MetaFlush
        BY <3>2, <4>1 DEF MetaFlush
      <4>3. \A q, s \in Rank : ncall[q] # ncall[s] + 1 /\ ncall[q] <= ncall[s] + 1
        BY <4>1 DEF CallsInv, Lockstep, MetaFlush
      <4> QED BY <3>1, <4>2, <4>3 DEF Lockstep, Together
    <3>6. CASE pc[r] \in {"load", "search"}
      <4>1. pc'[r] \in Searching
        BY <3>3, <3>6
      <4> QED BY <3>1, <3>2, <3>6, <4>1 DEF CallsInv, Lockstep, Together, MetaFlush,
                                            Searching, Entering
    <3> QED BY <3>3, <3>4, <3>5, <3>6
  <2> QED BY <2>1, <2>2
<1>2. CASE Collective
  <2>1. ncall' = ncall /\ \A q \in Rank : Op(q)' = Op(q)
    BY <1>2 DEF Collective, FlushNothing, CreateLog, CreateMeta, MetaBarrier, ReadAll,
                CloseFile, prog, Op
  <2>2. PICK from \in Joint : \A q \in Rank : pc[q] = from
    BY <1>2, CollectiveMoves
  <2>3. \A q, s \in Rank : ncall[q] = ncall[s]
    <3>1. \A q, s \in Rank : ncall[q] # ncall[s] + 1 /\ ncall[q] <= ncall[s] + 1
      BY <2>2 DEF CallsInv, Lockstep, Joint
    <3>2. \A q \in Rank : ncall[q] \in Nat
      BY <1>0 DEF TypeOK
    <3> QED BY <3>1, <3>2
  <2>4. \A q, s \in Rank : pc'[q] = pc'[s]
    <3>1. \A q, s \in Rank : Op(q) = Op(s)
      BY <2>3 DEF Op
    <3>2. \A q, s \in Rank : AfterFlush(q) = AfterFlush(s) /\ AfterBarrier(q) = AfterBarrier(s)
      BY <3>1 DEF AfterFlush, AfterBarrier
    <3> QED BY <1>2, <3>2, CollectiveMoves
  <2>5. \A q \in Rank : ncall[q] \in Nat
    BY <1>0 DEF TypeOK
  <2> QED BY <2>1, <2>3, <2>4, <2>5 DEF Lockstep, Together
<1>3. CASE Reopen
  BY <1>3 DEF Reopen, Lockstep, Together
<1>4. CASE Finished \/ UNCHANGED vars
  BY <1>4 DEF Finished, vars, prog, CallsInv, Lockstep, Together
<1> QED BY <1>1, <1>2, <1>3, <1>4 DEF Next

\* A program starts with no call made.
LEMMA InitCallsInv == Init => CallsInv
<1>1. Init => PcOp /\ ReadGathers
  BY DEF Init, PcOp, ReadGathers, Searching
<1>2. Init => Clean
  BY EmptySeq DEF Init, Clean
<1>3. Init => Lockstep
  BY DEF Init, Lockstep, Together
<1> QED BY <1>1, <1>2, <1>3 DEF CallsInv

\* Every step of an orderly program keeps its calls in lockstep.
LEMMA NextCallsInv ==
  ASSUME IInv, DataInv, MetaPhase, FlagsInv, Orderly, CallsInv, [Next]_vars PROVE CallsInv'
<1>1. Prepared /\ Clean /\ PcOp /\ ReadGathers
  BY DEF DataInv, CallsInv
<1>2. PcOp'
  BY <1>1, NextPcOp
<1>3. ReadGathers'
  BY <1>1, NextReadGathers
<1>4. Clean'
  BY <1>1, NextClean
<1>5. Lockstep'
  BY NextLockstep
<1> QED BY <1>2, <1>3, <1>4, <1>5 DEF CallsInv

\* The invariant of orderly programs.
OrderlyInv == IInv /\ Layout /\ DataInv /\ IndexInv /\ FlagsInv /\ CallsInv

\* It holds in every behaviour of an orderly program.
THEOREM OrderlyInvariantHolds == Orderly /\ Spec => []OrderlyInv
<1>1. IInv /\ Layout => TypeOK /\ MetaPhase
  BY DEF IInv, Layout
<1>2. Orderly /\ IInv /\ Layout /\ DataInv /\ IndexInv /\ FlagsInv /\ CallsInv /\ [Next]_vars
        => (FlagsInv /\ CallsInv)'
  BY <1>1, NextFlagsInv, NextCallsInv
<1>3. Orderly \/ ~Orderly
  OBVIOUS
<1>4. CASE Orderly
  <2>1. IInv /\ Layout /\ DataInv /\ IndexInv /\ FlagsInv /\ CallsInv /\ [Next]_vars
          => (FlagsInv /\ CallsInv)'
    BY <1>2, <1>4
  <2> QED BY <2>1, IndexInvariantHolds, InitFlagsInv, InitCallsInv, PTL DEF Spec, OrderlyInv
<1>5. CASE ~Orderly
  BY <1>5
<1> QED BY <1>4, <1>5

\* In an orderly program processes never wait for each other in different
\* collectives: all that wait wait at the same point.
LEMMA CallsInvSuffices == IInv /\ IndexInv /\ CallsInv => CollectivesMatch
<1> SUFFICES ASSUME IInv, CallsInv, \A r \in Rank : pc[r] \in Joint,
                    NEW r \in Rank, NEW q \in Rank
             PROVE  pc[r] = pc[q]
  BY DEF CollectivesMatch
<1>1. ncall[r] \in Nat /\ ncall[q] \in Nat
  BY DEF IInv, TypeOK
<1>2. ncall[r] # ncall[q] + 1 /\ ncall[q] # ncall[r] + 1
  BY DEF CallsInv, Lockstep, Joint
<1>3. ncall[r] = ncall[q]
  BY <1>1, <1>2 DEF CallsInv, Lockstep
<1>4. Together(pc[r], pc[q])
  BY <1>3 DEF CallsInv, Lockstep
<1> QED BY <1>4 DEF Together, Joint, MetaFlush, Searching

\* For any number of processes and any bounds: a program that flushes what it
\* wrote before it reads or closes, and reads no empty selection, never has two
\* processes waiting in different collectives, the way the source deadlocks
\* when only some of them have requests pending at a close.
THEOREM CollectivesAlwaysMatch == Disciplined /\ ~EmptyReads /\ Spec => []CollectivesMatch
<1>1. OrderlyInv => CollectivesMatch
  BY CallsInvSuffices DEF OrderlyInv
<1>2. Disciplined /\ ~EmptyReads => Orderly
  BY DEF Orderly
<1> QED BY <1>1, <1>2, OrderlyInvariantHolds, PTL

-----------------------------------------------------------------------------
(***************************************************************************)
(* The third part, a program that flushes before it reads or closes,       *)
(* writes nothing after its first read, and reads no empty selection: a    *)
(* closed file holds every write with its metadata, and the file           *)
(* implements the abstract store.  Both follow a write from the queue of   *)
(* its process, through the data flush, into a metadata dataset and from   *)
(* there into every index.                                                 *)
(***************************************************************************)

\* Process r queues no more writes.
WritesOver(r) ==
  \/ session > 1
  \/ \E k \in 1 .. Len(calls) : calls[k] = "read"
  \/ ncall[r] >= 1 /\ Op(r) = "close"

\* nflushed counts requests of the queue until the queue is emptied, and
\* nothing is queued after that.
QueueOrder == \A r \in Rank : nflushed[r] <= Len(wreqs[r]) \/ WritesOver(r)

\* A queued request is a write of the program with a selection of its own.
QueueIssued ==
  /\ \A r \in Rank : \A i \in DOMAIN wreqs[r] :
       wreqs[r][i].w \in issued /\ ~wreqs[r][i].ref
  /\ Placed \subseteq issued

\* What nflushed counts is in the file, and its metadata is still to be flushed.
QueueFlushed ==
  \A r \in Rank : \A i \in DOMAIN wreqs[r] :
    i <= nflushed[r] => wreqs[r][i] \in placed /\ metadirty[r]

\* A metadata flush leaves no request behind.
QueueEmptied ==
  \A r \in Rank : pc[r] \in {"mdbarrier", "fclose", "closed"} => wreqs[r] = <<>>

QueueInv == QueueOrder /\ QueueIssued /\ QueueFlushed /\ QueueEmptied

\* No process is about to write the unit x of the file as metadata.
Clear(x) ==
  \A r \in Rank : pc[r] = "mdwrite" =>
    x \notin base[r] .. base[r] + (TableSize(r) + Len(wreqs[r])) - 1

\* The unit x lies behind the section table of a metadata dataset created under
\* plain views and has been written.
MetaUnit(k, x) ==
  /\ md[k].plain /\ Clear(x)
  /\ md[k].doff + (NP + 1) <= x /\ x < End(md[k])

\* A metadata dataset holds the entry e.
InMeta(e) == \E k \in DOMAIN md : \E x \in Nat : MetaUnit(k, x) /\ UnitAt(x) = e

\* The metadata datasets hold entries whose data is in the file.
MetaPlaced ==
  \A k \in DOMAIN md : \A x \in Nat : MetaUnit(k, x) => UnitAt(x) \in placed

\* Every write is queued, or in the file with its metadata.
Ledger ==
  \A w \in issued :
    \/ \E i \in DOMAIN wreqs[w.rank] : wreqs[w.rank][i].w = w
    \/ \E e \in placed : InMeta(e) /\ e.w = w /\ ~e.ref

\* The metadata of flushed data is queued or in the file.
Kept ==
  \A e \in placed :
    \/ \E r \in Rank : \E i \in DOMAIN wreqs[r] : i <= nflushed[r] /\ wreqs[r][i] = e
    \/ InMeta(e)

FileInv == MetaPlaced /\ Ledger /\ Kept

\* The program reads and will write no more, and nothing is queued or flushed.
HasRead == \E k \in 1 .. Len(calls) : calls[k] = "read"
Still ==
  /\ HasRead
  /\ \A q \in Rank : wreqs[q] = <<>> /\ fsize[q] = 0 /\ pc[q] # "ldwrite"

\* An index is loaded when no metadata is left to flush.
LoadClean == \A r \in Rank : pc[r] = "load" => ~idxvalid[r] /\ ~metadirty[r]

\* A valid index covers the flushed data, and no data will be flushed.
Quiet == \A r \in Rank : idxvalid[r] => Still /\ idx[r] = placed

LoadedInv == LoadClean /\ Quiet

\* A view that a read has left begins behind the start of the file and stays
\* with a valid index, until the metadata flush of the close resets that.
ViewsRead ==
  \A r \in Rank : view[r] # Plain =>
    /\ Still /\ view[r][1] >= 2
    /\ idxvalid[r] \/ (pc[r] \in {"mdbarrier", "fclose", "closed"} /\ Op(r) = "close")

\* No data is flushed under a view a read has left.
LogsPlain == \A k \in DOMAIN ld : ld[k].plain

\* Only the metadata flush of a close is made under such a view: it writes an
\* empty section table, where it belongs or, through the view of rank 0, not.
Closing ==
  \/ session > 1
  \/ \A r \in Rank : pc[r] \in {"mdwrite", "mdbarrier", "fclose", "closed"} /\ Op(r) = "close"
Lost(k) == UnitAt(md[k].doff) = Nothing /\ UnitAt(md[k].doff + 1) = Nothing
LastMeta ==
  \A k \in DOMAIN md : ~md[k].plain =>
    /\ k = Len(md) /\ md[k].size = NP + 1
    /\ Closing /\ \A r \in Rank : wreqs[r] = <<>>
    /\ IF pc[0] = "mdwrite" THEN base[0] = md[k].doff /\ mdoffs[1] = NP /\ Lost(k)
                            ELSE UnitAt(md[k].doff) = [word |-> NP] \/ Lost(k)

ViewInv == ViewsRead /\ LogsPlain /\ LastMeta

StoreInv == OrderlyInv /\ QueueInv /\ FileInv /\ LoadedInv /\ ViewInv

-----------------------------------------------------------------------------
(* The queues *)

\* A session that has read or closed has done so for good.
LEMMA OverStays ==
  ASSUME IInv, PcOp, [Next]_vars, NEW r \in Rank, WritesOver(r)
  PROVE  WritesOver(r)'
<1>1. /\ calls \in Seq(Ops) /\ Len(calls) \in Nat /\ ncall \in [Rank -> Nat]
      /\ session \in Nat \ {0} /\ TypeOK
  BY LenProperties DEF IInv, TypeOK
<1>2. ASSUME NEW q \in Rank, Step(q) PROVE WritesOver(r)'
  <2>1. CASE H5Fflush(q) \/ H5Dread(q) \/ H5Fclose(q)
    <3>1. session' = session
      BY <2>1 DEF H5Fflush, H5Dread, H5Fclose
    <3>2. PICK op \in Ops : Call(q, op)
      BY <2>1 DEF H5Fflush, H5Dread, H5Fclose, Ops
    <3>3. CASE \E k \in 1 .. Len(calls) : calls[k] = "read"
      <4>1. \/ calls' = calls
            \/ calls' = Append(calls, op)
        BY <3>2 DEF Call
      <4>2. /\ Len(Append(calls, op)) = Len(calls) + 1
            /\ \A i \in 1 .. Len(calls) : Append(calls, op)[i] = calls[i]
        BY <1>1, <3>2, AppendProperties
      <4>3. \A i \in 1 .. Len(calls) : i \in 1 .. Len(calls') /\ calls'[i] = calls[i]
        BY <1>1, <4>1, <4>2
      <4> QED BY <3>3, <4>3 DEF WritesOver
    <3>4. CASE ncall[r] >= 1 /\ Op(r) = "close"
      <4>1. pc[r] # "app"
        BY <1>1, <3>4 DEF PcOp
      <4>2. r # q /\ ncall'[r] = ncall[r] /\ Op(r)' = Op(r)
        BY <3>2, <3>4, <4>1, OpsStay
      <4> QED BY <3>4, <4>2 DEF WritesOver
    <3> QED BY <3>1, <3>3, <3>4 DEF WritesOver
  <2>2. CASE ~(H5Fflush(q) \/ H5Dread(q) \/ H5Fclose(q))
    <3>1. calls' = calls /\ ncall' = ncall /\ session' = session
      BY <1>2, <2>2, OtherSteps
    <3> QED BY <3>1 DEF WritesOver, Op
  <2> QED BY <2>1, <2>2
<1>3. CASE Collective \/ Finished \/ UNCHANGED vars
  <2>1. calls' = calls /\ ncall' = ncall /\ session' = session
    BY <1>3 DEF Collective, FlushNothing, CreateLog, CreateMeta, MetaBarrier, ReadAll,
                CloseFile, Finished, vars, prog
  <2> QED BY <2>1 DEF WritesOver, Op
<1>4. CASE Reopen
  BY <1>1, <1>4 DEF Reopen, WritesOver
<1> QED BY <1>2, <1>3, <1>4 DEF Next

\* Queueing a write: no dereference, and behind everything nflushed counts.
LEMMA WriteQueueInv ==
  ASSUME IInv, Orderly, PcOp, QueueInv, NEW r \in Rank, NEW c \in Cells, NEW s \in Sizes,
         H5Dwrite(r, c, s)
  PROVE  /\ QueueIssued' /\ QueueFlushed' /\ QueueEmptied'
         /\ nflushed' = nflushed /\ Len(wreqs'[r]) = Len(wreqs[r]) + 1
         /\ nflushed[r] <= Len(wreqs[r])
         /\ \A i \in DOMAIN wreqs[r] : i \in DOMAIN wreqs'[r] /\ wreqs'[r][i] = wreqs[r][i]
         /\ \E w \in Write : /\ w.rank = r /\ issued' = issued \cup {w}
                             /\ Len(wreqs'[r]) \in DOMAIN wreqs'[r]
                             /\ wreqs'[r][Len(wreqs'[r])].w = w
         /\ \A q \in Rank : q # r => wreqs'[q] = wreqs[q]
         /\ UNCHANGED <<placed, pc, md, metadirty, idxvalid, idx, got>>
         /\ \A k \in 1 .. Len(calls) : calls[k] # "read"
<1>0. TypeOK /\ TypeOK'
  BY H5DwriteIInv DEF IInv
<1> DEFINE w == [rank |-> r, seq |-> 1 + Cardinality({v \in issued : v.rank = r}),
                 cell |-> c, size |-> s]
           e == [w |-> w, foff |-> Unset, ref |-> Deduplicated(r, c)]
<1>1. /\ pc[r] = "app" /\ session = 1
      /\ issued' = issued \cup {w}
      /\ wreqs' = [wreqs EXCEPT ![r] = Append(@, e)]
      /\ UNCHANGED <<calls, ncall, session, pc, nflushed, flags, idx, view, counters,
                     scratch, store, got>>
  BY DEF H5Dwrite
<1>2. (\A k \in 1 .. Len(calls) : calls[k] # "read") /\ ~Deduplicated(r, c)
  BY DEF H5Dwrite, Orderly
<1>3. w \in issued' /\ issued' \subseteq Write
  BY <1>0, <1>1 DEF TypeOK
<1>4. w \in Write /\ w.rank = r
  BY <1>3
<1>5. e.w = w /\ ~e.ref
  BY <1>2
<1> HIDE DEF w, e
<1>6. /\ wreqs'[r] = Append(wreqs[r], e) /\ wreqs[r] \in Seq(Entry)
      /\ wreqs'[r] \in Seq(Entry)
      /\ \A q \in Rank : q # r => wreqs'[q] = wreqs[q]
  BY <1>0, <1>1 DEF TypeOK
<1>7. /\ Len(wreqs[r]) \in Nat /\ DOMAIN wreqs[r] = 1 .. Len(wreqs[r])
      /\ Len(wreqs'[r]) = Len(wreqs[r]) + 1
      /\ DOMAIN wreqs'[r] = 1 .. Len(wreqs[r]) + 1
      /\ \A i \in 1 .. Len(wreqs[r]) : wreqs'[r][i] = wreqs[r][i]
      /\ nflushed[r] \in Nat
  <2>1. wreqs'[r][Len(wreqs[r]) + 1] = Append(wreqs[r], e)[Len(wreqs[r]) + 1]
    BY <1>6
  <2>2. Append(wreqs[r], e) = [i \in 1 .. Len(wreqs[r]) + 1 |->
                                 IF i <= Len(wreqs[r]) THEN wreqs[r][i] ELSE e]
    BY <1>6
  <2>3. Len(wreqs[r]) \in Nat /\ DOMAIN wreqs[r] = 1 .. Len(wreqs[r])
        /\ DOMAIN wreqs'[r] = 1 .. Len(wreqs'[r]) /\ Len(wreqs'[r]) \in Nat
    BY <1>6, LenProperties
  <2>4. nflushed[r] \in Nat
    BY <1>0 DEF TypeOK
  <2>5. Len(Append(wreqs[r], e)) = Len(wreqs[r]) + 1
    BY <1>6
  <2> QED BY <1>6, <2>2, <2>3, <2>4, <2>5
<1>8. wreqs'[r][Len(wreqs[r]) + 1] = e
  <2>1. Append(wreqs[r], e)[Len(wreqs[r]) + 1] = e
    BY <1>6
  <2> QED BY <1>6, <2>1
<1>9. nflushed[r] <= Len(wreqs[r])
  <2>1. ~WritesOver(r)
    <3>1. ~(session > 1)
      BY <1>1
    <3>2. ~(ncall[r] >= 1 /\ Op(r) = "close")
      BY <1>1 DEF PcOp
    <3> QED BY <1>2, <3>1, <3>2 DEF WritesOver
  <2> QED BY <2>1 DEF QueueInv, QueueOrder
<1>10. UNCHANGED <<placed, pc, nflushed, md, metadirty, idxvalid, idx, got>>
  BY <1>1 DEF flags, store
<1>11. QueueIssued'
  <2>1. \A q \in Rank : \A i \in DOMAIN wreqs'[q] :
          wreqs'[q][i].w \in issued' /\ ~wreqs'[q][i].ref
    <3> SUFFICES ASSUME NEW q \in Rank, NEW i \in DOMAIN wreqs'[q]
                 PROVE  wreqs'[q][i].w \in issued' /\ ~wreqs'[q][i].ref
      OBVIOUS
    <3>1. CASE q = r /\ i = Len(wreqs[r]) + 1
      BY <1>1, <1>5, <1>8, <3>1
    <3>2. CASE ~(q = r /\ i = Len(wreqs[r]) + 1)
      <4>1. i \in DOMAIN wreqs[q] /\ wreqs'[q][i] = wreqs[q][i]
        BY <1>6, <1>7, <3>2
      <4> QED BY <1>1, <4>1 DEF QueueInv, QueueIssued
    <3> QED BY <3>1, <3>2
  <2>2. Placed' \subseteq issued'
    BY <1>1, <1>10 DEF QueueInv, QueueIssued, Placed
  <2> QED BY <2>1, <2>2 DEF QueueIssued
<1>12. QueueFlushed'
  <2> SUFFICES ASSUME NEW q \in Rank, NEW i \in DOMAIN wreqs'[q], i <= nflushed[q]
               PROVE  wreqs'[q][i] \in placed /\ metadirty[q]
    BY <1>10 DEF QueueFlushed
  <2>1. i \in DOMAIN wreqs[q] /\ wreqs'[q][i] = wreqs[q][i]
    BY <1>6, <1>7, <1>9
  <2> QED BY <2>1 DEF QueueInv, QueueFlushed
<1>13. QueueEmptied'
  BY <1>1, <1>6, <1>10 DEF QueueInv, QueueEmptied
<1>14. Len(wreqs'[r]) \in DOMAIN wreqs'[r] /\ wreqs'[r][Len(wreqs'[r])].w = w
  BY <1>5, <1>7, <1>8
<1> QED BY <1>1, <1>2, <1>4, <1>6, <1>7, <1>9, <1>10, <1>11, <1>12, <1>13, <1>14

\* Which steps of a process change the history, the file, its index, its answer.
LEMMA StepFrames ==
  ASSUME TypeOK, NEW r \in Rank, Step(r)
  PROVE  /\ issued' = issued \/ \E c \in Cells, s \in Sizes : H5Dwrite(r, c, s)
         /\ placed' = placed \/ WriteLog(r)
         /\ disk' = disk \/ WriteLog(r) \/ WriteMeta(r)
         /\ md' = md
         /\ ld' = ld
         /\ view' = view \/ \E c \in Cells : Search(r, c)
         /\ idx' = idx \/ LoadIndex(r)
         /\ got' = got \/ \E c \in Cells : Search(r, c)
         /\ metadirty' = metadirty \/ WriteLog(r) \/ WriteMeta(r)
         /\ idxvalid' = idxvalid \/ WriteMeta(r) \/ LoadIndex(r)
<1> USE DEF prog, queue, flags, counters, scratch, store
<1>1. CASE \E c \in Cells, s \in Sizes : H5Dwrite(r, c, s)
  BY <1>1 DEF H5Dwrite
<1>2. CASE H5Fflush(r)
  BY <1>2 DEF H5Fflush
<1>3. CASE H5Dread(r)
  BY <1>3 DEF H5Dread
<1>4. CASE H5Fclose(r)
  BY <1>4 DEF H5Fclose
<1>5. CASE WriteLog(r)
  BY <1>5 DEF WriteLog
<1>6. CASE WriteMeta(r)
  BY <1>6 DEF WriteMeta
<1>7. CASE LoadIndex(r)
  BY <1>7 DEF LoadIndex
<1>8. CASE \E c \in Cells : Search(r, c) \/ SearchFails(r, c)
  BY <1>8 DEF Search, SearchFails
<1> QED BY <1>1, <1>2, <1>3, <1>4, <1>5, <1>6, <1>7, <1>8 DEF Step

\* Which steps of all processes do.
LEMMA CollectiveFrames ==
  ASSUME Collective \/ Reopen
  PROVE  /\ issued' = issued /\ placed' = placed /\ got' = got
         /\ md' = md \/ CreateMeta
         /\ \/ wreqs' = wreqs /\ nflushed' = nflushed /\ metadirty' = metadirty
               /\ idxvalid' = idxvalid /\ idx' = idx /\ calls' = calls
               /\ view' = view /\ fsize' = fsize
            \/ Reopen
         /\ disk' = disk /\ (ld' = ld \/ CreateLog)
<1> USE DEF prog, queue, flags, counters, scratch, store
<1>1. CASE Collective
  BY <1>1 DEF Collective, FlushNothing, CreateLog, CreateMeta, MetaBarrier, ReadAll, CloseFile
<1>2. CASE Reopen
  BY <1>2 DEF Reopen
<1> QED BY <1>1, <1>2

\* A data flush places the requests behind nflushed and leaves the others.
LEMMA WriteLogQueue ==
  ASSUME TypeOK, NEW r \in Rank, WriteLog(r)
  PROVE  /\ DOMAIN wreqs'[r] = DOMAIN wreqs[r] /\ Len(wreqs'[r]) = Len(wreqs[r])
         /\ DOMAIN wreqs[r] = 1 .. Len(wreqs[r]) /\ Len(wreqs[r]) \in Nat
         /\ nflushed[r] \in Nat
         /\ \A i \in DOMAIN wreqs[r] : /\ wreqs'[r][i].w = wreqs[r][i].w
                                       /\ wreqs'[r][i].ref = wreqs[r][i].ref
         /\ \A i \in DOMAIN wreqs[r] :
              IF i <= nflushed[r] THEN wreqs'[r][i] = wreqs[r][i] ELSE wreqs'[r][i] \in placed'
         /\ \A e \in placed' : e \in placed \/
              \E i \in DOMAIN wreqs[r] : i > nflushed[r] /\ e = wreqs'[r][i]
         /\ nflushed'[r] = Len(wreqs[r]) /\ metadirty'[r] = TRUE
         /\ \A q \in Rank : q # r => wreqs'[q] = wreqs[q] /\ nflushed'[q] = nflushed[q]
         /\ UNCHANGED <<issued, calls, md, idxvalid, idx, got>>
         /\ pc[r] = "ldwrite"
<1>1. /\ wreqs'[r] = Relocated(r) /\ nflushed'[r] = Len(wreqs[r]) /\ metadirty'[r] = TRUE
      /\ placed' = placed \cup {Relocated(r)[i] : i \in Pending(r)}
      /\ \A q \in Rank : q # r => wreqs'[q] = wreqs[q] /\ nflushed'[q] = nflushed[q]
  BY DEF WriteLog, TypeOK, DirtyAfterFlush
<1>2. /\ Len(wreqs[r]) \in Nat /\ nflushed[r] \in Nat
      /\ DOMAIN wreqs[r] = 1 .. Len(wreqs[r])
  BY PendingCount
<1>3. \A i \in DOMAIN wreqs[r] : i \in Pending(r) <=> ~(i <= nflushed[r])
  BY <1>2 DEF Pending
<1>4. Pending(r) \subseteq DOMAIN wreqs[r]
  BY PendingCount
<1>5. pc[r] = "ldwrite" /\ UNCHANGED <<issued, calls, md, idxvalid, idx, got>>
  BY DEF WriteLog, prog
<1>6. ASSUME NEW e \in placed', e \notin placed
      PROVE  \E i \in DOMAIN wreqs[r] : i > nflushed[r] /\ e = wreqs'[r][i]
  <2>1. PICK i \in Pending(r) : e = Relocated(r)[i]
    BY <1>1, <1>6
  <2> QED BY <1>1, <1>2, <1>3, <1>4, <2>1
<1> QED BY <1>1, <1>2, <1>3, <1>4, <1>5, <1>6, RelocatedFields

\* Steps that leave the queue of a process alone, or only its order.
LEMMA QueueInvKept ==
  ASSUME OrderlyInv, Orderly, QueueInv, [Next]_vars PROVE QueueInv'
<1>0. IInv /\ TypeOK /\ PcOp /\ placed \subseteq placed'
  BY PlacedGrows DEF OrderlyInv, IInv, CallsInv
<1>1. ASSUME NEW r \in Rank, nflushed'[r] <= Len(wreqs'[r]) \/
               (nflushed'[r] = nflushed[r] /\ Len(wreqs'[r]) = Len(wreqs[r])) \/ WritesOver(r)
      PROVE  nflushed'[r] <= Len(wreqs'[r]) \/ WritesOver(r)'
  BY <1>0, <1>1, OverStays DEF QueueInv, QueueOrder
<1>2. ASSUME NEW r \in Rank, Step(r) PROVE QueueInv'
  <2>1. \A q \in Rank : q # r => /\ pc'[q] = pc[q] /\ wreqs'[q] = wreqs[q]
                                 /\ nflushed'[q] = nflushed[q]
                                 /\ metadirty'[q] = metadirty[q]
    BY <1>0, <1>2, StepLocal
  <2>2. CASE \E c \in Cells, s \in Sizes : H5Dwrite(r, c, s)
    <3>1. /\ QueueIssued' /\ QueueFlushed' /\ QueueEmptied'
          /\ nflushed'[r] = nflushed[r] /\ Len(wreqs'[r]) = Len(wreqs[r]) + 1
          /\ nflushed[r] <= Len(wreqs[r])
      BY <1>0, <2>2, WriteQueueInv
    <3>2. nflushed[r] \in Nat /\ Len(wreqs[r]) \in Nat
      BY <1>0, PendingCount
    <3>3. nflushed'[r] <= Len(wreqs'[r])
      BY <3>1, <3>2
    <3>4. QueueOrder'
      BY <1>1, <2>1, <3>3 DEF QueueOrder
    <3> QED BY <3>1, <3>4 DEF QueueInv
  <2>3. CASE WriteMeta(r)
    <3>1. /\ wreqs'[r] = <<>> /\ nflushed' = nflushed /\ placed' = placed
          /\ issued' = issued /\ pc[r] = "mdwrite"
      BY <1>0, <2>3 DEF WriteMeta, TypeOK, prog
    <3>2. WritesOver(r)
      <4>1. Op(r) \in {"read", "close"} /\ ncall[r] >= 1
        BY <1>0, <3>1 DEF PcOp
      <4>2. ncall[r] \in 1 .. Len(calls)
        BY <1>0, <4>1, LenProperties DEF IInv, InCall, TypeOK
      <4> QED BY <4>1, <4>2 DEF WritesOver, Op
    <3>3. QueueOrder'
      BY <1>1, <2>1, <3>2 DEF QueueOrder
    <3>4. QueueIssued' /\ QueueFlushed'
      BY <2>1, <3>1 DEF QueueInv, QueueIssued, QueueFlushed, Placed
    <3>5. QueueEmptied'
      BY <2>1, <3>1 DEF QueueInv, QueueEmptied
    <3> QED BY <3>3, <3>4, <3>5 DEF QueueInv
  <2>4. CASE WriteLog(r)
    <3>1. /\ DOMAIN wreqs'[r] = DOMAIN wreqs[r] /\ Len(wreqs'[r]) = Len(wreqs[r])
          /\ Len(wreqs[r]) \in Nat
          /\ \A i \in DOMAIN wreqs[r] : /\ wreqs'[r][i].w = wreqs[r][i].w
                                        /\ wreqs'[r][i].ref = wreqs[r][i].ref
          /\ \A i \in DOMAIN wreqs[r] :
              IF i <= nflushed[r] THEN wreqs'[r][i] = wreqs[r][i] ELSE wreqs'[r][i] \in placed'
          /\ \A e \in placed' : e \in placed \/
              \E i \in DOMAIN wreqs[r] : i > nflushed[r] /\ e = wreqs'[r][i]
          /\ nflushed'[r] = Len(wreqs[r]) /\ metadirty'[r] = TRUE
          /\ issued' = issued
      BY <1>0, <2>4, WriteLogQueue
    <3>2. pc'[r] \in {"app", "gather"}
      BY <1>0, <2>4 DEF WriteLog, AfterFlush, TypeOK
    <3>3. nflushed'[r] <= Len(wreqs'[r])
      BY <3>1
    <3>4. QueueOrder'
      BY <1>1, <2>1, <3>3 DEF QueueOrder
    <3>5. QueueIssued'
      <4>1. \A e \in placed' : e.w \in issued
        BY <3>1 DEF QueueInv, QueueIssued, Placed
      <4> QED BY <2>1, <3>1, <4>1 DEF QueueInv, QueueIssued, Placed
    <3>6. QueueFlushed'
      BY <1>0, <2>1, <3>1 DEF QueueInv, QueueFlushed
    <3>7. QueueEmptied'
      BY <2>1, <3>2 DEF QueueInv, QueueEmptied
    <3> QED BY <3>4, <3>5, <3>6, <3>7 DEF QueueInv
  <2>5. CASE /\ StartFlush(r) /\ nflushed' = nflushed /\ placed' = placed /\ pc'[r] = "sync"
             /\ ~(\E c \in Cells, s \in Sizes : H5Dwrite(r, c, s))
             /\ ~WriteMeta(r) /\ ~WriteLog(r)
    <3>1. /\ DOMAIN wreqs'[r] = DOMAIN wreqs[r] /\ Len(wreqs'[r]) = Len(wreqs[r])
          /\ \A i \in DOMAIN wreqs[r] : /\ wreqs'[r][i].w = wreqs[r][i].w
                                        /\ wreqs'[r][i].ref = wreqs[r][i].ref
          /\ \A i \in DOMAIN wreqs[r] : i \notin Pending(r) => wreqs'[r][i] = wreqs[r][i]
      BY <1>0, <2>5, StartFlushQueue
    <3>2. \A i \in DOMAIN wreqs[r] : i <= nflushed[r] => i \notin Pending(r)
      BY <1>0, PendingCount DEF Pending
    <3>3. issued' = issued /\ metadirty' = metadirty
      BY <1>0, <1>2, <2>5, StepFrames
    <3>4. QueueOrder'
      BY <1>1, <2>1, <2>5, <3>1 DEF QueueOrder
    <3>5. QueueIssued' /\ QueueFlushed'
      BY <2>1, <2>5, <3>1, <3>2, <3>3 DEF QueueInv, QueueIssued, QueueFlushed, Placed
    <3>6. QueueEmptied'
      BY <2>1, <2>5 DEF QueueInv, QueueEmptied
    <3> QED BY <3>4, <3>5, <3>6 DEF QueueInv
  <2>6. CASE /\ wreqs' = wreqs /\ nflushed' = nflushed
             /\ ~(\E c \in Cells, s \in Sizes : H5Dwrite(r, c, s))
             /\ ~WriteMeta(r) /\ ~WriteLog(r)
    <3>1. issued' = issued /\ placed' = placed /\ metadirty' = metadirty
      BY <1>0, <1>2, <2>6, StepFrames
    <3>2. QueueOrder'
      BY <1>1, <2>6 DEF QueueOrder
    <3>3. QueueIssued' /\ QueueFlushed'
      BY <2>6, <3>1 DEF QueueInv, QueueIssued, QueueFlushed, Placed
    <3>4. pc'[r] \in {"mdbarrier", "fclose", "closed"} => wreqs[r] = <<>>
      <4>1. pc'[r] \in {"mdbarrier", "fclose", "closed"} => pc'[r] = "fclose" /\ pc[r] = "app"
        BY <1>0, <1>2, <2>6, StepMoves
      <4>2. ASSUME pc'[r] = "fclose", pc[r] = "app" PROVE session > 1
        <5>1. H5Fclose(r)
          <6>1. ASSUME H5Fflush(r) PROVE FALSE
            BY <1>0, <4>2, <6>1 DEF H5Fflush, StartFlush, TypeOK
          <6>2. ASSUME H5Dread(r) PROVE FALSE
            BY <1>0, <4>2, <6>2 DEF H5Dread, TypeOK
          <6>3. H5Fflush(r) \/ H5Dread(r) \/ H5Fclose(r)
            BY <1>0, <1>2, <4>2, OtherSteps DEF Searching
          <6> QED BY <6>1, <6>2, <6>3
        <5> QED BY <1>0, <4>2, <5>1 DEF H5Fclose, StartFlush, TypeOK
      <4> QED BY <1>0, <4>1, <4>2 DEF IInv, ReadOnly
    <3>5. QueueEmptied'
      BY <2>1, <2>6, <3>4 DEF QueueInv, QueueEmptied
    <3> QED BY <3>2, <3>3, <3>5 DEF QueueInv
  <2> QED BY <1>0, <1>2, <2>2, <2>3, <2>4, <2>5, <2>6, QueueSteps
<1>3. CASE Collective /\ ~Reopen
  <2>1. /\ issued' = issued /\ placed' = placed
        /\ wreqs' = wreqs /\ nflushed' = nflushed /\ metadirty' = metadirty
    BY <1>3, CollectiveFrames
  <2>2. QueueOrder'
    BY <1>1, <2>1 DEF QueueOrder
  <2>3. QueueIssued' /\ QueueFlushed'
    BY <2>1 DEF QueueInv, QueueIssued, QueueFlushed, Placed
  <2>4. QueueEmptied'
    BY <1>3, <2>1, CollectiveMoves DEF QueueInv, QueueEmptied, AfterFlush, AfterBarrier
  <2> QED BY <2>2, <2>3, <2>4 DEF QueueInv
<1>4. CASE Reopen
  <2>1. /\ \A q \in Rank : wreqs'[q] = <<>> /\ nflushed'[q] = 0 /\ pc'[q] = "app"
        /\ issued' = issued /\ placed' = placed
    BY <1>4 DEF Reopen, store
  <2> QED BY <2>1, EmptySeq DEF QueueInv, QueueOrder, QueueIssued, QueueFlushed, QueueEmptied,
                             Placed
<1>5. CASE Finished \/ UNCHANGED vars
  <2>1. UNCHANGED <<wreqs, nflushed, issued, placed, metadirty, pc>>
    BY <1>5 DEF Finished, vars, prog, queue, flags, store
  <2>2. QueueOrder'
    BY <1>1, <2>1 DEF QueueOrder
  <2> QED BY <2>1, <2>2 DEF QueueInv, QueueIssued, QueueFlushed, QueueEmptied, Placed
<1> QED BY <1>2, <1>3, <1>4, <1>5 DEF Next

-----------------------------------------------------------------------------
(* The metadata in the file *)

\* Between its creation and its own write a process keeps its section.
LEMMA MetaWriterKept ==
  ASSUME TypeOK, [Next]_vars, ~CreateMeta, NEW q \in Rank
  PROVE  \/ WriteMeta(q) /\ pc[q] = "mdwrite" /\ pc'[q] = "mdbarrier"
         \/ /\ pc'[q] = "mdwrite" <=> pc[q] = "mdwrite"
            /\ pc[q] = "mdwrite" => base'[q] = base[q] /\ wreqs'[q] = wreqs[q]
<1>1. ASSUME NEW r \in Rank, Step(r), r # q
      PROVE  pc'[q] = pc[q] /\ base'[q] = base[q] /\ wreqs'[q] = wreqs[q]
  BY <1>1, StepLocal
<1>2. ASSUME Step(q)
      PROVE  \/ WriteMeta(q) /\ pc[q] = "mdwrite" /\ pc'[q] = "mdbarrier"
             \/ pc'[q] # "mdwrite" /\ pc[q] # "mdwrite"
  BY <1>2, StepMoves
<1>3. ASSUME Collective \/ Reopen PROVE pc'[q] # "mdwrite" /\ pc[q] # "mdwrite"
  BY <1>3, CollectiveMoves DEF Joint, AfterFlush, AfterBarrier
<1>4. CASE Finished \/ UNCHANGED vars
  BY <1>4 DEF Finished, vars, scratch, queue
<1> QED BY <1>1, <1>2, <1>3, <1>4 DEF Next

\* A unit that no process is about to write stays so.
LEMMA ClearKept ==
  ASSUME TypeOK, [Next]_vars, ~CreateMeta, NEW x, Clear(x) PROVE Clear(x)'
<1> SUFFICES ASSUME NEW q \in Rank, pc'[q] = "mdwrite"
             PROVE  x \notin base'[q] .. base'[q] + (TableSize(q) + Len(wreqs'[q])) - 1
  BY DEF Clear, TableSize
<1>1. pc[q] = "mdwrite" /\ base'[q] = base[q] /\ wreqs'[q] = wreqs[q]
  BY MetaWriterKept
<1> QED BY <1>1 DEF Clear

\* Where the newest metadata dataset and its writers lie.
LEMMA NewestMeta ==
  ASSUME IInv, Layout, NEW r \in Rank, pc[r] = "mdwrite", NEW k \in DOMAIN md
  PROVE  /\ Len(md) \in DOMAIN md /\ Len(md) \in Nat /\ DOMAIN md = 1 .. Len(md)
         /\ md[k].doff \in Nat /\ End(md[k]) \in Nat /\ md[k].size \in Nat
         /\ End(md[k]) = md[k].doff + md[k].size
         /\ md[Len(md)].doff \in Nat /\ base[r] \in Nat
         /\ md[Len(md)].doff <= base[r]
         /\ k # Len(md) => End(md[k]) <= base[r]
         /\ k = Len(md) /\ md[k].plain => view[r] = Plain
<1>1. MetaWriter(r) /\ base[r] \in Nat
  BY DEF Layout, Writers, IInv, TypeOK
<1>2. Len(md) \in DOMAIN md /\ NewMeta = md[Len(md)]
  BY <1>1 DEF MetaWriter, NewMeta
<1>3. /\ md[k].doff \in Nat /\ End(md[k]) \in Nat /\ md[k].size \in Nat
      /\ md[Len(md)].doff \in Nat /\ Len(md) \in Nat /\ DOMAIN md = 1 .. Len(md)
  BY <1>2, DatasetTypes DEF IInv
<1>4. md[Len(md)].doff <= base[r] /\ (md[Len(md)].plain => view[r] = Plain)
  BY <1>1, <1>2 DEF MetaWriter
<1>5. ASSUME k # Len(md) PROVE End(md[k]) <= base[r]
  <2>1. End(md[k]) <= md[Len(md)].doff
    BY <1>2, <1>3, <1>5 DEF Layout, FileOrder, Ordered
  <2> QED BY <1>1, <1>3, <1>4, <2>1
<1> QED BY <1>1, <1>2, <1>3, <1>4, <1>5 DEF End

\* What a process writes as metadata changes no unit that is clear.
LEMMA WriteMetaClear ==
  ASSUME IInv, Layout, NEW r \in Rank, WriteMeta(r), NEW k \in DOMAIN md, NEW x \in Nat,
         md[k].plain, Clear(x), x < End(md[k])
  PROVE  UnitAt(x)' = UnitAt(x)
<1>1. pc[r] = "mdwrite" /\ disk' = Written(r, base[r], SectionOf(r))
  BY DEF WriteMeta
<1>2. /\ DOMAIN SectionOf(r) = 0 .. TableSize(r) + Len(wreqs[r]) - 1
      /\ DOMAIN SectionOf(r) \subseteq Nat /\ TableSize(r) \in Nat /\ Len(wreqs[r]) \in Nat
      /\ base[r] \in Nat
  BY <1>1, SectionUnits DEF IInv, TypeOK
<1>3. CASE k # Len(md)
  <2>1. End(md[k]) \in Nat /\ End(md[k]) <= base[r]
    BY <1>1, <1>3, NewestMeta
  <2>2. x < base[r]
    BY <1>2, <2>1
  <2> QED BY <1>1, <1>2, <2>2, WrittenUnits
<1>4. CASE k = Len(md)
  <2>1. view[r] = Plain
    BY <1>1, <1>4, NewestMeta
  <2>2. x \notin base[r] .. base[r] + (TableSize(r) + Len(wreqs[r])) - 1
    BY <1>1 DEF Clear
  <2> DEFINE t == TableSize(r)  n == Len(wreqs[r])
  <2>3. /\ t \in Nat /\ n \in Nat /\ DOMAIN SectionOf(r) = 0 .. t + n - 1
        /\ x \notin base[r] .. base[r] + (t + n) - 1
    BY <1>2, <2>2
  <2> HIDE DEF t, n
  <2>4. x - base[r] \notin DOMAIN SectionOf(r)
    BY <1>2, <2>3
  <2> QED BY <1>1, <1>2, <2>1, <2>4, WrittenUnits
<1> QED BY <1>3, <1>4

\* A block of data changes no unit of a metadata dataset.
LEMMA WriteLogClear ==
  ASSUME IInv, Layout, NEW r \in Rank, WriteLog(r), NEW k \in DOMAIN md, NEW x \in Nat,
         x < End(md[k])
  PROVE  UnitAt(x)' = UnitAt(x)
<1>1. pc[r] = "ldwrite" /\ disk' = Written(r, base[r], mtype[r])
  BY DEF WriteLog
<1>2. LogWriter(r) /\ base[r] \in Nat /\ mtype[r] \in [0 .. fsize[r] - 1 -> Write]
      /\ fsize[r] \in Nat
  BY <1>1 DEF Layout, Writers, IInv, TypeOK
<1>3. DOMAIN mtype[r] = 0 .. fsize[r] - 1 /\ DOMAIN mtype[r] \subseteq Nat
  BY <1>2
<1>4. End(md[k]) <= NewLog.doff /\ NewLog.doff <= base[r] /\ Len(ld) \in DOMAIN ld
  BY <1>2 DEF LogWriter
<1>5. End(md[k]) \in Nat /\ NewLog.doff \in Nat
  BY <1>4, DatasetTypes DEF IInv, NewLog
<1>6. x < base[r]
  BY <1>2, <1>4, <1>5
<1> QED BY <1>1, <1>2, <1>3, <1>6, WrittenUnits

\* What has been written as metadata stays.
LEMMA MetaUnitStays ==
  ASSUME IInv, Layout, [Next]_vars, NEW k \in DOMAIN md, NEW x \in Nat, MetaUnit(k, x)
  PROVE  k \in DOMAIN md' /\ MetaUnit(k, x)' /\ UnitAt(x)' = UnitAt(x)
<1>0. TypeOK /\ End(md[k]) \in Nat /\ End(md[k]) <= eof /\ eof \in Nat
  BY DatasetTypes DEF IInv, TypeOK, Layout, FileOrder, InFile
<1>1. /\ md[k].plain /\ Clear(x) /\ md[k].doff + (NP + 1) <= x /\ x < End(md[k])
  BY DEF MetaUnit
<1>2. k \in DOMAIN md' /\ md'[k] = md[k]
  BY MetaGrows
<1>3. UnitAt(x)' = UnitAt(x)
  <2>1. CASE disk' = disk
    BY <2>1 DEF UnitAt
  <2>2. ASSUME NEW r \in Rank, WriteLog(r) PROVE UnitAt(x)' = UnitAt(x)
    BY <1>1, <2>2, WriteLogClear
  <2>3. ASSUME NEW r \in Rank, WriteMeta(r) PROVE UnitAt(x)' = UnitAt(x)
    BY <1>1, <2>3, WriteMetaClear
  <2>4. Finished \/ UNCHANGED vars => disk' = disk
    BY DEF Finished, vars, store
  <2> QED BY <1>0, <2>1, <2>2, <2>3, <2>4, StepFrames, CollectiveFrames DEF Next
<1>4. Clear(x)'
  <2>1. CASE ~CreateMeta
    BY <1>0, <1>1, <2>1, ClearKept
  <2>2. CASE CreateMeta
    <3>1. PICK p \in Scans(NP) : base' = [r \in Rank |-> eof + p[r]]
      BY <2>2 DEF CreateMeta
    <3> SUFFICES ASSUME NEW q \in Rank
                 PROVE  x \notin base'[q] .. base'[q] + (TableSize(q) + Len(wreqs'[q])) - 1
      BY DEF Clear, TableSize
    <3>2. p[q] \in Nat /\ base'[q] = eof + p[q]
      <4>1. p \in [0 .. NP -> Nat] /\ q \in 0 .. NP
        BY <1>0, CreateScan, Constants DEF Rank
      <4> QED BY <3>1, <4>1
    <3>3. x < base'[q] /\ base'[q] \in Nat
      BY <1>0, <1>1, <3>2
    <3> QED BY <3>3
  <2> QED BY <2>1, <2>2
<1>5. MetaUnit(k, x)'
  BY <1>1, <1>2, <1>4 DEF MetaUnit, End
<1> QED BY <1>2, <1>3, <1>5

\* Metadata that was not there before is what a process writes in this step.
LEMMA MetaUnitNew ==
  ASSUME IInv, Layout, MetaCut, [Next]_vars, NEW k \in DOMAIN md', NEW x \in Nat,
         MetaUnit(k, x)'
  PROVE  \/ k \in DOMAIN md /\ MetaUnit(k, x)
         \/ \E r \in Rank : WriteMeta(r) /\ \E i \in DOMAIN wreqs[r] : UnitAt(x)' = wreqs[r][i]
<1>0. TypeOK
  BY DEF IInv
<1>1. CASE CreateMeta
  <2>1. PICK p \in Scans(NP) :
          /\ IsScan(p, MetaSizes)
          /\ base' = [r \in Rank |-> eof + p[r]]
          /\ md' = Append(md, [names |-> {nmdset[r] : r \in Rank}, doff |-> eof,
                               size |-> p[NP], plain |-> AllPlain])
          /\ pc' = [r \in Rank |-> "mdwrite"] /\ wreqs' = wreqs
    BY <1>1 DEF CreateMeta, queue
  <2>2. p \in [0 .. NP -> Nat] /\ p[NP] \in Nat /\ eof \in Nat
    BY CreateScan
  <2> DEFINE d == [names |-> {nmdset[r] : r \in Rank}, doff |-> eof, size |-> p[NP],
                   plain |-> AllPlain]
  <2>3. /\ Len(md) \in Nat /\ DOMAIN md = 1 .. Len(md) /\ DOMAIN md' = 1 .. Len(md) + 1
        /\ md'[Len(md) + 1] = d
    <3>1. md \in Seq(Dataset) /\ md' \in Seq(Dataset)
      BY <1>0, <1>1, CreateMetaIInv DEF IInv, TypeOK
    <3>2. Len(md) \in Nat /\ DOMAIN md = 1 .. Len(md) /\ DOMAIN md' = 1 .. Len(md')
          /\ md' = Append(md, d)
      BY <2>1, <3>1, LenProperties
    <3> HIDE DEF d
    <3> QED BY <3>1, <3>2
  <2>4. CASE k \in DOMAIN md
    <3>1. md'[k] = md[k]
      BY <2>4, MetaGrows
    <3>2. Clear(x)
      BY <1>1 DEF CreateMeta, Clear
    <3> QED BY <2>4, <3>1, <3>2 DEF MetaUnit, End
  <2>5. CASE k \notin DOMAIN md
    <3>1. k = Len(md) + 1 /\ md'[k].doff = eof /\ md'[k].size = p[NP]
      BY <2>3, <2>5
    <3>2. Clear(x)' /\ eof + (NP + 1) <= x /\ x < eof + p[NP]
      BY <3>1 DEF MetaUnit, End
    <3>3. x - eof \in 0 .. p[NP] - 1 /\ NP \in Nat
      BY <2>2, <3>2, Constants
    <3>4. p[0] = 0
      BY <2>1 DEF IsScan
    <3>5. PICK i \in 1 .. NP : p[i - 1] <= x - eof /\ x - eof < p[i]
      BY <2>2, <3>3, <3>4, ScanCovers
    <3> DEFINE q == i - 1
    <3>6. q \in Rank /\ q + 1 = i
      BY <3>3 DEF Rank
    <3> HIDE DEF q
    <3> DEFINE z == TableSize(q) + Len(wreqs[q])
    <3>7. p[q] \in Nat /\ z \in Nat /\ p[i] = p[q] + z /\ p[q] <= x - eof /\ x - eof < p[i]
      BY <2>1, <2>2, <3>5, <3>6, MetaScan DEF q
    <3>8. base'[q] = eof + p[q] /\ pc'[q] = "mdwrite" /\ wreqs'[q] = wreqs[q]
      BY <2>1, <3>6
    <3>9. x \notin base'[q] .. base'[q] + z - 1
      BY <3>2, <3>6, <3>8 DEF Clear, TableSize
    <3> HIDE DEF z
    <3>10. x \in eof + p[q] .. (eof + p[q]) + z - 1
      BY <2>2, <3>7
    <3> QED BY <3>8, <3>9, <3>10
  <2> QED BY <2>4, <2>5
<1>2. CASE ~CreateMeta
  <2>1. md' = md /\ k \in DOMAIN md
    BY <1>2, MetaGrows
  <2>2. /\ md[k].plain /\ Clear(x)' /\ md[k].doff + (NP + 1) <= x /\ x < End(md[k])
    BY <2>1 DEF MetaUnit, End
  <2>3. CASE Clear(x)
    BY <2>1, <2>2, <2>3 DEF MetaUnit
  <2>4. CASE ~Clear(x)
    <3>1. PICK q \in Rank : /\ pc[q] = "mdwrite"
                            /\ x \in base[q] .. base[q] + (TableSize(q) + Len(wreqs[q])) - 1
      BY <2>4 DEF Clear
    <3>2. WriteMeta(q)
      <4>1. CASE pc'[q] = "mdwrite" /\ base'[q] = base[q] /\ wreqs'[q] = wreqs[q]
        BY <2>2, <3>1, <4>1 DEF Clear, TableSize
      <4> QED BY <1>0, <1>2, <3>1, <4>1, MetaWriterKept
    <3>3. disk' = Written(q, base[q], SectionOf(q))
      BY <3>2 DEF WriteMeta
    <3>4. /\ DOMAIN SectionOf(q) = 0 .. TableSize(q) + Len(wreqs[q]) - 1
          /\ DOMAIN SectionOf(q) \subseteq Nat /\ TableSize(q) \in Nat /\ Len(wreqs[q]) \in Nat
          /\ base[q] \in Nat
      BY <3>1, SectionUnits DEF IInv, TypeOK
    <3>5. k = Len(md)
      <4>1. k # Len(md) => End(md[k]) <= base[q] /\ End(md[k]) \in Nat
        BY <2>1, <3>1, NewestMeta
      <4> QED BY <2>2, <3>1, <3>4, <4>1
    <3>6. view[q] = Plain /\ md[k].doff \in Nat
      BY <2>1, <2>2, <3>1, <3>5, NewestMeta
    <3>7. PICK p \in Scans(NP) : Cut(k, p)
      BY <2>1, <2>2 DEF MetaCut
    <3>8. base[q] = md[k].doff + p[q] /\ p[q] \in Nat /\ (q = 0 => p[q] = 0)
      <4>1. Writing(k, q)
        BY <3>1, <3>5 DEF Writing
      <4> QED BY <3>7, <4>1, SectionsOrdered DEF Cut, Section
    <3> DEFINE t == TableSize(q)  n == Len(wreqs[q])  j == x - base[q]
    <3>9. /\ t \in Nat /\ n \in Nat /\ j \in 0 .. t + n - 1 /\ j \in DOMAIN SectionOf(q)
          /\ j >= t
      <4>1. t \in Nat /\ n \in Nat /\ x \in base[q] .. base[q] + (t + n) - 1
            /\ DOMAIN SectionOf(q) = 0 .. t + n - 1
        BY <3>1, <3>4
      <4>2. t = IF q = 0 THEN NP + 1 ELSE 0
        BY DEF TableSize
      <4> HIDE DEF t, n
      <4>3. j \in 0 .. t + n - 1
        BY <3>4, <4>1
      <4>4. j >= t
        BY <2>2, <3>4, <3>6, <3>8, <4>1, <4>2, Constants
      <4> QED BY <4>1, <4>3, <4>4
    <3>10. UnitAt(x)' = SectionOf(q)[j]
      <4>1. UnitAt(x)' = IF x - base[q] \in DOMAIN SectionOf(q) THEN SectionOf(q)[x - base[q]]
                                                                ELSE UnitAt(x)
        BY <3>3, <3>4, <3>6, WrittenUnits
      <4> QED BY <3>9, <4>1
    <3>11. SectionOf(q)[j] = wreqs[q][j - t + 1]
      BY <3>9 DEF SectionOf
    <3>12. j - t + 1 \in DOMAIN wreqs[q]
      <4>1. DOMAIN wreqs[q] = 1 .. n
        BY <1>0, PendingCount
      <4> HIDE DEF t, n, j
      <4> QED BY <3>9, <4>1
    <3> QED BY <3>2, <3>10, <3>11, <3>12
  <2> QED BY <2>3, <2>4
<1> QED BY <1>1, <1>2

\* A process adds the entries of its queue to the metadata of the file.
LEMMA WriteMetaAdds ==
  ASSUME IInv, Layout, MetaCut, NEW r \in Rank, WriteMeta(r), NEW i \in DOMAIN wreqs[r],
         md[Len(md)].plain, NEW e, e = wreqs[r][i]
  PROVE  InMeta(e)'
<1>1. /\ pc[r] = "mdwrite" /\ disk' = Written(r, base[r], SectionOf(r)) /\ md' = md
      /\ TypeOK
  BY DEF WriteMeta, IInv
<1>2. PICK k : k = Len(md) /\ k \in DOMAIN md
  <2>1. MetaWriter(r)
    BY <1>1 DEF Layout, Writers
  <2> QED BY <2>1 DEF MetaWriter
<1>3. md[k].plain /\ md[k].doff \in Nat /\ view[r] = Plain /\ base[r] \in Nat
      /\ End(md[k]) = md[k].doff + md[k].size
  BY <1>1, <1>2, NewestMeta
<1>4. PICK p \in Scans(NP) : Cut(k, p)
  BY <1>2, <1>3 DEF MetaCut
<1>5. ASSUME NEW q \in Rank, pc[q] = "mdwrite"
      PROVE  /\ base[q] = md[k].doff + p[q] /\ p[q + 1] = First(p, q) + Len(wreqs[q])
             /\ p[q] \in Nat /\ p[q + 1] \in Nat /\ First(p, q) = p[q] + TableSize(q)
             /\ TableSize(q) \in Nat /\ Len(wreqs[q]) \in Nat
  <2>1. Writing(k, q)
    BY <1>2, <1>5 DEF Writing
  <2>2. TableSize(q) \in Nat /\ Len(wreqs[q]) \in Nat
    BY <1>5, SectionUnits
  <2> QED BY <1>4, <2>1, <2>2, SectionsOrdered DEF Cut, Section, First
<1> DEFINE t == TableSize(r)  n == Len(wreqs[r])
<1>6. /\ base[r] = md[k].doff + p[r] /\ p[r + 1] = (p[r] + t) + n /\ p[r] \in Nat
      /\ t \in Nat /\ n \in Nat /\ i \in 1 .. n /\ p[r + 1] \in Nat
      /\ First(p, r) = p[r] + t /\ p[r + 1] <= p[NP] /\ p[NP] \in Nat /\ p[NP] = md[k].size
  <2>1. DOMAIN wreqs[r] = 1 .. n
    BY <1>1, PendingCount
  <2> QED BY <1>1, <1>4, <1>5, <2>1, SectionsOrdered DEF Cut
<1>7. p[r] + t >= NP + 1
  <2>1. 0 \in Rank /\ NP \in Nat /\ r \in Nat
    BY Constants
  <2>2. CASE r = 0
    BY <1>4, <1>6, <2>1, <2>2, SectionsOrdered
  <2>3. CASE r # 0
    <3>1. First(p, 0) = NP + 1 /\ First(p, 0) <= p[0 + 1] /\ p[0 + 1] <= p[r]
          /\ p[0 + 1] \in Nat
      BY <1>4, <2>1, <2>3, SectionsOrdered
    <3> QED BY <1>6, <2>1, <3>1
  <2> QED BY <2>2, <2>3
<1>8. DOMAIN SectionOf(r) = 0 .. t + n - 1 /\ DOMAIN SectionOf(r) \subseteq Nat
  BY <1>1, SectionUnits
<1>9. t + i - 1 \in DOMAIN SectionOf(r) /\ SectionOf(r)[t + i - 1] = wreqs[r][i]
  <2>1. t + i - 1 \in 0 .. t + n - 1 /\ ~(t + i - 1 < t) /\ (t + i - 1) - t + 1 = i
    <3> HIDE DEF t, n
    <3> QED BY <1>6
  <2>2. SectionOf(r)[t + i - 1] = wreqs[r][(t + i - 1) - t + 1]
    BY <2>1 DEF SectionOf
  <2> QED BY <1>8, <2>1, <2>2
<1>10. PICK x \in Nat : x = (md[k].doff + p[r]) + (t + i - 1)
  <2> HIDE DEF t, n
  <2> QED BY <1>3, <1>6
<1> HIDE DEF t, n
<1>11. x - base[r] = t + i - 1 /\ md[k].doff + (NP + 1) <= x /\ x < md[k].doff + p[r + 1]
       /\ x < End(md[k]) /\ md[k].doff + p[r] <= x
  <2>1. PICK a, b \in Nat : a = md[k].doff /\ b = p[r]
    BY <1>3, <1>6
  <2>2. PICK c, d \in Nat : c = p[r + 1] /\ d = p[NP]
    BY <1>6
  <2>3. /\ base[r] = a + b /\ c = (b + t) + n /\ c <= d /\ End(md[k]) = a + d
        /\ b + t >= NP + 1 /\ x = (a + b) + (t + i - 1) /\ i \in 1 .. n
    BY <1>3, <1>6, <1>7, <1>10, <2>1, <2>2
  <2>4. NP \in Nat /\ t \in Nat /\ n \in Nat
    BY <1>6, Constants
  <2>5. /\ x - base[r] = t + i - 1 /\ a + (NP + 1) <= x /\ x < a + c /\ x < a + d
        /\ a + b <= x
    BY <2>3, <2>4
  <2> QED BY <2>1, <2>2, <2>3, <2>5
<1>12. UnitAt(x)' = wreqs[r][i]
  <2>1. UnitAt(x)' = IF x - base[r] \in DOMAIN SectionOf(r) THEN SectionOf(r)[x - base[r]]
                                                            ELSE UnitAt(x)
    BY <1>1, <1>3, <1>8, WrittenUnits
  <2> QED BY <1>9, <1>11, <2>1
<1>13. Clear(x)'
  <2> SUFFICES ASSUME NEW q \in Rank, pc'[q] = "mdwrite"
               PROVE  x \notin base'[q] .. base'[q] + (TableSize(q) + Len(wreqs'[q])) - 1
    BY DEF Clear, TableSize
  <2>1. /\ q # r /\ pc[q] = "mdwrite" /\ base'[q] = base[q] /\ wreqs'[q] = wreqs[q]
    BY <1>1 DEF WriteMeta, AfterMeta, TypeOK
  <2> DEFINE z == TableSize(q) + Len(wreqs[q])
  <2>2. base[q] = md[k].doff + p[q] /\ p[q + 1] = p[q] + z /\ p[q] \in Nat /\ z \in Nat
        /\ p[q + 1] \in Nat
    <3>1. /\ base[q] = md[k].doff + p[q] /\ p[q + 1] = First(p, q) + Len(wreqs[q])
          /\ p[q] \in Nat /\ p[q + 1] \in Nat /\ First(p, q) = p[q] + TableSize(q)
          /\ TableSize(q) \in Nat /\ Len(wreqs[q]) \in Nat
      BY <1>5, <2>1
    <3> QED BY <3>1
  <2> HIDE DEF z
  <2>3. p[q + 1] <= p[r] \/ p[r + 1] <= p[q]
    <3>1. q < r \/ r < q
      BY <2>1, Constants
    <3> QED BY <1>4, <3>1, SectionsOrdered
  <2>4. x \notin base[q] .. base[q] + z - 1
    <3>1. PICK a, b, c \in Nat : a = md[k].doff /\ b = p[r] /\ c = p[r + 1]
      BY <1>3, <1>6
    <3>2. PICK f, g \in Nat : f = p[q] /\ g = p[q + 1]
      BY <2>2
    <3>3. /\ base[q] = a + f /\ g = f + z /\ a + b <= x /\ x < a + c
          /\ g <= b \/ c <= f
      BY <1>11, <2>2, <2>3, <3>1, <3>2
    <3> QED BY <2>2, <3>3
  <2> QED BY <2>1, <2>4 DEF z
<1>14. MetaUnit(k, x)'
  BY <1>1, <1>3, <1>11, <1>13 DEF MetaUnit, End
<1>15. k \in DOMAIN md'
  BY <1>1, <1>2
<1>16. \E y \in DOMAIN md' : \E z \in Nat : MetaUnit(y, z)' /\ UnitAt(z)' = e
  BY <1>12, <1>14, <1>15
<1> QED BY <1>16 DEF InMeta

\* What is in the metadata of the file stays there.
LEMMA MetaStays ==
  ASSUME IInv, Layout, [Next]_vars, NEW e, InMeta(e) PROVE InMeta(e)'
<1>1. PICK k \in DOMAIN md, x \in Nat : MetaUnit(k, x) /\ UnitAt(x) = e
  BY DEF InMeta
<1>2. k \in DOMAIN md' /\ MetaUnit(k, x)' /\ UnitAt(x)' = UnitAt(x)
  BY <1>1, MetaUnitStays
<1>3. \E y \in DOMAIN md' : \E z \in Nat : MetaUnit(y, z)' /\ UnitAt(z)' = e
  BY <1>1, <1>2
<1> QED BY <1>3 DEF InMeta

\* When a process flushes its metadata, the data of its queue is in the file.
LEMMA FlushedBeforeMeta ==
  ASSUME OrderlyInv, QueueInv, NEW r \in Rank, pc[r] = "mdwrite"
  PROVE  \A i \in DOMAIN wreqs[r] :
           /\ wreqs[r][i] \in Entry /\ wreqs[r][i] \in placed /\ ~wreqs[r][i].ref
           /\ i <= nflushed[r]
<1>1. Len(wreqs[r]) <= nflushed[r]
  BY DEF OrderlyInv, CallsInv, Clean
<1>2. /\ Len(wreqs[r]) \in Nat /\ nflushed[r] \in Nat
      /\ DOMAIN wreqs[r] = 1 .. Len(wreqs[r])
      /\ \A i \in DOMAIN wreqs[r] : wreqs[r][i] \in Entry
  BY PendingCount DEF OrderlyInv, IInv
<1>3. \A i \in DOMAIN wreqs[r] : i <= nflushed[r]
  BY <1>1, <1>2
<1> QED BY <1>2, <1>3 DEF QueueInv, QueueFlushed, QueueIssued

\* A process with requests to flush writes them into a dataset created under
\* plain views.
LEMMA QueuedPlain ==
  ASSUME OrderlyInv, LastMeta, NEW r \in Rank, WriteMeta(r), NEW i \in DOMAIN wreqs[r]
  PROVE  md[Len(md)].plain
<1>1. pc[r] = "mdwrite"
  BY DEF WriteMeta
<1>2. Len(md) \in DOMAIN md
  BY <1>1 DEF OrderlyInv, Layout, Writers, MetaWriter
<1>3. wreqs[r] # <<>>
  OBVIOUS
<1> QED BY <1>2, <1>3 DEF LastMeta

\* The metadata in the file is that of requests placed before.
LEMMA MetaPlacedKept ==
  ASSUME OrderlyInv, QueueInv, MetaPlaced, [Next]_vars PROVE MetaPlaced'
<1>0. IInv /\ Layout /\ MetaCut /\ placed \subseteq placed'
  BY PlacedGrows DEF OrderlyInv, IndexInv
<1> SUFFICES ASSUME NEW k \in DOMAIN md', NEW x \in Nat, MetaUnit(k, x)'
             PROVE  UnitAt(x)' \in placed'
  BY DEF MetaPlaced
<1>1. CASE k \in DOMAIN md /\ MetaUnit(k, x)
  <2>1. UnitAt(x)' = UnitAt(x)
    BY <1>0, <1>1, MetaUnitStays
  <2> QED BY <1>0, <1>1, <2>1 DEF MetaPlaced
<1>2. ASSUME NEW r \in Rank, WriteMeta(r), NEW i \in DOMAIN wreqs[r], UnitAt(x)' = wreqs[r][i]
      PROVE  UnitAt(x)' \in placed'
  <2>1. pc[r] = "mdwrite"
    BY <1>2 DEF WriteMeta
  <2>2. wreqs[r][i] \in placed
    BY <1>2, <2>1, FlushedBeforeMeta
  <2> QED BY <1>0, <1>2, <2>2
<1> QED BY <1>0, <1>1, <1>2, MetaUnitNew

\* What one step does to the queue of any process: its writes stay, or the
\* queue is written to the metadata of the file, or it is empty.
LEMMA QueueFate ==
  ASSUME OrderlyInv, QueueInv, [Next]_vars, NEW r \in Rank
  PROVE  \/ \A i \in DOMAIN wreqs[r] :
              /\ i \in DOMAIN wreqs'[r] /\ wreqs'[r][i].w = wreqs[r][i].w
              /\ i <= nflushed[r] => i <= nflushed'[r] /\ wreqs'[r][i] = wreqs[r][i]
         \/ WriteMeta(r)
         \/ wreqs[r] = <<>>
<1>0. IInv /\ TypeOK
  BY DEF OrderlyInv, IInv
<1>1. ASSUME wreqs'[r] = wreqs[r], nflushed'[r] = nflushed[r]
      PROVE  \A i \in DOMAIN wreqs[r] :
               /\ i \in DOMAIN wreqs'[r] /\ wreqs'[r][i].w = wreqs[r][i].w
               /\ i <= nflushed[r] => i <= nflushed'[r] /\ wreqs'[r][i] = wreqs[r][i]
  BY <1>1
<1>2. CASE \E q \in Rank : q # r /\ Step(q)
  BY <1>0, <1>1, <1>2, StepLocal
<1>3. CASE Step(r)
  <2>1. CASE \E c \in Cells, s \in Sizes : H5Dwrite(r, c, s)
    <3>1. /\ nflushed' = nflushed
          /\ \A i \in DOMAIN wreqs[r] : i \in DOMAIN wreqs'[r] /\ wreqs'[r][i] = wreqs[r][i]
      <4>1. TypeOK /\ PcOp
        BY <1>0 DEF OrderlyInv, CallsInv
      <4>2. PICK c \in Cells, s \in Sizes : H5Dwrite(r, c, s)
        BY <2>1
      <4>3. nflushed' = nflushed
        BY <4>2 DEF H5Dwrite
      <4>4. \E e : wreqs'[r] = Append(wreqs[r], e)
        BY <4>1, <4>2 DEF H5Dwrite, TypeOK
      <4>5. PICK e : wreqs'[r] = Append(wreqs[r], e)
        BY <4>4
      <4>6. wreqs[r] \in Seq(Entry)
        BY <4>1 DEF TypeOK
      <4>7. /\ Len(wreqs[r]) \in Nat /\ DOMAIN wreqs[r] = 1 .. Len(wreqs[r])
        BY <4>6, LenProperties
      <4>8. Append(wreqs[r], e) = [i \in 1 .. Len(wreqs[r]) + 1 |->
                                     IF i <= Len(wreqs[r]) THEN wreqs[r][i] ELSE e]
        BY <4>6
      <4> QED BY <4>3, <4>5, <4>7, <4>8
    <3> QED BY <3>1
  <2>2. CASE StartFlush(r) /\ nflushed' = nflushed
    <3>1. \A i \in DOMAIN wreqs[r] : i <= nflushed[r] => i \notin Pending(r)
      BY <1>0, PendingCount DEF Pending
    <3> QED BY <1>0, <2>2, <3>1, StartFlushQueue
  <2>3. CASE WriteLog(r)
    <3>1. /\ DOMAIN wreqs'[r] = DOMAIN wreqs[r]
          /\ DOMAIN wreqs[r] = 1 .. Len(wreqs[r])
          /\ \A i \in DOMAIN wreqs[r] : /\ wreqs'[r][i].w = wreqs[r][i].w
          /\ \A i \in DOMAIN wreqs[r] :
              IF i <= nflushed[r] THEN wreqs'[r][i] = wreqs[r][i] ELSE wreqs'[r][i] \in placed'
          /\ nflushed'[r] = Len(wreqs[r]) /\ Len(wreqs[r]) \in Nat
      BY <1>0, <2>3, WriteLogQueue
    <3> QED BY <3>1
  <2> QED BY <1>0, <1>1, <1>3, <2>1, <2>2, <2>3, QueueSteps
<1>4. CASE Collective
  BY <1>1, <1>4 DEF Collective, FlushNothing, CreateLog, CreateMeta, MetaBarrier, ReadAll,
                    CloseFile, queue
<1>5. CASE Reopen
  BY <1>5 DEF Reopen, QueueInv, QueueEmptied
<1>6. CASE Finished \/ UNCHANGED vars
  BY <1>1, <1>6 DEF Finished, vars, queue
<1> QED BY <1>2, <1>3, <1>4, <1>5, <1>6 DEF Next

\* Every write stays queued until it is in the file with its metadata.
LEMMA LedgerKept ==
  ASSUME OrderlyInv, Orderly, QueueInv, LastMeta, Ledger, [Next]_vars PROVE Ledger'
<1>0. IInv /\ TypeOK /\ Layout /\ MetaCut /\ PcOp /\ placed \subseteq placed'
  BY PlacedGrows DEF OrderlyInv, IInv, IndexInv, CallsInv
<1>1. ASSUME NEW w \in issued
      PROVE  \/ \E i \in DOMAIN wreqs'[w.rank] : wreqs'[w.rank][i].w = w
             \/ \E e \in placed' : InMeta(e)' /\ e.w = w /\ ~e.ref
  <2>1. w.rank \in Rank
    BY <1>0 DEF TypeOK, Write
  <2>2. CASE \E i \in DOMAIN wreqs[w.rank] : wreqs[w.rank][i].w = w
    <3>1. PICK i \in DOMAIN wreqs[w.rank] : wreqs[w.rank][i].w = w
      BY <2>2
    <3>2. CASE WriteMeta(w.rank)
      <4>1. pc[w.rank] = "mdwrite"
        BY <3>2 DEF WriteMeta
      <4>2. wreqs[w.rank][i] \in Entry /\ wreqs[w.rank][i] \in placed /\ ~wreqs[w.rank][i].ref
        BY <2>1, <4>1, FlushedBeforeMeta
      <4>5. PICK e : e = wreqs[w.rank][i]
        OBVIOUS
      <4>3. InMeta(e)'
        BY <1>0, <2>1, <3>2, <4>5, QueuedPlain, WriteMetaAdds
      <4>4. e \in placed' /\ InMeta(e)' /\ e.w = w /\ ~e.ref
        BY <1>0, <3>1, <4>2, <4>3, <4>5
      <4> QED BY <4>4
    <3>3. CASE wreqs[w.rank] = <<>>
      BY <3>1, <3>3
    <3> QED BY <2>1, <3>1, <3>2, <3>3, QueueFate
  <2>3. CASE \E e \in placed : InMeta(e) /\ e.w = w /\ ~e.ref
    <3>1. PICK e \in placed : InMeta(e) /\ e.w = w /\ ~e.ref
      BY <2>3
    <3>2. InMeta(e)'
      BY <1>0, <3>1, MetaStays DEF TypeOK
    <3> QED BY <1>0, <3>1, <3>2
  <2> QED BY <2>2, <2>3 DEF Ledger
<1>2. CASE issued' = issued
  BY <1>1, <1>2 DEF Ledger
<1>3. ASSUME NEW r \in Rank, NEW c \in Cells, NEW s \in Sizes, H5Dwrite(r, c, s)
      PROVE  Ledger'
  <2>1. \E w \in Write : /\ w.rank = r /\ issued' = issued \cup {w}
                         /\ Len(wreqs'[r]) \in DOMAIN wreqs'[r]
                         /\ wreqs'[r][Len(wreqs'[r])].w = w
    BY <1>0, <1>3, WriteQueueInv
  <2> QED BY <1>1, <2>1 DEF Ledger
<1>4. CASE Finished \/ UNCHANGED vars
  BY <1>2, <1>4 DEF Finished, vars, prog
<1> QED BY <1>0, <1>2, <1>3, <1>4, StepFrames, CollectiveFrames DEF Next

\* The metadata of flushed data stays queued until it is in the file.
LEMMA KeptKept ==
  ASSUME OrderlyInv, Orderly, QueueInv, LastMeta, Kept, [Next]_vars PROVE Kept'
<1>0. IInv /\ TypeOK /\ Layout /\ MetaCut
  BY DEF OrderlyInv, IInv, IndexInv
<1>1. ASSUME NEW e \in placed
      PROVE  \/ \E r \in Rank : \E i \in DOMAIN wreqs'[r] :
                  i <= nflushed'[r] /\ wreqs'[r][i] = e
             \/ InMeta(e)'
  <2>1. e \in Entry
    BY <1>0 DEF TypeOK
  <2>2. CASE \E r \in Rank : \E i \in DOMAIN wreqs[r] : i <= nflushed[r] /\ wreqs[r][i] = e
    <3>1. PICK r \in Rank : \E i \in DOMAIN wreqs[r] : i <= nflushed[r] /\ wreqs[r][i] = e
      BY <2>2
    <3>2. PICK i \in DOMAIN wreqs[r] : i <= nflushed[r] /\ wreqs[r][i] = e
      BY <3>1
    <3>3. CASE WriteMeta(r)
      <4> QED BY <1>0, <3>2, <3>3, QueuedPlain, WriteMetaAdds
    <3>4. CASE wreqs[r] = <<>>
      BY <3>2, <3>4
    <3> QED BY <3>2, <3>3, <3>4, QueueFate
  <2>3. CASE InMeta(e)
    BY <1>0, <2>1, <2>3, MetaStays
  <2> QED BY <2>2, <2>3 DEF Kept
<1>2. CASE placed' = placed
  BY <1>1, <1>2 DEF Kept
<1>3. ASSUME NEW r \in Rank, WriteLog(r) PROVE Kept'
  <2>1. /\ DOMAIN wreqs'[r] = DOMAIN wreqs[r] /\ DOMAIN wreqs[r] = 1 .. Len(wreqs[r])
        /\ Len(wreqs[r]) \in Nat /\ nflushed'[r] = Len(wreqs[r])
        /\ \A e \in placed' : e \in placed \/
              \E i \in DOMAIN wreqs[r] : i > nflushed[r] /\ e = wreqs'[r][i]
    BY <1>0, <1>3, WriteLogQueue
  <2>2. ASSUME NEW e \in placed', e \notin placed
        PROVE  \E q \in Rank : \E i \in DOMAIN wreqs'[q] : i <= nflushed'[q] /\ wreqs'[q][i] = e
    BY <2>1, <2>2
  <2> QED BY <1>1, <2>2 DEF Kept
<1>4. CASE Finished \/ UNCHANGED vars
  BY <1>2, <1>4 DEF Finished, vars, store
<1> QED BY <1>0, <1>2, <1>3, <1>4, StepFrames, CollectiveFrames DEF Next

-----------------------------------------------------------------------------
(* The indexes *)

\* A process that loads its index does so after the metadata flush.
LEMMA LoadCleanKept ==
  ASSUME OrderlyInv, LoadClean, [Next]_vars PROVE LoadClean'
<1>0. TypeOK /\ FlagsInv
  BY DEF OrderlyInv, IInv
<1>1. ASSUME NEW r \in Rank, Step(r) PROVE LoadClean'
  <2>1. \A q \in Rank : q # r => /\ pc'[q] = pc[q] /\ metadirty'[q] = metadirty[q]
                                 /\ idxvalid'[q] = idxvalid[q]
    BY <1>0, <1>1, StepLocal
  <2>2. pc'[r] = "load" => /\ metadirty' = metadirty /\ idxvalid' = idxvalid
                           /\ ~idxvalid[r] /\ ~metadirty[r]
    BY <1>0, <1>1, FlagSteps
  <2> QED BY <2>1, <2>2 DEF LoadClean
<1>2. CASE Collective /\ ~Reopen
  <2>1. metadirty' = metadirty /\ idxvalid' = idxvalid
    BY <1>2, CollectiveFrames
  <2>2. \A r \in Rank : pc'[r] = "load" => pc[r] = "mdbarrier"
    BY <1>2, CollectiveMoves DEF AfterFlush
  <2> QED BY <1>0, <2>1, <2>2 DEF LoadClean, FlagsInv, DirtyAgree, ValidAgree
<1>3. CASE Reopen
  BY <1>3 DEF Reopen, LoadClean
<1>4. CASE Finished \/ UNCHANGED vars
  BY <1>4 DEF Finished, vars, flags, LoadClean
<1> QED BY <1>1, <1>2, <1>3, <1>4 DEF Next

\* When a process loads its index, no process has anything left to flush.
LEMMA NoneLeft ==
  ASSUME OrderlyInv, QueueInv, LoadClean, NEW r \in Rank, pc[r] = "load", NEW q \in Rank
  PROVE  wreqs[q] = <<>> /\ fsize[q] = 0 /\ pc[q] \notin {"ldwrite", "mdwrite"}
<1>0. /\ TypeOK /\ Clean /\ Lockstep /\ PcOp /\ DirtyAgree /\ MetaPhase
      /\ ncall[q] \in Nat /\ ncall[r] \in Nat /\ ncall[r] <= Len(calls) /\ ncall[q] <= Len(calls)
      /\ Len(calls) \in Nat
  BY LenProperties DEF OrderlyInv, IInv, CallsInv, FlagsInv, Layout, TypeOK, InCall
<1>1. pc[q] # "ldwrite"
  BY <1>0 DEF DirtyAgree, LoadClean
<1>2. pc[q] # "mdwrite"
  BY <1>0 DEF MetaPhase
<1>3. ~dirty[q] /\ pc[q] # "sync"
  <2>1. ncall[q] <= ncall[r] + 1 /\ ncall[r] <= ncall[q] + 1
    BY <1>0 DEF Lockstep
  <2>2. ncall[q] # ncall[r] + 1
    BY <1>0 DEF Lockstep
  <2>3. CASE ncall[q] = ncall[r]
    <3>1. Together(pc[r], pc[q])
      BY <1>0, <2>3 DEF Lockstep
    <3>2. pc[q] \in Searching \cup {"load"}
      BY <3>1 DEF Together, MetaFlush, Searching
    <3> QED BY <1>0, <3>2 DEF Clean, Searching
  <2>4. CASE ncall[r] = ncall[q] + 1
    <3>1. pc[q] = "app"
      BY <1>0, <1>1, <2>4 DEF Lockstep
    <3>2. Op(r) = "read"
      BY <1>0 DEF PcOp
    <3>3. ncall[q] < Len(calls) /\ calls[ncall[q] + 1] # "flush"
      BY <1>0, <2>4, <3>2 DEF Op
    <3> QED BY <1>0, <3>1, <3>3 DEF Clean
  <2> QED BY <1>0, <2>1, <2>2, <2>3, <2>4
<1>4. Len(wreqs[q]) <= nflushed[q]
  BY <1>0, <1>1, <1>3 DEF Clean
<1>5. /\ Len(wreqs[q]) \in Nat /\ nflushed[q] \in Nat /\ DOMAIN wreqs[q] = 1 .. Len(wreqs[q])
      /\ wreqs[q] \in Seq(Entry)
  BY <1>0, PendingCount DEF TypeOK
<1>6. ~metadirty[q]
  BY <1>0, <1>1, <1>2 DEF DirtyAgree, LoadClean
<1>7. Len(wreqs[q]) = 0
  <2>1. ASSUME Len(wreqs[q]) # 0 PROVE FALSE
    <3>1. 1 \in DOMAIN wreqs[q] /\ 1 <= nflushed[q]
      BY <1>4, <1>5, <2>1
    <3> QED BY <1>6, <3>1 DEF QueueInv, QueueFlushed
  <2> QED BY <2>1
<1>8. wreqs[q] = <<>>
  BY <1>5, <1>7, EmptySeq
<1>9. fsize[q] = 0
  BY <1>1, <1>3 DEF OrderlyInv, IInv, SizeIdle
<1> QED BY <1>1, <1>2, <1>8, <1>9

\* And the program has read.
LEMMA LoadStill ==
  ASSUME OrderlyInv, QueueInv, LoadClean, NEW r \in Rank, pc[r] = "load" PROVE Still
<1>1. Op(r) = "read" /\ ncall[r] >= 1
  BY DEF OrderlyInv, CallsInv, PcOp
<1>2. ncall[r] \in 1 .. Len(calls)
  BY <1>1, LenProperties DEF OrderlyInv, IInv, InCall, TypeOK
<1>3. HasRead
  BY <1>1, <1>2 DEF HasRead, Op
<1>4. \A q \in Rank : wreqs[q] = <<>> /\ fsize[q] = 0 /\ pc[q] # "ldwrite"
  BY NoneLeft
<1> QED BY <1>3, <1>4 DEF Still

\* A metadata dataset that was written through a left-over view holds no entry:
\* either its table is in place, and empty, or its decoding never ends.
LEMMA LastMetaDecoded ==
  ASSUME IInv, LastMeta, NEW k \in DOMAIN md, ~md[k].plain, pc[0] # "mdwrite"
  PROVE  EntriesOf(md[k]) = {} \/ Endless(md[k])
<1>1. md[k].doff \in Nat /\ md[k].size = NP + 1 /\ NP \in Nat /\ NP >= 1
  BY DatasetTypes, Constants DEF IInv, LastMeta
<1>2. UnitAt(md[k].doff) = [word |-> NP] \/ Lost(k)
  BY DEF LastMeta
<1>3. CASE UnitAt(md[k].doff) = [word |-> NP]
  <2>1. Sections(md[k]) = NP
    BY <1>1, <1>3, Units DEF Sections
  <2>2. md[k].doff + NP + 1 .. md[k].doff + md[k].size - 1 = {}
    BY <1>1
  <2> QED BY <2>1, <2>2 DEF EntriesOf
<1>4. CASE Lost(k)
  <2>1. Sections(md[k]) = 0
    BY <1>4, Parameters DEF Sections, Lost
  <2>2. md[k].doff + 1 \in md[k].doff + 0 + 1 .. md[k].doff + md[k].size - 1
    BY <1>1
  <2>3. UnitAt(md[k].doff + 1) \in EntriesOf(md[k])
    BY <2>1, <2>2 DEF EntriesOf
  <2> QED BY <1>4, <2>3 DEF Lost, Endless
<1> QED BY <1>2, <1>3, <1>4

\* An index that could be loaded covers exactly the flushed data.
LEMMA LoadCovers ==
  ASSUME OrderlyInv, QueueInv, FileInv, LoadClean, LastMeta, NEW r \in Rank, LoadIndex(r),
         idxvalid'[r]
  PROVE  idx'[r] = placed
<1>0. /\ IInv /\ TypeOK /\ MetaCut /\ pc[r] = "load"
  BY DEF OrderlyInv, IInv, IndexInv, LoadIndex
<1>1. idx'[r] = UNION {EntriesOf(md[k]) : k \in 1 .. nmdset[r]}
  BY <1>0 DEF LoadIndex, TypeOK
<1>2. \A q \in Rank : wreqs[q] = <<>> /\ pc[q] # "mdwrite"
  BY <1>0, NoneLeft
<1>3. 1 .. nmdset[r] = DOMAIN md
  BY <1>0, DatasetTypes DEF IInv, Counted
<1>4. \A k \in DOMAIN md : ~Endless(md[k])
  <2>1. ~idxvalid[r]
    BY <1>0 DEF LoadClean
  <2> QED BY <1>3, <2>1 DEF LoadIndex
<1>5. \A x : Clear(x)
  BY <1>2 DEF Clear
<1>6. ASSUME NEW k \in DOMAIN md, NEW e \in EntriesOf(md[k]) PROVE e \in placed
  <2>1. md[k].plain
    BY <1>0, <1>2, <1>4, <1>6, Constants, LastMetaDecoded
  <2>2. Sections(md[k]) = NP
    BY <1>0, <1>2, <2>1, CompleteSections
  <2>3. PICK x \in md[k].doff + NP + 1 .. md[k].doff + md[k].size - 1 : e = UnitAt(x)
    BY <1>6, <2>2 DEF EntriesOf
  <2>4. /\ x \in Nat /\ md[k].doff + (NP + 1) <= x /\ x < End(md[k])
    BY <1>0, <2>3, DatasetTypes, Constants DEF End
  <2>5. MetaUnit(k, x)
    BY <1>5, <2>1, <2>4 DEF MetaUnit
  <2> QED BY <2>3, <2>4, <2>5 DEF FileInv, MetaPlaced
<1>7. ASSUME NEW e \in placed PROVE \E k \in DOMAIN md : e \in EntriesOf(md[k])
  <2>1. InMeta(e)
    BY <1>2 DEF FileInv, Kept
  <2>2. PICK k \in DOMAIN md, x \in Nat : MetaUnit(k, x) /\ UnitAt(x) = e
    BY <2>1 DEF InMeta
  <2>3. md[k].plain /\ md[k].doff + (NP + 1) <= x /\ x < md[k].doff + md[k].size
    BY <2>2 DEF MetaUnit, End
  <2>4. Sections(md[k]) = NP
    BY <1>0, <1>2, <2>3, CompleteSections
  <2>5. x \in md[k].doff + NP + 1 .. md[k].doff + md[k].size - 1
    BY <1>0, <2>3, DatasetTypes, Constants
  <2> QED BY <2>2, <2>4, <2>5 DEF EntriesOf
<1> QED BY <1>1, <1>3, <1>6, <1>7

\* A program that has read stays one.
LEMMA HasReadStays ==
  ASSUME IInv, [Next]_vars, ~Reopen, HasRead PROVE HasRead'
<1>0. calls \in Seq(Ops) /\ Len(calls) \in Nat
  BY LenProperties DEF IInv, TypeOK
<1>1. ASSUME NEW r \in Rank, Step(r) PROVE HasRead'
  <2>1. CASE H5Fflush(r) \/ H5Dread(r) \/ H5Fclose(r)
    <3>1. PICK op \in Ops : Call(r, op)
      BY <2>1 DEF H5Fflush, H5Dread, H5Fclose, Ops
    <3>2. calls' = calls \/ calls' = Append(calls, op)
      BY <3>1 DEF Call
    <3>3. /\ Len(Append(calls, op)) = Len(calls) + 1
          /\ \A i \in 1 .. Len(calls) : Append(calls, op)[i] = calls[i]
      BY <1>0, <3>1, AppendProperties
    <3>4. \A i \in 1 .. Len(calls) : i \in 1 .. Len(calls') /\ calls'[i] = calls[i]
      BY <1>0, <3>2, <3>3
    <3> QED BY <3>4 DEF HasRead
  <2>2. CASE ~(H5Fflush(r) \/ H5Dread(r) \/ H5Fclose(r))
    BY <1>1, <2>2, OtherSteps DEF HasRead
  <2> QED BY <2>1, <2>2
<1>2. CASE Collective
  BY <1>2, CollectiveFrames DEF HasRead
<1>3. CASE Finished \/ UNCHANGED vars
  BY <1>3 DEF Finished, vars, prog, HasRead
<1> QED BY <1>1, <1>2, <1>3 DEF Next

\* Preparing a data flush without requests prepares none.
LEMMA EmptyFlush ==
  ASSUME TypeOK, NEW r \in Rank, StartFlush(r), wreqs[r] = <<>>
  PROVE  wreqs'[r] = <<>> /\ fsize'[r] = 0
<1>1. Len(wreqs[r]) = 0 /\ nflushed[r] \in Nat /\ wreqs[r] \in Seq(Entry)
  BY EmptySeq DEF TypeOK
<1>2. NPending(r) = 0 /\ DOMAIN wreqs[r] = {}
  BY <1>1, PendingCount DEF NPending
<1>3. PICK p \in Scans(NPending(r)) :
        /\ IsScan(p, PendingSizes(r))
        /\ wreqs' = [wreqs EXCEPT ![r] = [i \in DOMAIN @ |->
             IF i \in Pending(r) THEN [@[i] EXCEPT !.foff = p[i - nflushed[r] - 1]]
                                 ELSE @[i]]]
        /\ fsize' = [fsize EXCEPT ![r] = LocalSize(p, NPending(r))]
  BY DEF StartFlush
<1>4. fsize'[r] = 0
  BY <1>2, <1>3 DEF LocalSize, IsScan, TypeOK
<1>5. DOMAIN wreqs'[r] = {} /\ Len(wreqs'[r]) = Len(wreqs[r])
  BY <1>2, StartFlushQueue
<1>6. wreqs'[r] = [i \in DOMAIN wreqs[r] |->
             IF i \in Pending(r) THEN [wreqs[r][i] EXCEPT !.foff = p[i - nflushed[r] - 1]]
                                 ELSE wreqs[r][i]]
  BY <1>3 DEF TypeOK
<1>7. wreqs'[r] = wreqs[r]
  BY <1>2, <1>6
<1> QED BY <1>4, <1>7

\* Once a program is still, it stays so until the file is closed.
LEMMA StillStays ==
  ASSUME OrderlyInv, Orderly, Still, [Next]_vars, ~Reopen PROVE Still'
<1>0. IInv /\ TypeOK
  BY DEF OrderlyInv, IInv
<1>1. HasRead'
  BY <1>0, HasReadStays DEF Still
<1>2. ASSUME NEW r \in Rank, Step(r)
      PROVE  \A q \in Rank : wreqs'[q] = <<>> /\ fsize'[q] = 0 /\ pc'[q] # "ldwrite"
  <2>1. \A q \in Rank : q # r => wreqs'[q] = wreqs[q] /\ fsize'[q] = fsize[q] /\ pc'[q] = pc[q]
    BY <1>0, <1>2, StepLocal
  <2>2. pc'[r] # "ldwrite"
    BY <1>0, <1>2, StepMoves
  <2>3. ~WriteLog(r)
    BY DEF WriteLog, Still
  <2>4. ~(\E c \in Cells, s \in Sizes : H5Dwrite(r, c, s))
    BY DEF H5Dwrite, Orderly, Still, HasRead
  <2>5. wreqs'[r] = <<>> /\ fsize'[r] = 0
    <3>1. CASE StartFlush(r)
      BY <1>0, <3>1, EmptyFlush DEF Still
    <3>2. CASE WriteMeta(r)
      BY <1>0, <3>2 DEF WriteMeta, TypeOK, Still
    <3>3. CASE ~StartFlush(r) /\ ~WriteMeta(r)
      <4>1. wreqs' = wreqs /\ fsize' = fsize
        BY <1>2, <2>3, <2>4, <3>3 DEF Step, H5Fflush, H5Dread, H5Fclose, LoadIndex, Search,
                                      SearchFails, queue, scratch
      <4> QED BY <4>1 DEF Still
    <3> QED BY <3>1, <3>2, <3>3
  <2> QED BY <2>1, <2>2, <2>5 DEF Still
<1>3. ASSUME Collective
      PROVE  \A q \in Rank : wreqs'[q] = <<>> /\ fsize'[q] = 0 /\ pc'[q] # "ldwrite"
  <2>1. wreqs' = wreqs /\ fsize' = fsize
    BY <1>3, CollectiveFrames
  <2>2. ~CreateLog
    BY DEF CreateLog, Still
  <2>3. \A q \in Rank : pc'[q] # "ldwrite"
    BY <1>3, <2>2, CollectiveMoves DEF AfterFlush, AfterBarrier, Still
  <2> QED BY <2>1, <2>3 DEF Still
<1>4. CASE Finished \/ UNCHANGED vars
  BY <1>1, <1>4 DEF Finished, vars, queue, scratch, Still
<1> QED BY <1>1, <1>2, <1>3, <1>4 DEF Next, Still

\* No data is placed any more.
LEMMA StillPlaced ==
  ASSUME Still, TypeOK, [Next]_vars PROVE placed' = placed
<1>1. \A r \in Rank : ~WriteLog(r)
  BY DEF WriteLog, Still
<1>2. Finished \/ UNCHANGED vars => placed' = placed
  BY DEF Finished, vars, store
<1> QED BY <1>1, <1>2, StepFrames, CollectiveFrames DEF Next

\* A valid index keeps covering the flushed data, because no more is flushed.
LEMMA QuietKept ==
  ASSUME OrderlyInv, Orderly, QueueInv, FileInv, LoadedInv, LastMeta, [Next]_vars PROVE Quiet'
<1>0. IInv /\ TypeOK /\ LoadClean /\ Quiet
  BY DEF OrderlyInv, IInv, LoadedInv
<1>1. CASE Reopen
  BY <1>1 DEF Reopen, Quiet
<1>2. CASE ~Reopen
  <2> SUFFICES ASSUME NEW q \in Rank, idxvalid'[q] PROVE Still' /\ idx'[q] = placed'
    BY DEF Quiet
  <2>1. CASE LoadIndex(q)
    <3>1. Still
      BY <1>0, <2>1, LoadStill DEF LoadIndex
    <3>2. Still' /\ placed' = placed
      BY <1>0, <1>2, <3>1, StillStays, StillPlaced
    <3> QED BY <1>0, <2>1, <3>2, LoadCovers
  <2>2. CASE ~LoadIndex(q)
    <3>1. idxvalid[q] /\ idx'[q] = idx[q]
      <4>1. ASSUME NEW r \in Rank, Step(r), r # q PROVE idxvalid'[q] = idxvalid[q] /\ idx'[q] = idx[q]
        BY <1>0, <4>1, StepLocal
      <4>2. ASSUME Step(q) PROVE idxvalid[q] /\ idx'[q] = idx[q]
        <5>1. ~WriteMeta(q)
          BY <1>0 DEF WriteMeta, TypeOK
        <5> QED BY <1>0, <2>2, <4>2, <5>1, StepFrames
      <4>3. Collective => idxvalid' = idxvalid /\ idx' = idx
        BY <1>2, CollectiveFrames
      <4>4. Finished \/ UNCHANGED vars => idxvalid' = idxvalid /\ idx' = idx
        BY DEF Finished, vars, flags
      <4> QED BY <1>2, <4>1, <4>2, <4>3, <4>4 DEF Next
    <3>2. Still /\ idx[q] = placed
      BY <1>0, <3>1 DEF Quiet
    <3>3. Still' /\ placed' = placed
      BY <1>0, <1>2, <3>2, StillStays, StillPlaced
    <3> QED BY <3>1, <3>2, <3>3
  <2> QED BY <2>1, <2>2
<1> QED BY <1>1, <1>2

-----------------------------------------------------------------------------
(* The views *)

\* A call goes on until its process makes the next one.
LEMMA OpKept ==
  ASSUME IInv, [Next]_vars, ~Reopen, NEW r \in Rank, ncall[r] >= 1, pc[r] # "app"
  PROVE  Op(r)' = Op(r)
<1>1. ASSUME NEW q \in Rank, Step(q) PROVE Op(r)' = Op(r)
  <2>1. CASE H5Fflush(q) \/ H5Dread(q) \/ H5Fclose(q)
    <3>1. PICK op \in Ops : Call(q, op)
      BY <2>1 DEF H5Fflush, H5Dread, H5Fclose, Ops
    <3>2. q # r
      BY <3>1 DEF Call
    <3> QED BY <3>1, <3>2, OpsStay
  <2>2. CASE ~(H5Fflush(q) \/ H5Dread(q) \/ H5Fclose(q))
    BY <1>1, <2>2, OtherSteps DEF Op
  <2> QED BY <2>1, <2>2
<1>2. CASE Collective
  BY <1>2 DEF Collective, FlushNothing, CreateLog, CreateMeta, MetaBarrier, ReadAll, CloseFile,
              prog, Op
<1>3. CASE Finished \/ UNCHANGED vars
  BY <1>3 DEF Finished, vars, prog, Op
<1> QED BY <1>1, <1>2, <1>3 DEF Next

\* The view of a read that found flushed data begins in a log dataset.
LEMMA ViewBegins ==
  ASSUME IInv, Layout, DataInv, NEW h \in SUBSET Entry, IsFiniteSet(h), h \subseteq placed,
         NEW v \in Views(h), v # Plain
  PROVE  v[1] >= 2
<1>1. PICK junk \in Junk : v = Sorted(HitBytes(h, junk))
  BY DEF Views
<1>2. junk \in Nat
  BY Parameters
<1>3. HitBytes(h, junk) \in SUBSET Nat /\ IsFiniteSet(HitBytes(h, junk))
  BY <1>2, HitBytesFinite
<1>4. v \in Seq(Nat) /\ \A i \in 1 .. Len(v) : v[i] \in HitBytes(h, junk)
  BY <1>1, <1>3, SortedAscends
<1>5. v[1] \in HitBytes(h, junk)
  <2>1. Len(v) \in Nat /\ Len(v) # 0
    BY <1>4, EmptySeq, LenProperties DEF Plain
  <2> QED BY <1>4, <2>1
<1> DEFINE foff(e) == IF e.foff = Unset THEN junk ELSE e.foff
<1>6. PICK e \in h : v[1] \in foff(e) .. foff(e) + e.w.size - 1
  BY <1>5 DEF HitBytes
<1>7. PICK k \in DOMAIN ld : HomeIn(e, k)
  BY DEF DataInv, Intact
<1>8. e.foff \in Nat /\ e.foff >= 2
  <2>1. e.foff \in Nat \cup {Unset} /\ ld[k].doff \in Nat
    BY EntryFields, DatasetTypes DEF IInv
  <2>2. Header <= ld[k].doff /\ ld[k].doff <= e.foff /\ Header \in Nat /\ Header >= 2
    BY <1>7, Parameters DEF HomeIn, Layout, FileOrder, InFile
  <2> QED BY <2>1, <2>2 DEF Unset
<1>9. foff(e) = e.foff
  BY <1>8 DEF Unset
<1>10. e.w.size \in Nat
  BY EntryFields
<1> HIDE DEF foff
<1> QED BY <1>6, <1>8, <1>9, <1>10

\* What a read leaves is left by a still program, and stays as it is.
LEMMA ViewsReadKept ==
  ASSUME OrderlyInv, Orderly, LoadedInv, ViewsRead, [Next]_vars
  PROVE  ViewsRead'
<1>0. IInv /\ TypeOK /\ Layout /\ DataInv /\ Quiet /\ PcOp
  BY DEF OrderlyInv, IInv, LoadedInv, CallsInv
<1>1. CASE Reopen
  BY <1>1 DEF Reopen, ViewsRead
<1>2. CASE ~Reopen
  <2> SUFFICES ASSUME NEW r \in Rank, view'[r] # Plain
               PROVE  /\ Still' /\ view'[r][1] >= 2
                      /\ \/ idxvalid'[r]
                         \/ pc'[r] \in {"mdbarrier", "fclose", "closed"} /\ Op(r)' = "close"
    BY DEF ViewsRead
  <2>1. ASSUME NEW c \in Cells, Search(r, c)
        PROVE  Still' /\ view'[r][1] >= 2 /\ idxvalid'[r]
    <3>1. /\ pc[r] = "search" /\ idxvalid' = idxvalid
          /\ \E v \in Views(Hits(r, c)) : view' = [view EXCEPT ![r] = v]
      BY <2>1 DEF Search, flags
    <3>2. idxvalid[r]
      BY <3>1 DEF OrderlyInv, FlagsInv, ValidAgree
    <3>3. Still /\ idx[r] = placed
      BY <1>0, <3>2 DEF Quiet
    <3>4. PICK v \in Views(Hits(r, c)) : view'[r] = v
      BY <1>0, <3>1 DEF TypeOK
    <3>5. Hits(r, c) \in SUBSET Entry /\ Hits(r, c) \subseteq placed /\ IsFiniteSet(Hits(r, c))
      BY <1>0, <3>3, HitsTypes
    <3>6. v[1] >= 2
      BY <1>0, <3>4, <3>5, ViewBegins
    <3>7. Still'
      BY <1>2, <3>3, StillStays
    <3> QED BY <3>1, <3>2, <3>4, <3>6, <3>7
  <2>2. CASE ~(\E c \in Cells : Search(r, c))
    <3>1. view'[r] = view[r]
      <4>1. ASSUME NEW q \in Rank, Step(q) PROVE view'[r] = view[r]
        BY <1>0, <2>2, <4>1, StepLocal, StepFrames
      <4>2. Collective => view' = view
        BY <1>2, CollectiveFrames
      <4>3. Finished \/ UNCHANGED vars => view' = view
        BY DEF Finished, vars
      <4> QED BY <1>2, <4>1, <4>2, <4>3 DEF Next
    <3>2. /\ Still /\ view[r][1] >= 2
          /\ idxvalid[r] \/ (pc[r] \in {"mdbarrier", "fclose", "closed"} /\ Op(r) = "close")
      BY <3>1 DEF ViewsRead
    <3>3. Still'
      BY <1>2, <3>2, StillStays
    <3>4. CASE idxvalid[r] /\ ~WriteMeta(r)
      <4>1. ASSUME NEW q \in Rank, Step(q) PROVE idxvalid'[r]
        <5>1. q # r => idxvalid'[r] = idxvalid[r]
          BY <1>0, <4>1, StepLocal
        <5>2. ASSUME q = r PROVE idxvalid'[r]
          <6>1. pc[r] # "mdwrite"
            BY <1>0, <3>4, <4>1, <5>2, StepMoves
          <6> QED BY <1>0, <3>4, <4>1, <5>2, <6>1, FlagSteps
        <5> QED BY <3>4, <5>1, <5>2
      <4>2. Collective => idxvalid' = idxvalid
        BY <1>2, CollectiveFrames
      <4>3. Finished \/ UNCHANGED vars => idxvalid' = idxvalid
        BY DEF Finished, vars, flags
      <4>4. idxvalid'[r]
        BY <1>2, <3>4, <4>1, <4>2, <4>3 DEF Next
      <4> QED BY <3>1, <3>2, <3>3, <4>4
    <3>5. CASE idxvalid[r] /\ WriteMeta(r)
      <4>1. pc[r] = "mdwrite" /\ pc'[r] = "mdbarrier"
        BY <1>0, <3>5 DEF WriteMeta, AfterMeta, TypeOK
      <4>2. Op(r) = "close" /\ ncall[r] >= 1
        BY <1>0, <3>5, <4>1 DEF OrderlyInv, CallsInv, PcOp, ReadGathers
      <4>3. Op(r)' = Op(r)
        BY <1>0, <1>2, <4>1, <4>2, OpKept
      <4> QED BY <3>1, <3>2, <3>3, <4>1, <4>2, <4>3
    <3>6. CASE pc[r] \in {"mdbarrier", "fclose", "closed"} /\ Op(r) = "close"
      <4>1. Op(r)' = "close"
        <5>1. ncall[r] >= 1
          BY <1>0, <3>6 DEF PcOp
        <5> QED BY <1>0, <1>2, <3>6, <5>1, OpKept
      <4>2. pc'[r] \in {"mdbarrier", "fclose", "closed"}
        <5>1. ASSUME NEW q \in Rank, Step(q) PROVE pc'[r] = pc[r]
          <6>1. q # r
            BY <1>0, <3>6, <5>1, StepMoves
          <6> QED BY <1>0, <5>1, <6>1, StepLocal
        <5>2. ASSUME Collective PROVE pc'[r] \in {"mdbarrier", "fclose", "closed"}
          BY <1>2, <3>6, <5>2, CollectiveMoves DEF AfterBarrier
        <5>3. Finished \/ UNCHANGED vars => pc' = pc
          BY DEF Finished, vars
        <5> QED BY <1>2, <3>6, <5>1, <5>2, <5>3 DEF Next
      <4> QED BY <3>1, <3>2, <3>3, <4>1, <4>2
    <3> QED BY <3>2, <3>4, <3>5, <3>6
  <2> QED BY <2>1, <2>2
<1> QED BY <1>1, <1>2

\* No data is left to flush when a view is left.
LEMMA LogsPlainKept ==
  ASSUME IInv, ViewsRead, LogsPlain, [Next]_vars PROVE LogsPlain'
<1>0. TypeOK
  BY DEF IInv
<1>1. CASE ld' = ld
  BY <1>1 DEF LogsPlain
<1>2. CASE CreateLog
  <2>1. AllPlain
    <3>1. ~Still
      <4>1. PICK r \in Rank : fsize[r] > 0
        BY <1>2 DEF CreateLog
      <4> QED BY <4>1 DEF Still
    <3> QED BY <3>1 DEF ViewsRead, AllPlain
  <2>2. PICK d : ld' = Append(ld, d) /\ d.plain = AllPlain
    BY <1>2 DEF CreateLog
  <2>3. ld \in Seq(Dataset) /\ ld' \in Seq(Dataset)
    BY <1>0, <1>2, CreateLogIInv DEF IInv, TypeOK
  <2>4. Len(ld) \in Nat /\ DOMAIN ld = 1 .. Len(ld) /\ DOMAIN ld' = 1 .. Len(ld')
    BY <2>3, LenProperties
  <2>5. /\ Len(ld') = Len(ld) + 1 /\ ld'[Len(ld) + 1] = d
        /\ \A k \in 1 .. Len(ld) : ld'[k] = ld[k]
    BY <2>2, <2>3, <2>4
  <2> SUFFICES ASSUME NEW k \in DOMAIN ld' PROVE ld'[k].plain
    BY DEF LogsPlain
  <2>6. CASE k = Len(ld) + 1
    BY <2>1, <2>2, <2>5, <2>6
  <2>7. CASE k \in 1 .. Len(ld)
    BY <2>4, <2>5, <2>7 DEF LogsPlain
  <2> QED BY <2>4, <2>5, <2>6, <2>7
<1>3. Finished \/ UNCHANGED vars => ld' = ld
  BY DEF Finished, vars, store
<1> QED BY <1>0, <1>1, <1>2, <1>3, StepFrames, CollectiveFrames DEF Next

\* The metadata dataset of a metadata flush with nothing queued has the section
\* table only.
LEMMA EmptyMetaScan ==
  ASSUME IInv, NEW p \in [0 .. NP -> Nat], IsScan(p, MetaSizes),
         \A r \in Rank : wreqs[r] = <<>>
  PROVE  p[NP] = NP + 1
<1>1. NP \in Nat /\ NP >= 1 /\ Rank = 0 .. NP - 1 /\ Len(<<>>) = 0
  BY Constants DEF Rank
<1>2. ASSUME NEW r \in Rank PROVE p[r] \in Nat /\ p[r + 1] = p[r] + (IF r = 0 THEN NP + 1 ELSE 0)
  <2>1. p[r] \in Nat /\ p[r + 1] = p[r] + (TableSize(r) + Len(wreqs[r]))
    BY MetaScan
  <2>2. Len(wreqs[r]) = 0
    BY <1>1
  <2>3. TableSize(r) + Len(wreqs[r]) = IF r = 0 THEN NP + 1 ELSE 0
    BY <1>1, <2>2 DEF TableSize
  <2> QED BY <2>1, <2>3
<1> DEFINE T == {i \in Nat : i \in 1 .. NP /\ p[i] # NP + 1}
<1>3. T = {}
  <2> SUFFICES ASSUME T # {} PROVE FALSE
    OBVIOUS
  <2>1. PICK i \in T : \A j \in T : i <= j
    <3>1. T \in SUBSET Nat
      OBVIOUS
    <3> HIDE DEF T
    <3> QED BY <3>1, LeastNat
  <2>2. i \in Nat /\ i \in 1 .. NP /\ p[i] # NP + 1
    OBVIOUS
  <2>3. i - 1 \in Rank /\ (i - 1) + 1 = i
    BY <1>1, <2>2
  <2>4. p[i] = p[i - 1] + (IF i - 1 = 0 THEN NP + 1 ELSE 0) /\ p[i - 1] \in Nat
    BY <1>2, <2>3
  <2>5. p[0] = 0
    BY DEF IsScan
  <2>6. i - 1 # 0
    BY <1>1, <2>2, <2>4, <2>5
  <2>7. i - 1 \in 1 .. NP /\ i - 1 \in Nat /\ ~ (i <= i - 1)
    BY <1>1, <2>2, <2>6
  <2>8. i - 1 \notin T
    <3> HIDE DEF T
    <3> QED BY <2>1, <2>7
  <2>9. p[i - 1] = NP + 1
    BY <2>7, <2>8
  <2> QED BY <1>1, <2>2, <2>4, <2>6, <2>9
<1>4. NP \notin T /\ NP \in 1 .. NP
  BY <1>1, <1>3
<1> QED BY <1>1, <1>4

\* All processes flush metadata for the same call: when one of them has a valid
\* index, for a close.
LEMMA GatherToClose ==
  ASSUME OrderlyInv, \A r \in Rank : pc[r] = "gather", NEW r0 \in Rank, idxvalid[r0]
  PROVE  \A q \in Rank : Op(q) = "close"
<1>1. CallsInv /\ ncall \in [Rank -> Nat]
  BY DEF OrderlyInv, IInv, TypeOK
<1>2. Op(r0) = "close"
  BY <1>1 DEF CallsInv, PcOp, ReadGathers
<1> SUFFICES ASSUME NEW q \in Rank PROVE Op(q) = "close"
  OBVIOUS
<1>3. ncall[r0] \in Nat /\ ncall[q] \in Nat
  BY <1>1
<1>4. /\ ncall[r0] <= ncall[q] + 1 /\ ncall[q] <= ncall[r0] + 1
      /\ ncall[r0] # ncall[q] + 1 /\ ncall[q] # ncall[r0] + 1
  BY <1>1 DEF CallsInv, Lockstep
<1>5. ncall[r0] = ncall[q]
  BY <1>3, <1>4
<1> QED BY <1>2, <1>5 DEF Op

\* The only metadata dataset created under a view a read has left is that of
\* the close.
LEMMA CreateMetaLast ==
  ASSUME OrderlyInv, ViewInv, CreateMeta PROVE LastMeta'
<1>0. /\ IInv /\ TypeOK /\ Layout /\ NP \in Nat /\ 0 \in Rank
      /\ \A r \in Rank : pc[r] = "gather" /\ pc'[r] = "mdwrite"
  BY Constants DEF OrderlyInv, IInv, CreateMeta
<1>1. \A k \in DOMAIN md : md[k].plain
  BY <1>0 DEF ViewInv, LastMeta, Closing, IInv, ReadOnly
<1>2. PICK p \in Scans(NP) :
        /\ IsScan(p, MetaSizes)
        /\ mdoffs' = [i \in 1 .. NP + 1 |-> IF i = 1 THEN NP ELSE p[i - 1]]
        /\ base' = [r \in Rank |-> eof + p[r]]
        /\ md' = Append(md, [names |-> {nmdset[r] : r \in Rank},
                             doff |-> eof, size |-> p[NP], plain |-> AllPlain])
  BY DEF CreateMeta
<1>3. p \in [0 .. NP -> Nat] /\ eof \in Nat /\ p[0] = 0
  BY <1>0, <1>2, CreateScan DEF IsScan
<1>4. PICK d : /\ md' = Append(md, d) /\ d.doff = eof /\ d.size = p[NP]
               /\ d.plain = AllPlain
  BY <1>2
<1>5. md \in Seq(Dataset) /\ md' \in Seq(Dataset)
  BY <1>0, CreateMetaIInv DEF IInv, TypeOK
<1>6. Len(md) \in Nat /\ DOMAIN md = 1 .. Len(md) /\ DOMAIN md' = 1 .. Len(md')
  BY <1>5, LenProperties
<1>7. /\ Len(md') = Len(md) + 1 /\ md'[Len(md) + 1] = d
      /\ \A k \in 1 .. Len(md) : md'[k] = md[k]
  BY <1>4, <1>5, <1>6
<1> SUFFICES ASSUME NEW k \in DOMAIN md', ~md'[k].plain
             PROVE  /\ k = Len(md') /\ md'[k].size = NP + 1
                    /\ Closing' /\ \A r \in Rank : wreqs'[r] = <<>>
                    /\ base'[0] = md'[k].doff /\ mdoffs'[1] = NP /\ Lost(k)'
  BY <1>0 DEF LastMeta
<1>8. k = Len(md) + 1 /\ md'[k] = d
  <2>1. k \notin 1 .. Len(md)
    BY <1>1, <1>6, <1>7
  <2> QED BY <1>6, <1>7, <2>1
<1>9. PICK r0 \in Rank : view[r0] # Plain
  <2>1. ~AllPlain
    BY <1>4, <1>8
  <2> QED BY <2>1 DEF AllPlain
<1>10. Still /\ idxvalid[r0]
  <2>1. pc[r0] = "gather"
    BY <1>0
  <2>2. Still /\ (idxvalid[r0] \/ pc[r0] \in {"mdbarrier", "fclose", "closed"})
    BY <1>9 DEF ViewInv, ViewsRead
  <2> QED BY <2>1, <2>2
<1>11. \A r \in Rank : wreqs[r] = <<>> /\ wreqs'[r] = <<>>
  BY <1>10 DEF Still, CreateMeta, queue
<1>12. p[NP] = NP + 1
  BY <1>0, <1>2, <1>3, <1>11, EmptyMetaScan
<1>13. Closing'
  <2>1. \A q \in Rank : Op(q) = "close"
    BY <1>0, <1>10, GatherToClose
  <2>2. calls' = calls /\ ncall' = ncall
    BY DEF CreateMeta, prog
  <2> QED BY <1>0, <2>1, <2>2 DEF Closing, Op
<1>14. base'[0] = eof /\ mdoffs'[1] = NP
  BY <1>0, <1>2, <1>3
<1>15. Lost(k)'
  <2>1. \A x \in DOMAIN disk : x < eof
    BY <1>0, <1>1 DEF Layout, NoStray, EverPlain, ViewInv, LogsPlain
  <2>2. eof \notin DOMAIN disk /\ eof + 1 \notin DOMAIN disk
    BY <1>3, <2>1
  <2>3. disk' = disk
    BY DEF CreateMeta
  <2>4. md'[k].doff = eof
    BY <1>4, <1>8
  <2> QED BY <2>2, <2>3, <2>4 DEF Lost, UnitAt
<1> QED BY <1>4, <1>7, <1>8, <1>11, <1>12, <1>13, <1>14, <1>15

\* A process without requests has only the section table to write, on rank 0.
LEMMA EmptySection ==
  ASSUME IInv, NEW q \in Rank, WriteMeta(q), q # 0, wreqs[q] = <<>>, NEW x
  PROVE  UnitAt(x)' = UnitAt(x)
<1>1. Len(wreqs[q]) = 0 /\ TableSize(q) = 0
  BY DEF TableSize
<1>2. DOMAIN SectionOf(q) = {}
  BY <1>1, SectionUnits DEF WriteMeta
<1>3. disk' = Written(q, base[q], SectionOf(q))
  BY DEF WriteMeta
<1>4. disk' = [y \in DOMAIN disk |-> disk[y]]
  <2> DEFINE u == SectionOf(q)
  <2>1. DOMAIN u = {}
    BY <1>2
  <2> HIDE DEF u
  <2>2. Written(q, base[q], u) = [y \in DOMAIN disk |-> disk[y]]
    BY <2>1 DEF Written
  <2> QED BY <1>3, <2>2 DEF u
<1> QED BY <1>4 DEF UnitAt

\* The share of rank 0 in the metadata flush of the close: the table reaches
\* its place under the plain view, and leaves it untouched under another.
LEMMA TableOrLost ==
  ASSUME IInv, ViewsRead, WriteMeta(0), NEW k \in DOMAIN md, base[0] = md[k].doff,
         mdoffs[1] = NP, Lost(k), wreqs[0] = <<>>
  PROVE  UnitAt(md[k].doff)' = [word |-> NP] \/ Lost(k)'
<1>0. /\ TypeOK /\ 0 \in Rank /\ NP \in Nat /\ NP >= 1 /\ pc[0] = "mdwrite" /\ md' = md
      /\ disk' = Written(0, base[0], SectionOf(0))
  BY Constants DEF IInv, WriteMeta
<1>1. PICK x \in Nat : x = md[k].doff
  BY <1>0, DatasetTypes
<1>2. /\ DOMAIN SectionOf(0) = 0 .. TableSize(0) + Len(wreqs[0]) - 1
      /\ DOMAIN SectionOf(0) \subseteq Nat
      /\ \A i \in DOMAIN SectionOf(0) :
           i < TableSize(0) => SectionOf(0)[i] = [word |-> mdoffs[i + 1]]
  BY <1>0, SectionUnits
<1>3. TableSize(0) = NP + 1 /\ Len(wreqs[0]) = 0
  BY DEF TableSize
<1>4. 0 \in DOMAIN SectionOf(0) /\ SectionOf(0)[0] = [word |-> NP]
  BY <1>0, <1>2, <1>3
<1> DEFINE u == SectionOf(0)
<1>5. DOMAIN u \subseteq Nat /\ disk' = Written(0, x, u) /\ 0 \in DOMAIN u /\ u[0] = [word |-> NP]
  BY <1>0, <1>1, <1>2, <1>4
<1> HIDE DEF u
<1>6. CASE view[0] = Plain
  <2>1. UnitAt(x)' = IF x - x \in DOMAIN u THEN u[x - x] ELSE UnitAt(x)
    BY <1>0, <1>5, <1>6, WrittenUnits
  <2>2. x - x = 0
    OBVIOUS
  <2>3. UnitAt(x)' = [word |-> NP]
    BY <1>5, <2>1, <2>2
  <2> QED BY <1>0, <1>1, <2>3 DEF UnitAt
<1>7. CASE view[0] # Plain
  <2>1. view[0][1] >= 2
    BY <1>0, <1>7 DEF ViewsRead
  <2>2. PICK y \in Nat : y = x + 1
    OBVIOUS
  <2>3. view[0][1] \in Nat /\ (x < x + view[0][1] => UnitAt(x)' = UnitAt(x))
    BY <1>0, <1>5, <1>7, WrittenUnits
  <2>4. y < x + view[0][1] => UnitAt(y)' = UnitAt(y)
    BY <1>0, <1>5, <1>7, WrittenUnits
  <2>5. x < x + view[0][1] /\ y < x + view[0][1]
    BY <2>1, <2>2, <2>3
  <2>6. UnitAt(x)' = UnitAt(x) /\ UnitAt(y)' = UnitAt(y)
    BY <2>3, <2>4, <2>5
  <2>7. UnitAt(x) = Nothing /\ UnitAt(y) = Nothing
    BY <1>1, <2>2 DEF Lost
  <2> QED BY <1>0, <1>1, <2>2, <2>6, <2>7 DEF Lost, UnitAt
<1> QED BY <1>6, <1>7

\* The session goes up when the file is opened again, and only then.
LEMMA SessionGrows ==
  ASSUME TypeOK, [Next]_vars
  PROVE  session \in Nat /\ session' = IF Reopen THEN session + 1 ELSE session
<1>1. ASSUME NEW r \in Rank, Step(r) PROVE session' = session
  BY <1>1 DEF Step, H5Dwrite, H5Fflush, H5Dread, H5Fclose, WriteLog, WriteMeta, LoadIndex,
              Search, SearchFails, prog
<1>2. Collective \/ Finished \/ UNCHANGED vars => session' = session
  BY DEF Collective, FlushNothing, CreateLog, CreateMeta, MetaBarrier, ReadAll, CloseFile,
         Finished, vars, prog
<1>3. session \in Nat /\ session # session + 1
  BY DEF TypeOK
<1>4. Reopen => session' = session + 1
  BY DEF Reopen
<1> QED BY <1>1, <1>2, <1>3, <1>4 DEF Next

\* Nothing of a closed file changes any more, however often it is opened.
LEMMA LastMetaReadOnly ==
  ASSUME IInv, LastMeta, [Next]_vars, md' = md, session > 1 PROVE LastMeta'
<1>0. TypeOK /\ IInv' /\ session' > 1
  <2>1. TypeOK /\ IInv'
    BY NextIInv DEF IInv
  <2>2. session \in Nat /\ (session' = session + 1 \/ session' = session)
    BY <2>1, SessionGrows
  <2> QED BY <2>1, <2>2
<1>1. /\ \A r \in Rank : wreqs'[r] = <<>> /\ pc'[r] # "mdwrite"
      /\ \A r \in Rank : pc[r] \notin {"ldwrite", "mdwrite"}
      /\ 0 \in Rank
  BY <1>0, Constants DEF IInv, ReadOnly
<1>2. disk' = disk
  <2>1. ASSUME NEW r \in Rank, Step(r) PROVE disk' = disk
    BY <1>0, <1>1, <2>1, StepFrames DEF WriteLog, WriteMeta
  <2>2. Finished \/ UNCHANGED vars => disk' = disk
    BY DEF Finished, vars, store
  <2> QED BY <2>1, <2>2, CollectiveFrames DEF Next
<1> SUFFICES ASSUME NEW k \in DOMAIN md, ~md[k].plain
             PROVE  /\ k = Len(md) /\ md[k].size = NP + 1
                    /\ UnitAt(md[k].doff)' = [word |-> NP] \/ Lost(k)'
  BY <1>0, <1>1 DEF LastMeta, Closing
<1>3. UnitAt(md[k].doff) = [word |-> NP] \/ Lost(k)
  BY <1>1 DEF LastMeta
<1> QED BY <1>2, <1>3 DEF LastMeta, Lost, UnitAt

\* A close in which every process has nothing to write but the section table.
LEMMA LastMetaClosing ==
  ASSUME OrderlyInv, ViewsRead, LastMeta, [Next]_vars, md' = md, NEW k \in DOMAIN md, ~md[k].plain,
         ~ (session > 1)
  PROVE  /\ Closing' /\ \A r \in Rank : wreqs'[r] = <<>>
         /\ IF pc'[0] = "mdwrite"
            THEN base'[0] = md[k].doff /\ mdoffs'[1] = NP /\ Lost(k)'
            ELSE UnitAt(md[k].doff)' = [word |-> NP] \/ Lost(k)'
<1>0. IInv /\ TypeOK /\ 0 \in Rank
  BY Constants DEF OrderlyInv, IInv
<1>1. /\ \A r \in Rank : /\ pc[r] \in {"mdwrite", "mdbarrier", "fclose", "closed"}
                         /\ Op(r) = "close" /\ wreqs[r] = <<>>
      /\ IF pc[0] = "mdwrite" THEN base[0] = md[k].doff /\ mdoffs[1] = NP /\ Lost(k)
                              ELSE UnitAt(md[k].doff) = [word |-> NP] \/ Lost(k)
  BY DEF LastMeta, Closing
<1>2. ASSUME NEW q \in Rank, Step(q)
      PROVE  /\ Closing' /\ \A r \in Rank : wreqs'[r] = <<>>
             /\ IF pc'[0] = "mdwrite"
                THEN base'[0] = md[k].doff /\ mdoffs'[1] = NP /\ Lost(k)'
                ELSE UnitAt(md[k].doff)' = [word |-> NP] \/ Lost(k)'
  <2>1. pc[q] = "mdwrite" /\ pc'[q] = "mdbarrier" /\ WriteMeta(q)
    BY <1>0, <1>1, <1>2, StepMoves
  <2>2. \A r \in Rank : r # q => pc'[r] = pc[r] /\ wreqs'[r] = wreqs[r] /\ base'[r] = base[r]
    BY <1>0, <1>2, StepLocal
  <2>3. wreqs'[q] = <<>> /\ calls' = calls /\ ncall' = ncall /\ (q # 0 => mdoffs' = mdoffs)
    BY <1>0, <2>1 DEF WriteMeta, TypeOK, prog
  <2>4. Closing' /\ \A r \in Rank : wreqs'[r] = <<>>
    <3>1. \A r \in Rank : pc'[r] \in {"mdwrite", "mdbarrier", "fclose", "closed"}
      BY <1>1, <2>1, <2>2
    <3>2. \A r \in Rank : Op(r)' = "close"
      BY <1>1, <2>3 DEF Op
    <3>3. \A r \in Rank : wreqs'[r] = <<>>
      BY <1>1, <2>2, <2>3
    <3> QED BY <3>1, <3>2, <3>3 DEF Closing
  <2>5. CASE q = 0
    <3>1. UnitAt(md[k].doff)' = [word |-> NP] \/ Lost(k)'
      BY <1>0, <1>1, <2>1, <2>5, TableOrLost
    <3> QED BY <2>1, <2>4, <2>5, <3>1
  <2>6. CASE q # 0
    <3>1. PICK x \in Nat : x = md[k].doff
      BY <1>0, DatasetTypes
    <3>2. PICK y \in Nat : y = x + 1
      OBVIOUS
    <3>3. UnitAt(x)' = UnitAt(x) /\ UnitAt(y)' = UnitAt(y)
      BY <1>0, <1>1, <2>1, <2>6, EmptySection
    <3>4. /\ Lost(k) => Lost(k)'
          /\ UnitAt(md[k].doff) = [word |-> NP] => UnitAt(md[k].doff)' = [word |-> NP]
      BY <3>1, <3>2, <3>3 DEF Lost, UnitAt
    <3>5. pc'[0] = pc[0] /\ base'[0] = base[0] /\ mdoffs' = mdoffs
      BY <1>0, <2>2, <2>3, <2>6
    <3> QED BY <1>1, <2>4, <3>4, <3>5
  <2> QED BY <2>5, <2>6
<1>3. CASE Collective \/ Reopen
  <2>1. disk' = disk /\ \A r \in Rank : wreqs'[r] = <<>>
    <3>1. wreqs' = wreqs \/ Reopen
      BY <1>3, CollectiveFrames
    <3>2. Reopen => \A r \in Rank : wreqs'[r] = <<>>
      BY DEF Reopen
    <3> QED BY <1>1, <1>3, <3>1, <3>2, CollectiveFrames
  <2>2. pc[0] # "mdwrite" /\ pc'[0] # "mdwrite" /\ Closing'
    <3>1. CASE MetaBarrier \/ CloseFile
      <4>1. \A r \in Rank : Op(r)' = "close"
        BY <1>1, <3>1 DEF MetaBarrier, CloseFile, prog, Op
      <4>2. \A r \in Rank : pc'[r] \in {"fclose", "closed"} /\ pc[r] # "mdwrite"
        BY <1>1, <3>1 DEF MetaBarrier, CloseFile, AfterBarrier
      <4> QED BY <1>0, <4>1, <4>2 DEF Closing
    <3>2. CASE Reopen
      <4>1. session' > 1
        <5>1. session \in Nat \ {0} /\ session' = session + 1
          BY <1>0, <3>2 DEF TypeOK, Reopen
        <5> QED BY <5>1
      <4>2. \A r \in Rank : pc'[r] = "app" /\ pc[r] = "closed"
        BY <3>2 DEF Reopen
      <4> QED BY <1>0, <4>1, <4>2 DEF Closing
    <3>3. ~ (FlushNothing \/ CreateLog \/ CreateMeta \/ ReadAll)
      <4>1. pc[0] \notin {"sync", "gather", "readall"}
        BY <1>0, <1>1
      <4> QED BY <1>0, <4>1 DEF FlushNothing, CreateLog, CreateMeta, ReadAll
    <3> QED BY <1>3, <3>1, <3>2, <3>3 DEF Collective
  <2>3. UnitAt(md[k].doff)' = [word |-> NP] \/ Lost(k)'
    BY <1>1, <2>1, <2>2 DEF Lost, UnitAt
  <2> QED BY <2>1, <2>2, <2>3
<1>4. CASE Finished \/ UNCHANGED vars
  <2>1. /\ calls' = calls /\ ncall' = ncall /\ session' = session /\ pc' = pc /\ wreqs' = wreqs
        /\ base' = base /\ mdoffs' = mdoffs /\ disk' = disk
    BY <1>4 DEF Finished, vars, prog, queue, scratch, store
  <2>2. Closing'
    BY <1>1, <2>1 DEF Closing, Op
  <2>3. (Lost(k) => Lost(k)') /\ UnitAt(md[k].doff)' = UnitAt(md[k].doff)
    BY <2>1 DEF Lost, UnitAt
  <2> QED BY <1>1, <2>1, <2>2, <2>3
<1> QED BY <1>2, <1>3, <1>4 DEF Next

\* The metadata dataset of the close stays as its processes left it.
LEMMA LastMetaKept ==
  ASSUME OrderlyInv, ViewInv, [Next]_vars PROVE LastMeta'
<1>1. CASE CreateMeta
  BY <1>1, CreateMetaLast
<1>2. CASE ~CreateMeta
  <2>1. IInv /\ md' = md
    BY <1>2, MetaGrows DEF OrderlyInv
  <2>2. CASE session > 1
    BY <2>1, <2>2, LastMetaReadOnly DEF ViewInv
  <2>3. CASE ~ (session > 1)
    <3> SUFFICES ASSUME NEW k \in DOMAIN md, ~md[k].plain
                 PROVE  /\ k = Len(md) /\ md[k].size = NP + 1
                        /\ Closing' /\ \A r \in Rank : wreqs'[r] = <<>>
                        /\ IF pc'[0] = "mdwrite"
                           THEN base'[0] = md[k].doff /\ mdoffs'[1] = NP /\ Lost(k)'
                           ELSE UnitAt(md[k].doff)' = [word |-> NP] \/ Lost(k)'
      BY <2>1 DEF LastMeta
    <3>1. k = Len(md) /\ md[k].size = NP + 1
      BY DEF ViewInv, LastMeta
    <3>2. /\ Closing' /\ \A r \in Rank : wreqs'[r] = <<>>
          /\ IF pc'[0] = "mdwrite"
             THEN base'[0] = md[k].doff /\ mdoffs'[1] = NP /\ Lost(k)'
             ELSE UnitAt(md[k].doff)' = [word |-> NP] \/ Lost(k)'
      BY <2>1, <2>3, LastMetaClosing DEF ViewInv
    <3> QED BY <3>1, <3>2
  <2> QED BY <2>2, <2>3
<1> QED BY <1>1, <1>2

\* A file just created holds nothing and nothing is queued.
LEMMA InitStoreInv == Init => QueueInv /\ FileInv /\ LoadedInv /\ ViewInv
<1> SUFFICES ASSUME Init PROVE QueueInv /\ FileInv /\ LoadedInv /\ ViewInv
  OBVIOUS
<1>1. QueueInv
  BY EmptySeq DEF Init, QueueInv, QueueOrder, QueueIssued, QueueFlushed, QueueEmptied, Placed
<1>2. FileInv
  BY DEF Init, FileInv, MetaPlaced, Ledger, Kept
<1>3. LoadedInv
  BY DEF Init, LoadedInv, LoadClean, Quiet
<1>4. ViewInv
  <2>1. ViewsRead
    BY DEF Init, ViewsRead
  <2>2. DOMAIN ld = {} /\ DOMAIN md = {}
    BY DEF Init
  <2> QED BY <2>1, <2>2 DEF ViewInv, LogsPlain, LastMeta
<1> QED BY <1>1, <1>2, <1>3, <1>4

\* Every step of an orderly program follows its writes.
LEMMA NextStoreInv ==
  ASSUME Orderly, StoreInv, [Next]_vars PROVE (QueueInv /\ FileInv /\ LoadedInv /\ ViewInv)'
<1>1. QueueInv'
  BY QueueInvKept DEF StoreInv
<1>2. FileInv'
  BY MetaPlacedKept, LedgerKept, KeptKept DEF StoreInv, FileInv, ViewInv
<1>3. LoadedInv'
  BY LoadCleanKept, QuietKept DEF StoreInv, LoadedInv, ViewInv
<1>4. ViewInv'
  BY ViewsReadKept, LogsPlainKept, LastMetaKept DEF StoreInv, OrderlyInv, ViewInv
<1> QED BY <1>1, <1>2, <1>3, <1>4

\* The invariant that follows the writes of an orderly program into the file
\* holds in every behaviour of it.
THEOREM StoreInvariantHolds == Orderly /\ Spec => []StoreInv
<1>1. CASE Orderly
  <2>1. StoreInv /\ [Next]_vars => (QueueInv /\ FileInv /\ LoadedInv /\ ViewInv)'
    BY <1>1, NextStoreInv
  <2>2. Spec => []OrderlyInv
    BY <1>1, OrderlyInvariantHolds, PTL
  <2> QED BY <2>1, <2>2, InitStoreInv, PTL DEF Spec, StoreInv
<1>2. CASE ~Orderly
  BY <1>2
<1> QED BY <1>1, <1>2

\* When a file is closed, the metadata datasets _int_att counts describe every
\* write of the program.
LEMMA StoreInvCloses == StoreInv => CloseKeepsAll
<1> SUFFICES ASSUME StoreInv, \A r \in Rank : pc[r] = "closed", NEW w \in issued
             PROVE  \E e \in placed :
                      e.w = w /\ ~e.ref /\ \E k \in 1 .. att.nmdset : e \in EntriesOf(md[k])
  BY DEF CloseKeepsAll
<1>0. IInv /\ TypeOK /\ MetaCut
  BY DEF StoreInv, OrderlyInv, IInv, IndexInv
<1>1. wreqs[w.rank] = <<>>
  <2>1. w.rank \in Rank
    BY <1>0 DEF TypeOK, Write
  <2> QED BY <2>1 DEF StoreInv, QueueInv, QueueEmptied
<1>2. PICK e \in placed : InMeta(e) /\ e.w = w /\ ~e.ref
  BY <1>1 DEF StoreInv, FileInv, Ledger
<1>3. PICK k \in DOMAIN md : \E x \in Nat : MetaUnit(k, x) /\ UnitAt(x) = e
  BY <1>2 DEF InMeta
<1>4. e \in EntriesOf(md[k])
  <2>1. PICK x \in Nat : MetaUnit(k, x) /\ UnitAt(x) = e
    BY <1>3
  <2>2. PICK d \in Nat, s \in Nat : d = md[k].doff /\ s = md[k].size
    BY <1>0, DatasetTypes
  <2>3. Sections(md[k]) = NP /\ NP \in Nat
    BY <1>0, <2>1, CompleteSections, Constants DEF MetaUnit
  <2>4. d + (NP + 1) <= x /\ x < d + s
    BY <2>1, <2>2 DEF MetaUnit, End
  <2>5. x \in d + NP + 1 .. d + s - 1
    BY <2>2, <2>3, <2>4
  <2> QED BY <2>1, <2>2, <2>3, <2>5 DEF EntriesOf
<1>5. DOMAIN md = 1 .. att.nmdset
  <2>1. att.nmdset = Len(md) /\ md \in Seq(Dataset)
    BY <1>0, Constants DEF IInv, AttCounts, TypeOK
  <2> QED BY <2>1, LenProperties
<1> QED BY <1>2, <1>3, <1>4, <1>5

\* For any number of processes and any bounds: when an orderly program has
\* closed its file, every write it made is in the file at the offset of an
\* entry that a reader counting by _int_att will load, whatever the order in
\* which the processes queued, flushed and closed.
THEOREM ClosedFileIsComplete == Disciplined /\ ~EmptyReads /\ Spec => []CloseKeepsAll
<1>1. Disciplined /\ ~EmptyReads => Orderly
  BY DEF Orderly
<1> QED BY <1>1, StoreInvCloses, StoreInvariantHolds, PTL

-----------------------------------------------------------------------------
(* Refinement *)

\* What a search of a valid index answers: the bytes of a flushed write of the
\* cell, and nothing only when there is no such write.
LEMMA SearchAnswers ==
  ASSUME StoreInv, NEW r \in Rank, NEW c \in Cells, Search(r, c)
  PROVE  \/ /\ \A w \in Placed : w.cell # c
            /\ got' = [got EXCEPT ![r] = Nothing]
         \/ \E w \in Placed : w.cell = c /\ got' = [got EXCEPT ![r] = w]
<1>0. /\ TypeOK /\ Intact /\ LogsPlain /\ pc[r] = "search" /\ Cells \subseteq Nat
  BY Parameters DEF StoreInv, OrderlyInv, IInv, DataInv, ViewInv, Search
<1>1. idx[r] = placed /\ placed \subseteq Entry
  <2>1. idxvalid[r]
    BY <1>0 DEF StoreInv, OrderlyInv, FlagsInv, ValidAgree, Searching
  <2> QED BY <1>0, <2>1 DEF StoreInv, LoadedInv, Quiet, TypeOK
<1>2. \A e \in placed : e.w.cell \in Nat /\ (Overlap(e.w.cell, c) > 0 <=> e.w.cell = c)
  <2> SUFFICES ASSUME NEW e \in placed
               PROVE  /\ e.w.cell \in Nat
                      /\ Overlap(e.w.cell, c) > 0 <=> e.w.cell = c
    OBVIOUS
  <2>1. e.w.cell \in Nat /\ c \in Nat
    BY <1>0, <1>1, EntryFields
  <2> QED BY <2>1 DEF Overlap
<1>3. CASE Hits(r, c) = {} /\ got' = [got EXCEPT ![r] = Nothing]
  <2>1. ASSUME NEW e \in placed, e.w.cell = c PROVE FALSE
    <3>1. e \in idx[r] \cap Entry /\ Overlap(e.w.cell, c) # 0
      <4>1. Overlap(e.w.cell, c) > 0
        BY <1>2, <2>1
      <4>2. Overlap(e.w.cell, c) = 1
        BY <1>2, <2>1 DEF Overlap
      <4> QED BY <1>1, <2>1, <4>1, <4>2
    <3> QED BY <1>3, <3>1 DEF Hits
  <2> QED BY <1>3, <2>1 DEF Placed
<1>4. CASE \E e \in Hits(r, c) : got' = [got EXCEPT ![r] = BytesAt(e)]
  <2>1. PICK e \in Hits(r, c) : got' = [got EXCEPT ![r] = BytesAt(e)]
    BY <1>4
  <2>2. ~Bogus(e, c)
    BY <2>1 DEF Search
  <2>3. e \in placed /\ ~e.ref /\ Overlap(e.w.cell, c) # 0 /\ ~(Overlap(e.w.cell, c) < 0)
    BY <1>1, <2>1, <2>2 DEF Hits, Bogus
  <2>4. Overlap(e.w.cell, c) \in Int
    BY <1>0, <1>2, <2>3 DEF Overlap
  <2>5. e.w.cell = c
    BY <1>2, <2>3, <2>4
  <2>6. BytesAt(e) = e.w /\ e.w \in Placed
    <3>1. PICK k \in DOMAIN ld : HomeIn(e, k)
      BY <1>0, <2>3 DEF Intact
    <3>2. /\ ld[k].doff \in Nat /\ End(ld[k]) \in Nat /\ End(ld[k]) = ld[k].doff + ld[k].size
          /\ e.foff \in Nat \cup {Unset} /\ e.w.size \in Nat /\ e.w.size >= 1
      BY <1>0, <1>1, <2>3, DatasetTypes, EntryFields DEF End
    <3>3. ld[k].doff <= e.foff /\ e.foff + e.w.size <= End(ld[k])
      BY <3>1 DEF HomeIn
    <3>4. InLog(e, k)
      BY <3>2, <3>3 DEF InLog, Unset
    <3>5. FlushedDataIntact
      BY DataInvSuffices DEF StoreInv, OrderlyInv
    <3> QED BY <1>0, <2>3, <3>4, <3>5 DEF FlushedDataIntact, LogsPlain, Placed
  <2> QED BY <2>1, <2>5, <2>6
<1> QED BY <1>3, <1>4 DEF Search

\* The initial state of the file is that of the store.
LEMMA InitRefines == Init => Store!Init
BY DEF Init, Store!Init, Placed

\* Every step of the file is a step of the store or changes nothing it shows:
\* H5Dwrite puts, a process's share of a data flush commits its pending writes,
\* and the search of a read gets.
LEMMA NextRefines ==
  ASSUME Orderly, StoreInv, [Next]_vars PROVE [Store!Next]_Store!vars
<1>0. IInv /\ TypeOK /\ PcOp /\ QueueInv /\ Placed \subseteq issued /\ issued \subseteq Write
  BY DEF StoreInv, OrderlyInv, IInv, CallsInv, QueueInv, QueueIssued, TypeOK
<1>1. CASE UNCHANGED <<issued, placed, got>>
  BY <1>1 DEF Store!vars, Placed
<1>2. ASSUME NEW r \in Rank, NEW c \in Cells, NEW s \in Sizes, H5Dwrite(r, c, s)
      PROVE  [Store!Next]_Store!vars
  <2>1. PICK w \in Write : issued' = issued \cup {w}
    BY <1>0, <1>2, WriteQueueInv
  <2>2. Placed' = Placed /\ got' = got
    BY <1>2 DEF H5Dwrite, store, Placed
  <2>3. CASE w \in issued
    BY <2>1, <2>2, <2>3 DEF Store!vars
  <2>4. CASE w \notin issued
    <3>1. Store!Put(w)
      BY <1>0, <2>1, <2>2, <2>4 DEF Store!Put
    <3> QED BY <3>1 DEF Store!Next
  <2> QED BY <2>3, <2>4
<1>3. ASSUME NEW r \in Rank, WriteLog(r) PROVE [Store!Next]_Store!vars
  <2> DEFINE S == Placed' \ Placed
  <2>1. issued' = issued /\ got' = got
    BY <1>0, <1>3, WriteLogQueue
  <2>2. Placed \subseteq Placed'
    BY PlacedGrows DEF Placed
  <2>3. Placed' \subseteq issued'
    BY QueueInvKept DEF StoreInv, QueueInv, QueueIssued
  <2>4. S \subseteq issued \ Placed
    BY <2>1, <2>3
  <2>5. CASE S = {}
    BY <2>1, <2>2, <2>5 DEF Store!vars
  <2>6. CASE S # {}
    <3>1. /\ issued' \ Placed' = (issued \ Placed) \ S
          /\ Placed' = Placed \cup S
      BY <2>1, <2>2
    <3>2. Store!Commit(S)
      BY <2>1, <2>6, <3>1 DEF Store!Commit
    <3> QED BY <2>4, <3>2 DEF Store!Next
  <2> QED BY <2>5, <2>6
<1>4. ASSUME NEW r \in Rank, NEW c \in Cells, Search(r, c) PROVE [Store!Next]_Store!vars
  <2>1. issued' = issued /\ Placed' = Placed
    BY <1>4 DEF Search, prog, store, Placed
  <2>2. Store!Get(r, c)
    BY <1>4, <2>1, SearchAnswers DEF Store!Get, Store!Answers
  <2> QED BY <2>2 DEF Store!Next
<1>5. CASE Collective \/ Reopen
  BY <1>1, <1>5, CollectiveFrames
<1>6. CASE Finished \/ UNCHANGED vars
  BY <1>1, <1>6 DEF Finished, vars, prog, store
<1>7. ASSUME NEW r \in Rank, Step(r) PROVE [Store!Next]_Store!vars
  BY <1>0, <1>1, <1>2, <1>3, <1>4, <1>7, StepFrames
<1> QED BY <1>5, <1>6, <1>7 DEF Next

\* For any number of processes and any bounds: run by an orderly program, the
\* log-structured file with its queues, offsets, metadata datasets and indexes
\* is a store in which a flush commits and a read answers with a committed
\* write of its cell, or with nothing when there is none.
THEOREM FileImplementsStore == Disciplined /\ ~EmptyReads /\ Spec => StoreSpec
<1>1. CASE Disciplined /\ ~EmptyReads
  <2>1. Orderly
    BY <1>1 DEF Orderly
  <2>2. StoreInv /\ [Next]_vars => [Store!Next]_Store!vars
    BY <2>1, NextRefines
  <2>3. Spec => []StoreInv
    BY <2>1, StoreInvariantHolds, PTL
  <2> QED BY <2>2, <2>3, InitRefines, PTL DEF Spec, StoreSpec, Store!Spec
<1>2. CASE ~(Disciplined /\ ~EmptyReads)
  BY <1>2
<1> QED BY <1>1, <1>2
=============================================================================
