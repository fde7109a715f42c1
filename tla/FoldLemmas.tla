------------------------------ MODULE FoldLemmas ------------------------------
(***************************************************************************)
(* What the recursive definitions that other modules use compute, for      *)
(* every input: SumFunctionOnSet over finite sets, with which Buffers      *)
(* counts memory, MetaEntry encodes coordinates and Selections sizes; the  *)
(* product of their Volume; functions of the numbers defined by their      *)
(* predecessor; FlattenSeq, of pieces of one length and of any; and        *)
(* FoldLeft, with which ReadPlan trims runs.                               *)
(*                                                                         *)
(* These facts need induction.  It is made here from LeastNat, as < is     *)
(* well-founded: the numbers, or sizes of sets, for which a claim fails    *)
(* would have a least one (AllNat, and for sets the lemma Smaller).        *)
(***************************************************************************)
EXTENDS Integers, SequencesExt, TLAPS, WellFoundedInduction, FiniteSetTheorems,
        SequenceTheorems

\* Every nonempty set of natural numbers has a least one.
LEMMA LeastNat ==
  ASSUME NEW T \in SUBSET Nat, T # {}
  PROVE  \E m \in T : \A n \in T : m <= n
<1> DEFINE R == {ss \in Nat \X Nat : ss[1] < ss[2]}
<1>1. IsWellFoundedOn(R, Nat)
  BY NatLessThanWellFounded DEF OpToRel
<1> HIDE DEF R
<1>2. \E x \in T : \A y \in T : ~(<<y, x>> \in R)
  BY <1>1, WFMin
<1>3. \A x \in T, y \in T : y < x => <<y, x>> \in R
  BY DEF R
<1>4. \E x \in T : \A y \in T : ~(y < x)
  BY <1>2, <1>3
<1> QED BY <1>4

\* A set of naturals with 0 and with every successor of a member has them all.
LEMMA AllNat ==
  ASSUME NEW T \in SUBSET Nat, 0 \in T, \A n \in T : n + 1 \in T
  PROVE  T = Nat
<1> SUFFICES ASSUME T # Nat PROVE FALSE
  OBVIOUS
<1>1. PICK m \in Nat \ T : \A n \in Nat \ T : m <= n
  <2> DEFINE U == Nat \ T
  <2>1. U \in SUBSET Nat /\ U # {} OBVIOUS
  <2> HIDE DEF U
  <2>2. \E m \in U : \A n \in U : m <= n BY <2>1, LeastNat
  <2> QED BY <2>2 DEF U
<1>2. m # 0 /\ m - 1 \in Nat /\ ~(m <= m - 1)
  OBVIOUS
<1>3. m - 1 \in T
  BY <1>1, <1>2
<1> QED BY <1>1, <1>2, <1>3

-----------------------------------------------------------------------------
(* Folding a function over the subsets of a finite set *)

AnyOf(s) == CHOOSE x \in s : TRUE

\* The operation is a function, so that lemmas can be about any: it need not
\* matter in which order two elements are taken.
Commutes(V, op, e) ==
  /\ e \in V /\ op \in [V \X V -> V]
  /\ \A a, b, c \in V : op[<<a, op[<<b, c>>]>>] = op[<<b, op[<<a, c>>]>>]

FoldsTo(g, op, e, fun, s) ==
  g[s] = IF s = {} THEN e ELSE op[<<fun[AnyOf(s)], g[s \ {AnyOf(s)}]>>]
FoldOf(V, op, e, fun, S) ==
  {g \in [SUBSET S -> V] : \A s \in SUBSET S : FoldsTo(g, op, e, fun, s)}

\* A set without one of its elements is a smaller set.
LEMMA Smaller ==
  ASSUME NEW s, IsFiniteSet(s), NEW x \in s
  PROVE  /\ IsFiniteSet(s \ {x}) /\ Cardinality(s) \in Nat /\ Cardinality(s \ {x}) \in Nat
         /\ Cardinality(s) = Cardinality(s \ {x}) + 1
<1>1. IsFiniteSet(s \ {x}) /\ Cardinality(s \ {x}) = Cardinality(s) - 1
  BY FS_RemoveElement
<1> QED BY <1>1, FS_CardinalityType

\* It is an element.
LEMMA AnyIsElement == ASSUME NEW s, s # {} PROVE AnyOf(s) \in s
BY DEF AnyOf

\* There is a fold: one for the sets of at most n elements can be continued to
\* those of n + 1.
LEMMA FoldExists ==
  ASSUME NEW V, NEW op, NEW e, Commutes(V, op, e),
         NEW S, IsFiniteSet(S), NEW fun, \A x \in S : fun[x] \in V
  PROVE  FoldOf(V, op, e, fun, S) # {}
<1> DEFINE Upto(n) == {s \in SUBSET S : Cardinality(s) <= n}
           Solves(n, g) == g \in [Upto(n) -> V] /\ \A s \in Upto(n) : FoldsTo(g, op, e, fun, s)
           T == {n \in Nat : \E g : Solves(n, g)}
<1>0. \A s \in SUBSET S : IsFiniteSet(s) /\ Cardinality(s) \in Nat
  BY FS_Subset, FS_CardinalityType
<1>1. 0 \in T
  <2>1. \A s \in Upto(0) : s = {}
    BY <1>0, FS_EmptySet
  <2> DEFINE g == [s \in Upto(0) |-> e]
  <2>2. Solves(0, g)
    BY <2>1 DEF Commutes, FoldsTo
  <2> QED BY <2>2
<1>2. ASSUME NEW n \in T PROVE n + 1 \in T
  <2>1. PICK g : Solves(n, g)
    OBVIOUS
  <2> DEFINE value(s) == IF s = {} THEN e ELSE op[<<fun[AnyOf(s)], g[s \ {AnyOf(s)}]>>]
             h == [s \in Upto(n + 1) |-> value(s)]
  <2>2. \A s \in Upto(n + 1) : s # {} =>
          s \ {AnyOf(s)} \in Upto(n) /\ s \ {AnyOf(s)} \in Upto(n + 1) /\ fun[AnyOf(s)] \in V
    <3> SUFFICES ASSUME NEW s \in Upto(n + 1), s # {}
                 PROVE  /\ s \ {AnyOf(s)} \in Upto(n) /\ s \ {AnyOf(s)} \in Upto(n + 1)
                        /\ fun[AnyOf(s)] \in V
      OBVIOUS
    <3>1. AnyOf(s) \in s /\ IsFiniteSet(s)
      BY <1>0, AnyIsElement
    <3>2. Cardinality(s) = Cardinality(s \ {AnyOf(s)}) + 1 /\ Cardinality(s \ {AnyOf(s)}) \in Nat
      BY <3>1, Smaller
    <3> QED BY <3>1, <3>2
  <2>3. \A s \in Upto(n) : h[s] = g[s]
    <3> SUFFICES ASSUME NEW s \in Upto(n) PROVE h[s] = g[s]
      OBVIOUS
    <3>1. s \in Upto(n + 1)
      BY <1>0
    <3>2. g[s] = value(s)
      BY <2>1 DEF FoldsTo
    <3> QED BY <3>1, <3>2
  <2>4. \A s \in Upto(n + 1) : value(s) \in V
    <3> SUFFICES ASSUME NEW s \in Upto(n + 1) PROVE value(s) \in V
      OBVIOUS
    <3>1. CASE s = {}
      BY <3>1 DEF Commutes
    <3>2. CASE s # {}
      <4>1. fun[AnyOf(s)] \in V /\ g[s \ {AnyOf(s)}] \in V
        BY <3>2, <2>1, <2>2
      <4> QED BY <3>2, <4>1 DEF Commutes
    <3> QED BY <3>1, <3>2
  <2>5. \A s \in Upto(n + 1) : FoldsTo(h, op, e, fun, s)
    <3> SUFFICES ASSUME NEW s \in Upto(n + 1) PROVE FoldsTo(h, op, e, fun, s)
      OBVIOUS
    <3>1. s # {} => h[s \ {AnyOf(s)}] = g[s \ {AnyOf(s)}]
      BY <2>2, <2>3
    <3>2. h[s] = value(s)
      OBVIOUS
    <3> HIDE DEF h
    <3> QED BY <3>1, <3>2 DEF FoldsTo
  <2>6. Solves(n + 1, h)
    <3>1. h \in [Upto(n + 1) -> V]
      BY <2>4
    <3> QED BY <3>1, <2>5
  <2> HIDE DEF Solves
  <2>7. n + 1 \in Nat /\ \E f : Solves(n + 1, f)
    BY <2>6
  <2> QED BY <2>7
<1>3. Cardinality(S) \in T
  <2>1. T \in SUBSET Nat OBVIOUS
  <2> HIDE DEF T
  <2>2. T = Nat BY <1>1, <1>2, <2>1, AllNat
  <2> QED BY <2>2, FS_CardinalityType
<1>4. Upto(Cardinality(S)) = SUBSET S
  BY FS_Subset
<1>5. PICK g : Solves(Cardinality(S), g)
  BY <1>3
<1>6. g \in FoldOf(V, op, e, fun, S)
  BY <1>4, <1>5 DEF FoldOf
<1> QED BY <1>6

\* Every subset has a fold of its own, which is that of the whole set on it:
\* what is folded depends on the elements only.
LEMMA FoldSame ==
  ASSUME NEW V, NEW op, NEW e, Commutes(V, op, e),
         NEW S, NEW fun, NEW g \in FoldOf(V, op, e, fun, S),
         NEW R, NEW gun, NEW h \in FoldOf(V, op, e, gun, R),
         NEW u, u \subseteq S, u \subseteq R, IsFiniteSet(u), \A x \in u : fun[x] = gun[x]
  PROVE  g[u] = h[u]
<1> DEFINE T == {n \in Nat : \A s \in SUBSET u : Cardinality(s) = n => g[s] = h[s]}
<1>0. \A s \in SUBSET u : IsFiniteSet(s) /\ Cardinality(s) \in Nat
  BY FS_Subset, FS_CardinalityType
<1>1. \A s \in SUBSET u : FoldsTo(g, op, e, fun, s) /\ FoldsTo(h, op, e, gun, s)
  BY DEF FoldOf
<1>2. 0 \in T
  <2>1. \A s \in SUBSET u : Cardinality(s) = 0 => s = {}
    BY <1>0, FS_EmptySet
  <2> QED BY <1>1, <2>1 DEF FoldsTo
<1>3. ASSUME NEW n \in T PROVE n + 1 \in T
  <2>1. SUFFICES ASSUME NEW s \in SUBSET u, Cardinality(s) = n + 1 PROVE g[s] = h[s]
    OBVIOUS
  <2>2. s # {}
    BY <2>1, <1>0, FS_EmptySet
  <2>3. AnyOf(s) \in s
    BY <2>2, AnyIsElement
  <2>4. s \ {AnyOf(s)} \in SUBSET u /\ Cardinality(s \ {AnyOf(s)}) = n
    BY <2>1, <2>3, <1>0, Smaller
  <2>5. g[s \ {AnyOf(s)}] = h[s \ {AnyOf(s)}] /\ fun[AnyOf(s)] = gun[AnyOf(s)]
    BY <2>3, <2>4
  <2> QED BY <2>2, <2>5, <1>1 DEF FoldsTo
<1>4. T = Nat
  <2>1. T \in SUBSET Nat OBVIOUS
  <2> HIDE DEF T
  <2> QED BY <1>2, <1>3, <2>1, AllNat
<1> QED BY <1>0, <1>4

\* Any element can be taken out first.
LEMMA FoldRemove ==
  ASSUME NEW V, NEW op, NEW e, Commutes(V, op, e),
         NEW S, IsFiniteSet(S), NEW fun, \A x \in S : fun[x] \in V,
         NEW g \in FoldOf(V, op, e, fun, S), NEW y \in S
  PROVE  g[S] = op[<<fun[y], g[S \ {y}]>>]
<1> DEFINE T == {n \in Nat : \A s \in SUBSET S, x \in S :
                   x \in s /\ Cardinality(s) = n => g[s] = op[<<fun[x], g[s \ {x}]>>]}
<1>0. \A s \in SUBSET S : /\ IsFiniteSet(s) /\ Cardinality(s) \in Nat /\ g[s] \in V
                          /\ FoldsTo(g, op, e, fun, s)
  BY FS_Subset, FS_CardinalityType DEF FoldOf
<1>1. 0 \in T
  BY <1>0, FS_EmptySet
<1>2. ASSUME NEW n \in T PROVE n + 1 \in T
  <2>1. SUFFICES ASSUME NEW s \in SUBSET S, NEW x \in s, Cardinality(s) = n + 1
                 PROVE  g[s] = op[<<fun[x], g[s \ {x}]>>]
    OBVIOUS
  <2> DEFINE a == AnyOf(s)
  <2>2. a \in s
    BY AnyIsElement
  <2>3. g[s] = op[<<fun[a], g[s \ {a}]>>]
    BY <2>2, <1>0 DEF FoldsTo
  <2> HIDE DEF a
  <2>4. CASE a = x
    BY <2>3, <2>4
  <2>5. CASE a # x
    <3>1. /\ Cardinality(s \ {a}) = n /\ s \ {a} \in SUBSET S /\ x \in s \ {a}
          /\ Cardinality(s \ {x}) = n /\ s \ {x} \in SUBSET S /\ a \in s \ {x}
      BY <2>1, <2>2, <2>5, <1>0, Smaller
    <3>2. g[s \ {a}] = op[<<fun[x], g[(s \ {a}) \ {x}]>>]
      BY <3>1
    <3>3. g[s \ {x}] = op[<<fun[a], g[(s \ {x}) \ {a}]>>]
      BY <2>2, <3>1
    <3>4. (s \ {a}) \ {x} = (s \ {x}) \ {a} /\ (s \ {x}) \ {a} \in SUBSET S
      OBVIOUS
    <3>5. fun[a] \in V /\ fun[x] \in V /\ g[(s \ {x}) \ {a}] \in V
      BY <2>2, <3>4, <1>0
    <3> DEFINE z == g[(s \ {x}) \ {a}]
    <3>8. z \in V
      BY <3>5
    <3> HIDE DEF z
    <3>6. op[<<fun[a], op[<<fun[x], z>>]>>] = op[<<fun[x], op[<<fun[a], z>>]>>]
      <4>1. \A i, j, k \in V : op[<<i, op[<<j, k>>]>>] = op[<<j, op[<<i, k>>]>>]
        BY DEF Commutes
      <4> QED BY <4>1, <3>5, <3>8
    <3>7. g[s \ {a}] = op[<<fun[x], z>>] /\ g[s \ {x}] = op[<<fun[a], z>>]
      BY <3>2, <3>3, <3>4 DEF z
    <3> QED BY <2>3, <3>6, <3>7
  <2> QED BY <2>4, <2>5
<1>3. T = Nat
  <2>1. T \in SUBSET Nat OBVIOUS
  <2> HIDE DEF T
  <2> QED BY <1>1, <1>2, <2>1, AllNat
<1> QED BY <1>0, <1>3

-----------------------------------------------------------------------------
(* Sums and products *)

Plus == [p \in Int \X Int |-> p[1] + p[2]]
Times == [p \in Int \X Int |-> p[1] * p[2]]

\* Addition is such an operation.
LEMMA PlusCommutes ==
  Commutes(Int, Plus, 0) /\ \A a, b \in Int : Plus[<<a, b>>] = a + b
<1>1. \A a, b \in Int : Plus[<<a, b>>] = a + b
  BY DEF Plus
<1>2. Plus \in [Int \X Int -> Int]
  BY DEF Plus
<1>3. \A a, b, c \in Int : a + (b + c) = b + (a + c) /\ b + c \in Int /\ a + c \in Int
  OBVIOUS
<1> QED BY <1>1, <1>2, <1>3 DEF Commutes

\* So is multiplication.
LEMMA TimesCommutes ==
  Commutes(Int, Times, 1) /\ \A a, b \in Int : Times[<<a, b>>] = a * b
<1>1. \A a, b \in Int : Times[<<a, b>>] = a * b
  BY DEF Times
<1>2. Times \in [Int \X Int -> Int]
  BY DEF Times
<1>3. \A a, b, c \in Int : a * (b * c) = b * (a * c) /\ b * c \in Int /\ a * c \in Int
  OBVIOUS
<1> QED BY <1>1, <1>2, <1>3 DEF Commutes

\* A function on the subsets that folds with an operation on integers, given
\* that its own values are integers, is the fold.
LEMMA IsTheFold ==
  ASSUME NEW op, NEW e, Commutes(Int, op, e),
         NEW S, IsFiniteSet(S), NEW fun, \A x \in S : fun[x] \in Int,
         NEW iter, iter[{}] = e, DOMAIN iter = SUBSET S, iter = [s \in SUBSET S |-> iter[s]],
         \A s \in SUBSET S : s # {} /\ iter[s \ {AnyOf(s)}] \in Int =>
           iter[s] = op[<<fun[AnyOf(s)], iter[s \ {AnyOf(s)}]>>]
  PROVE  iter \in FoldOf(Int, op, e, fun, S)
<1> DEFINE T == {n \in Nat : \A s \in SUBSET S : Cardinality(s) = n =>
                               iter[s] \in Int /\ FoldsTo(iter, op, e, fun, s)}
<1>0. \A s \in SUBSET S : IsFiniteSet(s) /\ Cardinality(s) \in Nat
  BY FS_Subset, FS_CardinalityType
<1>1. 0 \in T
  <2>1. \A s \in SUBSET S : Cardinality(s) = 0 => s = {}
    BY <1>0, FS_EmptySet
  <2> QED BY <2>1 DEF Commutes, FoldsTo
<1>2. ASSUME NEW n \in T PROVE n + 1 \in T
  <2>1. SUFFICES ASSUME NEW s \in SUBSET S, Cardinality(s) = n + 1
                 PROVE  iter[s] \in Int /\ FoldsTo(iter, op, e, fun, s)
    <3>1. n + 1 \in Nat OBVIOUS
    <3> QED BY <3>1
  <2>2. s # {}
    BY <2>1, <1>0, FS_EmptySet
  <2>3. AnyOf(s) \in s
    BY <2>2, AnyIsElement
  <2>4. s \ {AnyOf(s)} \in SUBSET S /\ Cardinality(s \ {AnyOf(s)}) = n
    BY <2>1, <2>3, <1>0, Smaller
  <2>5. iter[s \ {AnyOf(s)}] \in Int /\ fun[AnyOf(s)] \in Int
    BY <2>3, <2>4
  <2>6. iter[s] = op[<<fun[AnyOf(s)], iter[s \ {AnyOf(s)}]>>]
    BY <2>2, <2>5
  <2> QED BY <2>2, <2>5, <2>6 DEF Commutes, FoldsTo
<1>3. T = Nat
  <2>1. T \in SUBSET Nat OBVIOUS
  <2> HIDE DEF T
  <2> QED BY <1>1, <1>2, <2>1, AllNat
<1>4. \A s \in SUBSET S : iter[s] \in Int /\ FoldsTo(iter, op, e, fun, s)
  BY <1>0, <1>3
<1> QED BY <1>4 DEF FoldOf

Product(fun, S) == FoldFunctionOnSet(LAMBDA a, b : a * b, 1, fun, S)

\* The sum of the community modules is the fold with +.
LEMMA SumIsFold ==
  ASSUME NEW S, IsFiniteSet(S), NEW fun, \A x \in S : fun[x] \in Int
  PROVE  \E g \in FoldOf(Int, Plus, 0, fun, S) : SumFunctionOnSet(fun, S) = g[S]
<1> DEFINE Eq(iter) == iter = [s \in SUBSET S |-> IF s = {} THEN 0
                         ELSE LET x == CHOOSE x \in s : TRUE IN fun[x] + iter[s \ {x}]]
<1>1. PICK g : g \in FoldOf(Int, Plus, 0, fun, S)
  BY FoldExists, PlusCommutes
<1>2. Eq(g)
  <2>1. \A s \in SUBSET S : s # {} =>
          AnyOf(s) \in s /\ g[s] = fun[AnyOf(s)] + g[s \ {AnyOf(s)}]
    <3> SUFFICES ASSUME NEW s \in SUBSET S, s # {}
                 PROVE  AnyOf(s) \in s /\ g[s] = fun[AnyOf(s)] + g[s \ {AnyOf(s)}]
      OBVIOUS
    <3>1. AnyOf(s) \in s
      BY AnyIsElement
    <3>2. fun[AnyOf(s)] \in Int /\ g[s \ {AnyOf(s)}] \in Int
      BY <1>1, <3>1 DEF FoldOf
    <3> QED BY <1>1, <3>1, <3>2, PlusCommutes DEF FoldOf, FoldsTo
  <2>2. g[{}] = 0 /\ g = [s \in SUBSET S |-> g[s]]
    BY <1>1 DEF FoldOf, FoldsTo
  <2> QED BY <2>1, <2>2 DEF AnyOf
<1>3. \E iter : Eq(iter) /\ SumFunctionOnSet(fun, S) = iter[S]
  BY <1>2 DEF SumFunctionOnSet, FoldFunctionOnSet, MapThenFoldSet
<1>4. PICK iter : Eq(iter) /\ SumFunctionOnSet(fun, S) = iter[S]
  BY <1>3
<1>5. iter \in FoldOf(Int, Plus, 0, fun, S)
  <2>1. iter[{}] = 0 /\ DOMAIN iter = SUBSET S /\ iter = [s \in SUBSET S |-> iter[s]]
    BY <1>4
  <2>2. \A s \in SUBSET S : s # {} => iter[s] = fun[AnyOf(s)] + iter[s \ {AnyOf(s)}]
    BY <1>4 DEF AnyOf
  <2> HIDE DEF Eq
  <2>3. \A s \in SUBSET S : s # {} /\ iter[s \ {AnyOf(s)}] \in Int =>
          iter[s] = Plus[<<fun[AnyOf(s)], iter[s \ {AnyOf(s)}]>>]
    BY <2>2, PlusCommutes, AnyIsElement
  <2> QED BY <2>1, <2>3, IsTheFold, PlusCommutes
<1> QED BY <1>4, <1>5

\* So is the product, which is a fold over a LAMBDA.
LEMMA ProductIsFold ==
  ASSUME NEW S, IsFiniteSet(S), NEW fun, \A x \in S : fun[x] \in Int
  PROVE  \E g \in FoldOf(Int, Times, 1, fun, S) : Product(fun, S) = g[S]
<1> DEFINE Eq(iter) == iter = [s \in SUBSET S |-> IF s = {} THEN 1
                         ELSE LET x == CHOOSE x \in s : TRUE IN fun[x] * iter[s \ {x}]]
<1>1. PICK g : g \in FoldOf(Int, Times, 1, fun, S)
  BY FoldExists, TimesCommutes
<1>2. Eq(g)
  <2>1. \A s \in SUBSET S : s # {} =>
          AnyOf(s) \in s /\ g[s] = fun[AnyOf(s)] * g[s \ {AnyOf(s)}]
    <3> SUFFICES ASSUME NEW s \in SUBSET S, s # {}
                 PROVE  AnyOf(s) \in s /\ g[s] = fun[AnyOf(s)] * g[s \ {AnyOf(s)}]
      OBVIOUS
    <3>1. AnyOf(s) \in s
      BY AnyIsElement
    <3>2. fun[AnyOf(s)] \in Int /\ g[s \ {AnyOf(s)}] \in Int
      BY <1>1, <3>1 DEF FoldOf
    <3> QED BY <1>1, <3>1, <3>2, TimesCommutes DEF FoldOf, FoldsTo
  <2>2. g[{}] = 1 /\ g = [s \in SUBSET S |-> g[s]]
    BY <1>1 DEF FoldOf, FoldsTo
  <2> QED BY <2>1, <2>2 DEF AnyOf
<1>3. \E iter : Eq(iter) /\ Product(fun, S) = iter[S]
  BY <1>2 DEF Product, FoldFunctionOnSet, MapThenFoldSet
<1>4. PICK iter : Eq(iter) /\ Product(fun, S) = iter[S]
  BY <1>3
<1>5. iter \in FoldOf(Int, Times, 1, fun, S)
  <2>1. iter[{}] = 1 /\ DOMAIN iter = SUBSET S /\ iter = [s \in SUBSET S |-> iter[s]]
    BY <1>4
  <2>2. \A s \in SUBSET S : s # {} => iter[s] = fun[AnyOf(s)] * iter[s \ {AnyOf(s)}]
    BY <1>4 DEF AnyOf
  <2> HIDE DEF Eq
  <2>3. \A s \in SUBSET S : s # {} /\ iter[s \ {AnyOf(s)}] \in Int =>
          iter[s] = Times[<<fun[AnyOf(s)], iter[s \ {AnyOf(s)}]>>]
    BY <2>2, TimesCommutes, AnyIsElement
  <2> QED BY <2>1, <2>3, IsTheFold, TimesCommutes
<1> QED BY <1>4, <1>5

\* Of the sum: it is an integer; an element can be taken out; and it depends on
\* the function inside the set only.
LEMMA SumEmpty == ASSUME NEW fun PROVE SumFunctionOnSet(fun, {}) = 0
<1>1. PICK g \in FoldOf(Int, Plus, 0, fun, {}) : SumFunctionOnSet(fun, {}) = g[{}]
  BY SumIsFold, FS_EmptySet
<1> QED BY <1>1 DEF FoldOf, FoldsTo

\* An element taken out of the set is taken off the sum.
LEMMA SumRemove ==
  ASSUME NEW S, IsFiniteSet(S), NEW fun, \A x \in S : fun[x] \in Int, NEW y \in S
  PROVE  /\ SumFunctionOnSet(fun, S \ {y}) \in Int
         /\ SumFunctionOnSet(fun, S) = fun[y] + SumFunctionOnSet(fun, S \ {y})
<1>1. IsFiniteSet(S \ {y})
  BY FS_RemoveElement
<1>2. PICK g \in FoldOf(Int, Plus, 0, fun, S) : SumFunctionOnSet(fun, S) = g[S]
  BY SumIsFold
<1>3. PICK h \in FoldOf(Int, Plus, 0, fun, S \ {y}) : SumFunctionOnSet(fun, S \ {y}) = h[S \ {y}]
  BY <1>1, SumIsFold
<1>4. g[S \ {y}] = h[S \ {y}]
  BY <1>1, FoldSame, PlusCommutes
<1>5. g[S] = Plus[<<fun[y], g[S \ {y}]>>]
  BY FoldRemove, PlusCommutes
<1>6. g[S \ {y}] \in Int
  BY DEF FoldOf
<1> QED BY <1>2, <1>3, <1>4, <1>5, <1>6, PlusCommutes

\* The sum depends on the values in the set only.
LEMMA SumSame ==
  ASSUME NEW S, IsFiniteSet(S), NEW fun, NEW gun,
         \A x \in S : fun[x] \in Int /\ gun[x] = fun[x]
  PROVE  SumFunctionOnSet(gun, S) = SumFunctionOnSet(fun, S)
<1>1. PICK g \in FoldOf(Int, Plus, 0, fun, S) : SumFunctionOnSet(fun, S) = g[S]
  BY SumIsFold
<1>2. PICK h \in FoldOf(Int, Plus, 0, gun, S) : SumFunctionOnSet(gun, S) = h[S]
  BY SumIsFold
<1>3. g[S] = h[S]
  BY FoldSame, PlusCommutes
<1> QED BY <1>1, <1>2, <1>3

\* The same of the product.
LEMMA ProductEmpty == ASSUME NEW fun PROVE Product(fun, {}) = 1
<1>1. PICK g \in FoldOf(Int, Times, 1, fun, {}) : Product(fun, {}) = g[{}]
  BY ProductIsFold, FS_EmptySet
<1> QED BY <1>1 DEF FoldOf, FoldsTo

\* An element taken out of the set is a factor of the product.
LEMMA ProductRemove ==
  ASSUME NEW S, IsFiniteSet(S), NEW fun, \A x \in S : fun[x] \in Int, NEW y \in S
  PROVE  /\ Product(fun, S \ {y}) \in Int
         /\ Product(fun, S) = fun[y] * Product(fun, S \ {y})
<1>1. IsFiniteSet(S \ {y})
  BY FS_RemoveElement
<1>2. PICK g \in FoldOf(Int, Times, 1, fun, S) : Product(fun, S) = g[S]
  BY ProductIsFold
<1>3. PICK h \in FoldOf(Int, Times, 1, fun, S \ {y}) : Product(fun, S \ {y}) = h[S \ {y}]
  BY <1>1, ProductIsFold
<1>4. g[S \ {y}] = h[S \ {y}]
  BY <1>1, FoldSame, TimesCommutes
<1>5. g[S] = Times[<<fun[y], g[S \ {y}]>>]
  BY FoldRemove, TimesCommutes
<1>6. g[S \ {y}] \in Int
  BY DEF FoldOf
<1> QED BY <1>2, <1>3, <1>4, <1>5, <1>6, TimesCommutes

\* The product depends on the values in the set only.
LEMMA ProductSame ==
  ASSUME NEW S, IsFiniteSet(S), NEW fun, NEW gun,
         \A x \in S : fun[x] \in Int /\ gun[x] = fun[x]
  PROVE  Product(gun, S) = Product(fun, S)
<1>1. PICK g \in FoldOf(Int, Times, 1, fun, S) : Product(fun, S) = g[S]
  BY ProductIsFold
<1>2. PICK h \in FoldOf(Int, Times, 1, gun, S) : Product(gun, S) = h[S]
  BY ProductIsFold
<1>3. g[S] = h[S]
  BY FoldSame, TimesCommutes
<1> QED BY <1>1, <1>2, <1>3

\* A sum of numbers is a number.
LEMMA SumType ==
  ASSUME NEW S, IsFiniteSet(S), NEW fun, \A x \in S : fun[x] \in Int
  PROVE  SumFunctionOnSet(fun, S) \in Int
<1>1. PICK g \in FoldOf(Int, Plus, 0, fun, S) : SumFunctionOnSet(fun, S) = g[S]
  BY SumIsFold
<1> QED BY <1>1 DEF FoldOf

\* A product of numbers is a number.
LEMMA ProductType ==
  ASSUME NEW S, IsFiniteSet(S), NEW fun, \A x \in S : fun[x] \in Int
  PROVE  Product(fun, S) \in Int
<1>1. PICK g \in FoldOf(Int, Times, 1, fun, S) : Product(fun, S) = g[S]
  BY ProductIsFold
<1> QED BY <1>1 DEF FoldOf

\* The sum over a set is the sum over a part of it and the rest.
LEMMA SumSplit ==
  ASSUME NEW S, IsFiniteSet(S), NEW fun, \A x \in S : fun[x] \in Int, NEW F \in SUBSET S
  PROVE  SumFunctionOnSet(fun, S) = SumFunctionOnSet(fun, F) + SumFunctionOnSet(fun, S \ F)
<1> DEFINE Sum(s) == SumFunctionOnSet(fun, s)
           T == {n \in Nat : \A s \in SUBSET S : Cardinality(s) = n =>
                               Sum(S) = Sum(s) + Sum(S \ s)}
<1>0. \A s \in SUBSET S : IsFiniteSet(s) /\ Cardinality(s) \in Nat /\ Sum(s) \in Int
  BY FS_Subset, FS_CardinalityType, SumType
<1>a. \A s \in SUBSET S, x \in S : x \in s => Sum(s) = fun[x] + Sum(s \ {x})
  BY <1>0, SumRemove
<1>b. Sum({}) = 0
  BY SumEmpty
<1> HIDE DEF Sum
<1>1. 0 \in T
  <2>1. \A s \in SUBSET S : Cardinality(s) = 0 => s = {}
    BY <1>0, FS_EmptySet
  <2>2. S \ {} = S /\ Sum(S) \in Int
    BY <1>0
  <2>3. Sum(S) = Sum({}) + Sum(S \ {})
    BY <2>2, <1>b
  <2> QED BY <2>1, <2>3
<1>2. ASSUME NEW n \in T PROVE n + 1 \in T
  <2>1. SUFFICES ASSUME NEW s \in SUBSET S, Cardinality(s) = n + 1
                 PROVE  Sum(S) = Sum(s) + Sum(S \ s)
    OBVIOUS
  <2>2. PICK x : x \in s
    BY <2>1, <1>0, FS_EmptySet
  <2> DEFINE r == s \ {x}
  <2>3. r \in SUBSET S /\ Cardinality(r) = n
    BY <2>1, <2>2, <1>0, Smaller
  <2>4. Sum(S) = Sum(r) + Sum(S \ r)
    BY <2>3
  <2>5. Sum(s) = fun[x] + Sum(r)
    BY <2>2, <1>a
  <2>6. Sum(S \ r) = fun[x] + Sum(S \ s)
    <3>1. (S \ r) \ {x} = S \ s /\ x \in S \ r /\ S \ r \in SUBSET S
      BY <2>2
    <3> QED BY <3>1, <1>a
  <2>7. fun[x] \in Int /\ Sum(r) \in Int /\ Sum(S \ s) \in Int
    BY <2>2, <2>3, <1>0
  <2> HIDE DEF r
  <2> QED BY <2>4, <2>5, <2>6, <2>7
<1>3. T = Nat
  <2>1. T \in SUBSET Nat OBVIOUS
  <2> HIDE DEF T
  <2> QED BY <1>1, <1>2, <2>1, AllNat
<1> QED BY <1>0, <1>3 DEF Sum

-----------------------------------------------------------------------------
(* Recursion over the numbers, and sequences made of pieces *)

\* The functions whose value at a number is made from the one before.
IterationsOf(V, n, step, a) ==
  {f \in [0 .. n -> V] : f[0] = a /\ \A i \in 1 .. n : f[i] = step[<<i, f[i - 1]>>]}

\* There is one.
LEMMA Iterates ==
  ASSUME NEW V, NEW n \in Nat, NEW step \in [(1 .. n) \X V -> V], NEW a \in V
  PROVE  IterationsOf(V, n, step, a) # {}
<1> DEFINE Good(m, f) == f \in [0 .. m -> V] /\ f[0] = a
                           /\ \A i \in 1 .. m : f[i] = step[<<i, f[i - 1]>>]
           T == {m \in Nat : m <= n => \E f : Good(m, f)}
<1>1. 0 \in T
  <2>1. Good(0, [i \in 0 .. 0 |-> a])
    OBVIOUS
  <2> HIDE DEF Good
  <2> QED BY <2>1
<1>2. ASSUME NEW m \in T PROVE m + 1 \in T
  <2>1. SUFFICES ASSUME m + 1 <= n PROVE \E f : Good(m + 1, f)
    <3>1. m + 1 \in Nat OBVIOUS
    <3> QED BY <3>1
  <2>2. PICK f : Good(m, f)
    <3> HIDE DEF Good
    <3> QED BY <2>1
  <2> DEFINE g == [i \in 0 .. m + 1 |-> IF i = m + 1 THEN step[<<m + 1, f[m]>>] ELSE f[i]]
  <2>3. f[m] \in V /\ step[<<m + 1, f[m]>>] \in V
    BY <2>1, <2>2
  <2>4. g \in [0 .. m + 1 -> V] /\ g[0] = a
    BY <2>2, <2>3
  <2>5. ASSUME NEW i \in 1 .. m + 1 PROVE g[i] = step[<<i, g[i - 1]>>]
    <3>1. m \in Nat /\ i - 1 \in 0 .. m + 1 /\ i - 1 # m + 1 /\ i \in 0 .. m + 1
      OBVIOUS
    <3>2. g[i - 1] = f[i - 1]
      BY <3>1
    <3>3. CASE i = m + 1
      BY <3>1, <3>2, <3>3
    <3>4. CASE i # m + 1
      <4>1. i \in 1 .. m
        BY <3>1, <3>4
      <4>2. f[i] = step[<<i, f[i - 1]>>]
        BY <2>2, <4>1
      <4> QED BY <3>1, <3>2, <3>4, <4>2
    <3> QED BY <3>3, <3>4
  <2>6. Good(m + 1, g)
    <3> HIDE DEF g
    <3> QED BY <2>4, <2>5
  <2> HIDE DEF Good
  <2> QED BY <2>6
<1>3. T = Nat
  <2>1. T \in SUBSET Nat OBVIOUS
  <2> HIDE DEF T
  <2> QED BY <1>1, <1>2, <2>1, AllNat
<1>4. \E f : Good(n, f)
  <2> HIDE DEF Good
  <2> QED BY <1>3
<1> QED BY <1>4 DEF IterationsOf

\* Numbers times a size, in order.
LEMMA Multiples ==
  ASSUME NEW L \in Nat, NEW i \in Nat, NEW m \in Nat
  PROVE  /\ i * L \in Nat /\ (i + 1) * L = i * L + L
         /\ i <= m => i * L <= m * L
<1>1. ASSUME i <= m PROVE i * L <= m * L
  <2>1. PICK d \in Nat : m = i + d
    <3>1. m - i \in Nat /\ m = i + (m - i)
      BY <1>1
    <3> QED BY <3>1
  <2>2. m * L = i * L + d * L /\ i * L \in Nat /\ d * L \in Nat
    BY <2>1
  <2> QED BY <2>2
<1>2. i * L \in Nat /\ (i + 1) * L = i * L + L
  OBVIOUS
<1> QED BY <1>1, <1>2

\* FlattenSeq appends one piece after the other.
LEMMA FlattenSteps ==
  ASSUME NEW V, NEW p \in Seq(Seq(V)), Len(p) # 0
  PROVE  \E f : /\ FlattenSeq(p) = f[Len(p)] /\ f[1] = p[1]
               /\ \A i \in 1 .. Len(p) : i # 1 => f[i] = f[i - 1] \o p[i]
<1> DEFINE n == Len(p)
           Eq(f) == f = [i \in 1 .. Len(p) |-> IF i = 1 THEN p[i] ELSE f[i - 1] \o p[i]]
<1>a. n \in Nat /\ \A i \in 1 .. n : p[i] \in Seq(V)
  BY ElementOfSeq, LenProperties
<1>b. n # 0
  OBVIOUS
<1> HIDE DEF n
<1>1. \E f : Eq(f)
  <2> DEFINE step == [q \in (1 .. n) \X Seq(V) |-> q[2] \o p[q[1]]]
  <2>1. step \in [(1 .. n) \X Seq(V) -> Seq(V)]
    BY <1>a, ConcatProperties
  <2>2. \A i \in 1 .. n, s \in Seq(V) : step[<<i, s>>] = s \o p[i]
    OBVIOUS
  <2> HIDE DEF step
  <2>3. PICK f \in [0 .. n -> Seq(V)] :
          f[0] = <<>> /\ \A i \in 1 .. n : f[i] = step[<<i, f[i - 1]>>]
    <3> DEFINE W == Seq(V)
               e == <<>>
    <3>1. e \in W /\ step \in [(1 .. n) \X W -> W] /\ n \in Nat
      BY <1>a, <2>1
    <3> HIDE DEF W, e
    <3>2. IterationsOf(W, n, step, e) # {}
      BY <3>1, Iterates
    <3> QED BY <3>2 DEF W, e, IterationsOf
  <2>4. \A i \in 1 .. n : i - 1 \in 0 .. n /\ f[i] = f[i - 1] \o p[i]
    <3> SUFFICES ASSUME NEW i \in 1 .. n
                 PROVE  i - 1 \in 0 .. n /\ f[i] = f[i - 1] \o p[i]
      OBVIOUS
    <3>1. i - 1 \in 0 .. n
      BY <1>a
    <3>2. f[i - 1] \in Seq(V)
      BY <3>1, <2>3
    <3>3. step[<<i, f[i - 1]>>] = f[i - 1] \o p[i]
      BY <3>2, <2>2
    <3> QED BY <3>1, <3>3, <2>3
  <2>5. f[1] = p[1]
    <3>0. 1 \in 1 .. n /\ 1 - 1 = 0
      BY <1>a, <1>b
    <3>1. f[1] = <<>> \o p[1] /\ p[1] \in Seq(V)
      <4>1. f[1] = f[1 - 1] \o p[1]
        BY <2>4, <3>0
      <4>2. f[1 - 1] = <<>>
        BY <2>3, <3>0
      <4> QED BY <1>a, <3>0, <4>1, <4>2
    <3> QED BY <3>1, ConcatEmptySeq
  <2> DEFINE g == [i \in 1 .. n |-> f[i]]
  <2>6. \A i \in 1 .. n : g[i] = IF i = 1 THEN p[i] ELSE g[i - 1] \o p[i]
    <3> SUFFICES ASSUME NEW i \in 1 .. n, i # 1
                 PROVE  g[i] = g[i - 1] \o p[i]
      BY <2>5
    <3>1. i - 1 \in 1 .. n /\ g[i - 1] = f[i - 1] /\ g[i] = f[i]
      BY <1>a
    <3> QED BY <3>1, <2>4
  <2>7. g = [i \in 1 .. n |-> g[i]]
    OBVIOUS
  <2> HIDE DEF g
  <2>8. Eq(g)
    BY <2>6, <2>7 DEF n
  <2> HIDE DEF Eq
  <2> QED BY <2>8
<1>2. \E f : Eq(f) /\ FlattenSeq(p) = f[n]
  <2>1. Eq(CHOOSE f : Eq(f))
    <3> HIDE DEF Eq
    <3> QED BY <1>1
  <2>2. FlattenSeq(p) = (CHOOSE f : Eq(f))[n]
    BY <1>b DEF FlattenSeq, n
  <2> HIDE DEF Eq
  <2> QED BY <2>1, <2>2
<1>3. PICK f : Eq(f) /\ FlattenSeq(p) = f[n]
  BY <1>2
<1>4. f[1] = p[1] /\ \A i \in 1 .. n : i # 1 => f[i] = f[i - 1] \o p[i]
  <2>1. f = [i \in 1 .. n |-> IF i = 1 THEN p[i] ELSE f[i - 1] \o p[i]]
    BY <1>3, Zenon DEF n
  <2>0. 1 \in 1 .. n
    BY <1>a, <1>b
  <2>2. \A i \in 1 .. n : f[i] = IF i = 1 THEN p[i] ELSE f[i - 1] \o p[i]
    BY <2>1, Zenon
  <2> QED BY <2>0, <2>2
<1> QED BY <1>3, <1>4 DEF n

\* The concatenation of n pieces of length L.
LEMMA FlattenEqual ==
  ASSUME NEW V, NEW p \in Seq(Seq(V)), NEW L \in Nat,
         \A i \in 1 .. Len(p) : Len(p[i]) = L
  PROVE  /\ FlattenSeq(p) \in Seq(V) /\ Len(FlattenSeq(p)) = Len(p) * L
         /\ \A i \in 1 .. Len(p), j \in 1 .. L : FlattenSeq(p)[(i - 1) * L + j] = p[i][j]
<1> DEFINE n == Len(p)
           Filled(s, m) == /\ s \in Seq(V) /\ Len(s) = m * L
                           /\ \A i \in 1 .. m, j \in 1 .. L : s[(i - 1) * L + j] = p[i][j]
<1>1. n \in Nat /\ \A i \in 1 .. n : p[i] \in Seq(V) /\ Len(p[i]) = L
  BY ElementOfSeq, LenProperties
<1> HIDE DEF n
<1>2. CASE n = 0
  <2>1. p = <<>> /\ FlattenSeq(p) = p
    BY <1>2, EmptySeq DEF FlattenSeq, n
  <2>2. <<>> \in Seq(V) /\ Len(<<>>) = 0 /\ 0 * L = 0 /\ 1 .. 0 = {}
    OBVIOUS
  <2>3. Len(p) = 0
    BY <1>2 DEF n
  <2> QED BY <2>1, <2>2, <2>3
<1>3. CASE n # 0
  <2>3. PICK f : FlattenSeq(p) = f[n] /\ f[1] = p[1]
                  /\ \A i \in 1 .. n : i # 1 => f[i] = f[i - 1] \o p[i]
    BY <1>3, FlattenSteps DEF n
  <2>4. f[1] = p[1] /\ \A i \in 1 .. n : i # 1 => f[i] = f[i - 1] \o p[i]
    BY <2>3
  <2> DEFINE T == {m \in Nat : m + 1 <= n => Filled(f[m + 1], m + 1)}
  <2>5. 0 \in T
    <3>1. Filled(p[1], 1)
      BY <1>1, <1>3
    <3> HIDE DEF Filled
    <3> QED BY <2>4, <3>1
  <2>6. ASSUME NEW m \in T PROVE m + 1 \in T
    <3>1. SUFFICES ASSUME m + 2 <= n PROVE Filled(f[m + 2], m + 2)
      <4>1. m + 1 \in Nat /\ (m + 1) + 1 = m + 2 OBVIOUS
      <4> HIDE DEF Filled
      <4> QED BY <4>1
    <3>2. m \in Nat /\ m + 1 \in 1 .. n /\ m + 2 \in 1 .. n /\ (m + 2) - 1 = m + 1 /\ m + 2 # 1
      BY <1>1, <3>1
    <3>3. Filled(f[m + 1], m + 1)
      <4> HIDE DEF Filled
      <4> QED BY <3>2
    <3> DEFINE s == f[m + 1]
               t == p[m + 2]
    <3>4. f[m + 2] = s \o t
      BY <2>4, <3>2
    <3>5. s \in Seq(V) /\ Len(s) = (m + 1) * L /\ t \in Seq(V) /\ Len(t) = L
      BY <1>1, <3>2, <3>3
    <3>6. \A i \in 1 .. m + 1, j \in 1 .. L : s[(i - 1) * L + j] = p[i][j]
      BY <3>3
    <3> HIDE DEF s, t
    <3>7. (m + 2) * L = (m + 1) * L + L /\ (m + 1) * L \in Nat
      BY <3>2
    <3>8. s \o t \in Seq(V) /\ Len(s \o t) = (m + 2) * L
      <4>1. s \o t \in Seq(V) /\ Len(s \o t) = Len(s) + Len(t)
              /\ \A i \in 1 .. Len(s) + Len(t) :
                   (s \o t)[i] = IF i <= Len(s) THEN s[i] ELSE t[i - Len(s)]
        BY <3>5, ConcatProperties, Zenon
      <4> QED BY <4>1, <3>5, <3>7
    <3>a. \A i \in 1 .. Len(s) + Len(t) :
            (s \o t)[i] = IF i <= Len(s) THEN s[i] ELSE t[i - Len(s)]
      BY <3>5, ConcatProperties, Zenon
    <3>9. ASSUME NEW i \in 1 .. m + 2, NEW j \in 1 .. L
          PROVE  (s \o t)[(i - 1) * L + j] = p[i][j]
      <4>1. CASE i = m + 2
        <5>1. (i - 1) * L + j = Len(s) + j /\ Len(s) + j \in 1 .. Len(s) + Len(t)
              /\ Len(s) + j > Len(s) /\ Len(s) + j - Len(s) = j
          BY <4>1, <3>2, <3>5, <3>7
        <5>2. (s \o t)[Len(s) + j] = t[j]
          BY <5>1, <3>5, <3>a
        <5> QED BY <4>1, <5>1, <5>2 DEF t
      <4>2. CASE i # m + 2
        <5>1. i - 1 \in Nat /\ i \in Nat /\ i <= m + 1 /\ i \in 1 .. m + 1 /\ j \in Nat
              /\ (i - 1) + 1 = i
          BY <4>2, <3>2
        <5>2. i * L <= (m + 1) * L /\ (i - 1) * L \in Nat /\ i * L = (i - 1) * L + L
              /\ i * L \in Nat
          BY <5>1, <3>2, Multiples
        <5>3. (i - 1) * L + j \in 1 .. Len(s)
          <6> DEFINE a == (i - 1) * L
          <6>1. a \in Nat /\ a + L <= Len(s) /\ Len(s) \in Nat
            BY <5>1, <5>2, <3>5, <3>7
          <6> HIDE DEF a
          <6>2. a + j \in 1 .. Len(s)
            BY <6>1, <5>1
          <6> QED BY <6>2 DEF a
        <5>4. (s \o t)[(i - 1) * L + j] = s[(i - 1) * L + j]
          <6> DEFINE a == (i - 1) * L + j
          <6>1. a \in 1 .. Len(s)
            BY <5>3
          <6> HIDE DEF a
          <6>2. (s \o t)[a] = s[a]
            BY <6>1, <3>5, <3>a
          <6> QED BY <6>2 DEF a
        <5> QED BY <5>1, <5>4, <3>6
      <4> QED BY <4>1, <4>2
    <3> QED BY <3>4, <3>8, <3>9
  <2>7. T = Nat
    <3>1. T \in SUBSET Nat OBVIOUS
    <3> HIDE DEF T
    <3> QED BY <2>5, <2>6, <3>1, AllNat
  <2>8. Filled(f[n], n)
    <3>1. n - 1 \in Nat /\ (n - 1) + 1 = n
      BY <1>1, <1>3
    <3> HIDE DEF Filled
    <3> QED BY <2>7, <3>1
  <2> QED BY <2>3, <2>8 DEF n
<1> QED BY <1>2, <1>3

\* Where piece i of a sequence of sequences ends in their concatenation.
LengthsOf(p) == [i \in DOMAIN p |-> Len(p[i])]
EndOf(p, i) == SumFunctionOnSet(LengthsOf(p), 1 .. i)

\* The ends are the lengths added up.
LEMMA Ends ==
  ASSUME NEW V, NEW p \in Seq(Seq(V))
  PROVE  /\ EndOf(p, 0) = 0
         /\ \A i \in 0 .. Len(p) : EndOf(p, i) \in Nat
         /\ \A i \in 1 .. Len(p) : EndOf(p, i) = EndOf(p, i - 1) + Len(p[i])
         /\ \A i, j \in 0 .. Len(p) : i <= j => EndOf(p, i) <= EndOf(p, j)
<1> DEFINE n == Len(p)
           len == LengthsOf(p)
<1>1. n \in Nat /\ DOMAIN p = 1 .. n /\ \A i \in 1 .. n : len[i] = Len(p[i]) /\ len[i] \in Nat
  BY ElementOfSeq, LenProperties DEF LengthsOf
<1> HIDE DEF n, len
<1>2. EndOf(p, 0) = 0
  <2>1. 1 .. 0 = {}
    OBVIOUS
  <2> QED BY <2>1, SumEmpty DEF EndOf
<1>3. ASSUME NEW i \in 1 .. n
      PROVE  EndOf(p, i - 1) \in Int /\ EndOf(p, i) = EndOf(p, i - 1) + Len(p[i])
  <2> DEFINE S == 1 .. i
  <2>1. IsFiniteSet(S) /\ i \in S /\ S \ {i} = 1 .. i - 1 /\ \A x \in S : len[x] \in Int
    <3>1. i \in Int /\ 1 \in Int /\ S \subseteq 1 .. n /\ S \ {i} = 1 .. i - 1
      BY <1>1
    <3>2. IsFiniteSet(S)
      BY <3>1, FS_Interval
    <3> QED BY <1>1, <3>1, <3>2
  <2> HIDE DEF S
  <2>2. /\ SumFunctionOnSet(len, S \ {i}) \in Int
        /\ SumFunctionOnSet(len, S) = len[i] + SumFunctionOnSet(len, S \ {i})
    BY <2>1, SumRemove
  <2>3. EndOf(p, i) = SumFunctionOnSet(len, S)
    BY DEF EndOf, S, len
  <2>4. EndOf(p, i - 1) = SumFunctionOnSet(len, S \ {i})
    BY <2>1 DEF EndOf, len
  <2> QED BY <1>1, <2>1, <2>2, <2>3, <2>4
<1>4. \A i \in 0 .. n : EndOf(p, i) \in Nat
  <2> DEFINE T == {i \in Nat : i <= n => EndOf(p, i) \in Nat}
  <2>1. 0 \in T
    BY <1>2
  <2>2. ASSUME NEW i \in T PROVE i + 1 \in T
    <3> SUFFICES ASSUME i + 1 <= n PROVE EndOf(p, i + 1) \in Nat
      OBVIOUS
    <3>1. i + 1 \in 1 .. n /\ (i + 1) - 1 = i /\ EndOf(p, i) \in Nat
      BY <1>1
    <3>2. EndOf(p, i + 1) = EndOf(p, i) + Len(p[i + 1])
      BY <3>1, <1>3
    <3> QED BY <3>1, <3>2, <1>1
  <2>3. T = Nat
    <3>1. T \in SUBSET Nat
      OBVIOUS
    <3> HIDE DEF T
    <3> QED BY <2>1, <2>2, <3>1, AllNat
  <2> SUFFICES ASSUME NEW i \in 0 .. n PROVE EndOf(p, i) \in Nat
    OBVIOUS
  <2>4. i \in Nat /\ i <= n
    BY <1>1
  <2> HIDE DEF T
  <2>5. i \in T
    BY <2>3, <2>4
  <2> QED BY <2>4, <2>5 DEF T
<1>5. ASSUME NEW i \in 0 .. n PROVE \A j \in 0 .. n : i <= j => EndOf(p, i) <= EndOf(p, j)
  <2> DEFINE T == {d \in Nat : i + d <= n => EndOf(p, i) <= EndOf(p, i + d)}
  <2>1. 0 \in T
    BY <1>1, <1>4
  <2>2. ASSUME NEW d \in T PROVE d + 1 \in T
    <3> SUFFICES ASSUME i + (d + 1) <= n PROVE EndOf(p, i) <= EndOf(p, i + (d + 1))
      OBVIOUS
    <3>1. i + (d + 1) \in 1 .. n /\ (i + (d + 1)) - 1 = i + d /\ i + d \in 0 .. n
          /\ EndOf(p, i) <= EndOf(p, i + d)
      BY <1>1
    <3>2. EndOf(p, i + (d + 1)) = EndOf(p, i + d) + Len(p[i + (d + 1)])
      BY <3>1, <1>3
    <3>3. EndOf(p, i) \in Nat /\ EndOf(p, i + d) \in Nat /\ Len(p[i + (d + 1)]) \in Nat
      BY <3>1, <1>1, <1>4
    <3> QED BY <3>1, <3>2, <3>3
  <2>3. T = Nat
    <3>1. T \in SUBSET Nat
      OBVIOUS
    <3> HIDE DEF T
    <3> QED BY <2>1, <2>2, <3>1, AllNat
  <2> SUFFICES ASSUME NEW j \in 0 .. n, i <= j PROVE EndOf(p, i) <= EndOf(p, j)
    OBVIOUS
  <2>4. j - i \in Nat /\ i + (j - i) = j
    BY <1>1
  <2> HIDE DEF T
  <2>5. j - i \in T
    BY <2>3, <2>4
  <2> QED BY <2>4, <2>5 DEF T
<1> QED BY <1>2, <1>3, <1>4, <1>5 DEF n

\* A position in the concatenation is a position in one of the pieces.
LEMMA PieceOf ==
  ASSUME NEW V, NEW p \in Seq(Seq(V)), NEW k \in 1 .. EndOf(p, Len(p))
  PROVE  \E i \in 1 .. Len(p) : \E j \in 1 .. Len(p[i]) : k = EndOf(p, i - 1) + j
<1> DEFINE n == Len(p)
           T == {i \in 1 .. n : k <= EndOf(p, i)}
<1>1. n \in Nat /\ EndOf(p, 0) = 0 /\ \A i \in 0 .. n : EndOf(p, i) \in Nat
  BY Ends, LenProperties
<1>2. \A i \in 1 .. n : EndOf(p, i) = EndOf(p, i - 1) + Len(p[i]) /\ Len(p[i]) \in Nat
  BY Ends, ElementOfSeq, LenProperties
<1> HIDE DEF n
<1>3. k \in Nat /\ k >= 1 /\ k <= EndOf(p, n)
  BY <1>1 DEF n
<1>4. n # 0
  BY <1>1, <1>3
<1>5. T \in SUBSET Nat /\ n \in T
  BY <1>1, <1>3, <1>4
<1>6. PICK i \in T : \A j \in T : i <= j
  <2> HIDE DEF T
  <2>1. T # {}
    BY <1>5
  <2> QED BY <1>5, <2>1, LeastNat
<1>7. i \in 1 .. n /\ i - 1 \in 0 .. n /\ k <= EndOf(p, i) /\ EndOf(p, i - 1) < k
  <2>1. i \in 1 .. n /\ i - 1 \in 0 .. n /\ k <= EndOf(p, i)
    BY <1>1
  <2>2. CASE i = 1
    <3>1. i - 1 = 0
      BY <2>2
    <3> QED BY <1>1, <1>3, <2>1, <3>1
  <2>3. CASE i # 1
    <3>1. i - 1 \in 1 .. n /\ ~(i <= i - 1)
      BY <2>1, <2>3
    <3>2. i - 1 \notin T
      BY <3>1, <1>6
    <3>3. ~(k <= EndOf(p, i - 1)) /\ EndOf(p, i - 1) \in Nat
      BY <3>1, <3>2, <2>1, <1>1
    <3> QED BY <2>1, <3>3, <1>3
  <2> QED BY <2>2, <2>3
<1> DEFINE j == k - EndOf(p, i - 1)
<1>8. j \in 1 .. Len(p[i]) /\ k = EndOf(p, i - 1) + j
  <2>1. EndOf(p, i) = EndOf(p, i - 1) + Len(p[i]) /\ Len(p[i]) \in Nat
        /\ EndOf(p, i - 1) \in Nat
    BY <1>1, <1>2, <1>7
  <2> QED BY <2>1, <1>3, <1>7
<1> HIDE DEF j, T
<1> QED BY <1>7, <1>8 DEF n

\* The concatenation has every piece in its place.
LEMMA Flatten ==
  ASSUME NEW V, NEW p \in Seq(Seq(V))
  PROVE  /\ FlattenSeq(p) \in Seq(V) /\ Len(FlattenSeq(p)) = EndOf(p, Len(p))
         /\ \A i \in 1 .. Len(p) : \A j \in 1 .. Len(p[i]) :
              FlattenSeq(p)[EndOf(p, i - 1) + j] = p[i][j]
<1> DEFINE n == Len(p)
           Placed(s, m) == /\ s \in Seq(V) /\ Len(s) = EndOf(p, m)
                           /\ \A i \in 1 .. m : \A j \in 1 .. Len(p[i]) :
                                s[EndOf(p, i - 1) + j] = p[i][j]
<1>1. n \in Nat /\ \A i \in 1 .. n : p[i] \in Seq(V) /\ Len(p[i]) \in Nat
  BY ElementOfSeq, LenProperties
<1>2. /\ EndOf(p, 0) = 0
      /\ \A i \in 0 .. n : EndOf(p, i) \in Nat
      /\ \A i \in 1 .. n : EndOf(p, i) = EndOf(p, i - 1) + Len(p[i])
      /\ \A i, j \in 0 .. n : i <= j => EndOf(p, i) <= EndOf(p, j)
  BY Ends
<1> HIDE DEF n
<1>3. CASE n = 0
  <2>1. p = <<>> /\ FlattenSeq(p) = p
    BY <1>3, EmptySeq DEF FlattenSeq, n
  <2>2. <<>> \in Seq(V) /\ Len(<<>>) = 0 /\ 1 .. 0 = {}
    OBVIOUS
  <2>3. Len(p) = 0
    BY <1>3 DEF n
  <2> QED BY <2>1, <2>2, <2>3, <1>2
<1>4. CASE n # 0
  <2>1. PICK f : FlattenSeq(p) = f[n] /\ f[1] = p[1]
                  /\ \A i \in 1 .. n : i # 1 => f[i] = f[i - 1] \o p[i]
    BY <1>4, FlattenSteps DEF n
  <2> DEFINE T == {m \in Nat : m + 1 <= n => Placed(f[m + 1], m + 1)}
  <2>2. 0 \in T
    <3>1. 1 \in 1 .. n /\ 1 - 1 = 0 /\ 0 + 1 = 1
      BY <1>1, <1>4
    <3>2. EndOf(p, 1) = Len(p[1]) /\ p[1] \in Seq(V) /\ Len(p[1]) \in Nat
      BY <3>1, <1>1, <1>2
    <3>3. \A i \in 1 .. 1 : i = 1 /\ i - 1 = 0
      OBVIOUS
    <3>4. \A j \in 1 .. Len(p[1]) : 0 + j = j
      OBVIOUS
    <3>5. Placed(p[1], 1)
      BY <3>2, <3>3, <3>4, <1>2
    <3> HIDE DEF Placed
    <3> QED BY <2>1, <3>1, <3>5
  <2>3. ASSUME NEW m \in T PROVE m + 1 \in T
    <3>1. SUFFICES ASSUME m + 2 <= n PROVE Placed(f[m + 2], m + 2)
      <4>1. m + 1 \in Nat /\ (m + 1) + 1 = m + 2 OBVIOUS
      <4> HIDE DEF Placed
      <4> QED BY <4>1
    <3>2. m \in Nat /\ m + 1 \in 1 .. n /\ m + 2 \in 1 .. n /\ (m + 2) - 1 = m + 1 /\ m + 2 # 1
          /\ m + 1 \in 0 .. n
      BY <1>1, <3>1
    <3>3. Placed(f[m + 1], m + 1)
      <4> HIDE DEF Placed
      <4> QED BY <3>2
    <3> DEFINE s == f[m + 1]
               t == p[m + 2]
    <3>4. f[m + 2] = s \o t
      BY <2>1, <3>2
    <3>5. s \in Seq(V) /\ Len(s) = EndOf(p, m + 1) /\ t \in Seq(V) /\ Len(t) \in Nat
          /\ EndOf(p, m + 2) = EndOf(p, m + 1) + Len(t) /\ EndOf(p, m + 1) \in Nat
      BY <1>1, <1>2, <3>2, <3>3
    <3>6. \A i \in 1 .. m + 1 : \A j \in 1 .. Len(p[i]) : s[EndOf(p, i - 1) + j] = p[i][j]
      BY <3>3
    <3>7. t = p[m + 2]
      OBVIOUS
    <3> HIDE DEF s, t
    <3>8. s \o t \in Seq(V) /\ Len(s \o t) = Len(s) + Len(t)
              /\ \A i \in 1 .. Len(s) + Len(t) :
                   (s \o t)[i] = IF i <= Len(s) THEN s[i] ELSE t[i - Len(s)]
      BY <3>5, ConcatProperties, Zenon
    <3>9. ASSUME NEW i \in 1 .. m + 2, NEW j \in 1 .. Len(p[i])
          PROVE  (s \o t)[EndOf(p, i - 1) + j] = p[i][j]
      <4>1. CASE i = m + 2
        <5>0. i - 1 = m + 1 /\ j \in 1 .. Len(t)
          BY <4>1, <3>2, <3>7
        <5>1. EndOf(p, i - 1) + j = Len(s) + j /\ Len(s) + j \in 1 .. Len(s) + Len(t)
              /\ Len(s) + j > Len(s) /\ Len(s) + j - Len(s) = j
          BY <5>0, <3>2, <3>5
        <5>2. (s \o t)[Len(s) + j] = t[j]
          <6> DEFINE a == Len(s) + j
          <6>1. a \in 1 .. Len(s) + Len(t) /\ a - Len(s) = j /\ ~(a <= Len(s))
            BY <5>1, <3>5
          <6>2. (s \o t)[a] = IF a <= Len(s) THEN s[a] ELSE t[a - Len(s)]
            BY <6>1, <3>8, Zenon
          <6> HIDE DEF a
          <6>3. (s \o t)[a] = t[j]
            BY <6>1, <6>2, Zenon
          <6> QED BY <6>3 DEF a
        <5> QED BY <4>1, <5>1, <5>2, <3>7
      <4>2. CASE i # m + 2
        <5>1. i \in 1 .. m + 1 /\ i \in 1 .. n /\ i - 1 \in 0 .. n /\ i \in 0 .. n /\ i <= m + 1
          <6>1. i \in Nat /\ 1 <= i /\ i <= m + 1 /\ m + 1 <= n
            BY <4>2, <3>2, <1>1
          <6> QED BY <6>1, <3>2, <1>1
        <5>2. EndOf(p, i) <= EndOf(p, m + 1) /\ EndOf(p, i) = EndOf(p, i - 1) + Len(p[i])
              /\ EndOf(p, i - 1) \in Nat /\ EndOf(p, i) \in Nat
          BY <5>1, <3>2, <1>2
        <5> DEFINE a == EndOf(p, i - 1) + j
        <5>3. a \in 1 .. Len(s) /\ a \in 1 .. Len(s) + Len(t)
          <6>1. j \in Nat /\ 1 <= j /\ j <= Len(p[i]) /\ Len(p[i]) \in Nat
            BY <5>1, <1>1
          <6>2. a \in Nat /\ 1 <= a /\ a <= Len(s) /\ Len(s) \in Nat
            <7>1. Len(s) = EndOf(p, m + 1) /\ Len(s) \in Nat
              BY <3>5
            <7>2. a \in Nat /\ 1 <= a
              BY <6>1, <5>2
            <7>3. a <= EndOf(p, i) /\ EndOf(p, i) <= Len(s)
              BY <6>1, <5>2, <7>1
            <7> HIDE DEF a
            <7> QED BY <5>2, <7>1, <7>2, <7>3
          <6> HIDE DEF a
          <6> QED BY <6>2, <3>5
        <5> HIDE DEF a
        <5>4. (s \o t)[a] = s[a]
          BY <5>3, <3>5, <3>8
        <5> QED BY <5>1, <5>4, <3>6 DEF a
      <4> QED BY <4>1, <4>2
    <3> QED BY <3>4, <3>5, <3>8, <3>9
  <2>4. T = Nat
    <3>1. T \in SUBSET Nat OBVIOUS
    <3> HIDE DEF T
    <3> QED BY <2>2, <2>3, <3>1, AllNat
  <2>5. Placed(f[n], n)
    <3>1. n - 1 \in Nat /\ (n - 1) + 1 = n
      BY <1>1, <1>4
    <3> HIDE DEF Placed
    <3> QED BY <2>4, <3>1
  <2> QED BY <2>1, <2>5 DEF n
<1> QED BY <1>3, <1>4

\* Positions in the whole are ordered by piece and by the position in it.
LEMMA PieceOrder ==
  ASSUME NEW V, NEW p \in Seq(Seq(V)),
         NEW i \in 1 .. Len(p), NEW j \in 1 .. Len(p[i]),
         NEW k \in 1 .. Len(p), NEW l \in 1 .. Len(p[k])
  PROVE  /\ EndOf(p, i - 1) + j \in 1 .. EndOf(p, Len(p))
         /\ EndOf(p, i - 1) + j < EndOf(p, k - 1) + l <=> i < k \/ (i = k /\ j < l)
         /\ EndOf(p, i - 1) + j = EndOf(p, k - 1) + l <=> i = k /\ j = l
<1> DEFINE n == Len(p)
<1>1. /\ n \in Nat /\ \A x \in 0 .. n : EndOf(p, x) \in Nat
      /\ \A x, y \in 0 .. n : x <= y => EndOf(p, x) <= EndOf(p, y)
  BY Ends, LenProperties
<1>2. /\ EndOf(p, i) = EndOf(p, i - 1) + Len(p[i]) /\ Len(p[i]) \in Nat
      /\ EndOf(p, k) = EndOf(p, k - 1) + Len(p[k]) /\ Len(p[k]) \in Nat
  BY Ends, ElementOfSeq, LenProperties
<1> HIDE DEF n
<1>3. /\ i - 1 \in 0 .. n /\ i \in 0 .. n /\ n \in 0 .. n /\ i <= n
      /\ k - 1 \in 0 .. n /\ k \in 0 .. n /\ k <= n
  BY <1>1 DEF n
<1>4. /\ EndOf(p, i - 1) \in Nat /\ EndOf(p, i) \in Nat /\ EndOf(p, n) \in Nat
      /\ EndOf(p, k - 1) \in Nat /\ EndOf(p, k) \in Nat
      /\ EndOf(p, i) <= EndOf(p, n)
  BY <1>1, <1>3
<1>4a. j \in Nat /\ 1 <= j /\ j <= Len(p[i]) /\ l \in Nat /\ 1 <= l /\ l <= Len(p[k])
  BY <1>2
<1> DEFINE a == EndOf(p, i - 1)
           c == EndOf(p, k - 1)
           z == EndOf(p, n)
<1>4b. /\ a \in Nat /\ c \in Nat /\ z \in Nat /\ a + Len(p[i]) <= z
       /\ i < k => a + Len(p[i]) <= c
       /\ k < i => c + Len(p[k]) <= a
  <2>1. i < k => EndOf(p, i) <= c
    BY <1>1, <1>3
  <2>2. k < i => EndOf(p, k) <= a
    BY <1>1, <1>3
  <2> QED BY <1>2, <1>4, <2>1, <2>2
<1> HIDE DEF a, c, z
<1>5. a + j \in 1 .. z
  BY <1>4a, <1>4b, <1>2
<1>6. ASSUME i < k PROVE a + j < c + l
  BY <1>4a, <1>4b, <1>2, <1>6
<1>7. ASSUME k < i PROVE c + l < a + j
  BY <1>4a, <1>4b, <1>2, <1>7
<1>8. a + j < c + l <=> i < k \/ (i = k /\ j < l)
  <2>1. CASE i = k
    BY <1>4a, <1>4b, <2>1 DEF a, c
  <2>2. CASE i # k
    <3>1. i < k \/ k < i
      BY <2>2
    <3> QED BY <1>4a, <1>4b, <1>6, <1>7, <2>2, <3>1
  <2> QED BY <2>1, <2>2
<1>9. a + j = c + l <=> i = k /\ j = l
  <2>1. CASE i = k
    BY <1>4a, <1>4b, <2>1 DEF a, c
  <2>2. CASE i # k
    <3>1. i < k \/ k < i
      BY <2>2
    <3> QED BY <1>4a, <1>4b, <1>6, <1>7, <2>2, <3>1
  <2> QED BY <2>1, <2>2
<1> QED BY <1>5, <1>8, <1>9 DEF a, c, z, n

\* A position is in one piece only.
LEMMA OnePiece ==
  ASSUME NEW V, NEW p \in Seq(Seq(V)),
         NEW i \in 1 .. Len(p), NEW j \in 1 .. Len(p[i]),
         NEW k \in 1 .. Len(p), NEW l \in 1 .. Len(p[k]),
         EndOf(p, i - 1) + j = EndOf(p, k - 1) + l
  PROVE  i = k /\ j = l
BY PieceOrder

\* An earlier position is in an earlier piece or earlier in the same.
LEMMA EarlierPiece ==
  ASSUME NEW V, NEW p \in Seq(Seq(V)),
         NEW i \in 1 .. Len(p), NEW j \in 1 .. Len(p[i]),
         NEW k \in 1 .. Len(p), NEW l \in 1 .. Len(p[k]),
         EndOf(p, i - 1) + j < EndOf(p, k - 1) + l
  PROVE  i < k \/ (i = k /\ j < l)
BY PieceOrder

\* Sums and products of natural numbers are natural numbers.
LEMMA SumNat ==
  ASSUME NEW S, IsFiniteSet(S), NEW fun, \A x \in S : fun[x] \in Nat
  PROVE  SumFunctionOnSet(fun, S) \in Nat
<1> DEFINE T == {n \in Nat : \A s \in SUBSET S : Cardinality(s) = n => SumFunctionOnSet(fun, s) \in Nat}
<1>0. \A s \in SUBSET S : IsFiniteSet(s) /\ Cardinality(s) \in Nat
  BY FS_Subset, FS_CardinalityType
<1>1. 0 \in T
  <2>1. \A s \in SUBSET S : Cardinality(s) = 0 => s = {}
    BY <1>0, FS_EmptySet
  <2> QED BY <2>1, SumEmpty
<1>2. ASSUME NEW n \in T PROVE n + 1 \in T
  <2>1. n \in Nat /\ \A s \in SUBSET S : Cardinality(s) = n => SumFunctionOnSet(fun, s) \in Nat
    OBVIOUS
  <2>2. ASSUME NEW s \in SUBSET S, Cardinality(s) = n + 1 PROVE SumFunctionOnSet(fun, s) \in Nat
    <3>1. s # {}
      BY <1>0, <2>1, <2>2, FS_EmptySet
    <3>2. PICK y \in s : TRUE
      BY <3>1
    <3>3. IsFiniteSet(s) /\ (\A x \in s : fun[x] \in Int) /\ fun[y] \in Nat
      BY <1>0
    <3>4. Cardinality(s \ {y}) = n /\ s \ {y} \in SUBSET S
      <4>1. Cardinality(s) \in Nat /\ Cardinality(s \ {y}) \in Nat /\ Cardinality(s) = Cardinality(s \ {y}) + 1
        BY <3>3, Smaller
      <4> QED BY <2>1, <2>2, <4>1
    <3>5. SumFunctionOnSet(fun, s) = fun[y] + SumFunctionOnSet(fun, s \ {y})
      BY <3>3, SumRemove
    <3> QED BY <2>1, <3>3, <3>4, <3>5
  <2> QED BY <2>1, <2>2
<1>a. T \in SUBSET Nat
  OBVIOUS
<1> HIDE DEF T
<1>3. Cardinality(S) \in T
  <2>1. T = Nat
    BY <1>a, <1>1, <1>2, AllNat
  <2> QED BY <1>0, <2>1
<1> QED BY <1>3 DEF T

\* The product of natural numbers over a finite set is a natural number.
LEMMA ProductNat ==
  ASSUME NEW S, IsFiniteSet(S), NEW fun, \A x \in S : fun[x] \in Nat
  PROVE  Product(fun, S) \in Nat
<1> DEFINE T == {n \in Nat : \A s \in SUBSET S : Cardinality(s) = n => Product(fun, s) \in Nat}
<1>0. \A s \in SUBSET S : IsFiniteSet(s) /\ Cardinality(s) \in Nat
  BY FS_Subset, FS_CardinalityType
<1>1. 0 \in T
  <2>1. \A s \in SUBSET S : Cardinality(s) = 0 => s = {}
    BY <1>0, FS_EmptySet
  <2> QED BY <2>1, ProductEmpty
<1>2. ASSUME NEW n \in T PROVE n + 1 \in T
  <2>1. n \in Nat /\ \A s \in SUBSET S : Cardinality(s) = n => Product(fun, s) \in Nat
    OBVIOUS
  <2>2. ASSUME NEW s \in SUBSET S, Cardinality(s) = n + 1 PROVE Product(fun, s) \in Nat
    <3>1. s # {}
      BY <1>0, <2>1, <2>2, FS_EmptySet
    <3>2. PICK y \in s : TRUE
      BY <3>1
    <3>3. IsFiniteSet(s) /\ (\A x \in s : fun[x] \in Int) /\ fun[y] \in Nat
      BY <1>0
    <3>4. Cardinality(s \ {y}) = n /\ s \ {y} \in SUBSET S
      <4>1. Cardinality(s) \in Nat /\ Cardinality(s \ {y}) \in Nat /\ Cardinality(s) = Cardinality(s \ {y}) + 1
        BY <3>3, Smaller
      <4> QED BY <2>1, <2>2, <4>1
    <3>5. Product(fun, s) = fun[y] * Product(fun, s \ {y})
      BY <3>3, ProductRemove
    <3>6. \A a, b \in Nat : a * b \in Nat
      OBVIOUS
    <3> QED BY <2>1, <3>3, <3>4, <3>5, <3>6
  <2> QED BY <2>1, <2>2
<1>a. T \in SUBSET Nat
  OBVIOUS
<1> HIDE DEF T
<1>3. Cardinality(S) \in T
  <2>1. T = Nat
    BY <1>a, <1>1, <1>2, AllNat
  <2> QED BY <1>0, <2>1
<1> QED BY <1>3 DEF T

-----------------------------------------------------------------------------
(* Folding a sequence from the left *)

\* What FoldLeft computes for the sets of positions: the last one is the outermost.
LeftFoldsOf(V, n, step, a) ==
  {h \in [SUBSET (1 .. n) -> V] : \A s \in SUBSET (1 .. n) :
     h[s] = IF s = {} THEN a ELSE step[<<Max(s), h[s \ {Max(s)}]>>]}

\* The maximum of a set that has one.
LEMMA MaxIs ==
  ASSUME NEW S \in SUBSET Int, NEW x \in S, \A y \in S : y <= x
  PROVE  Max(S) = x
<1>1. \E m \in S : \A y \in S : m >= y
  OBVIOUS
<1>2. Max(S) \in S /\ \A y \in S : Max(S) >= y
  BY <1>1 DEF Max
<1>3. Max(S) \in Int /\ x \in Int /\ x <= Max(S) /\ Max(S) <= x
  BY <1>2
<1> QED BY <1>3

\* There is such a function.
LEMMA LeftFolds ==
  ASSUME NEW V, NEW n \in Nat, NEW step \in [(1 .. n) \X V -> V], NEW a \in V
  PROVE  LeftFoldsOf(V, n, step, a) # {}
<1> DEFINE value(h, s) == IF s = {} THEN a ELSE step[<<Max(s), h[s \ {Max(s)}]>>]
           Good(m, h) == h \in [SUBSET (1 .. m) -> V] /\ \A s \in SUBSET (1 .. m) : h[s] = value(h, s)
           T == {m \in Nat : m <= n => \E h : Good(m, h)}
<1>1. 0 \in T
  <2> DEFINE h == [s \in SUBSET (1 .. 0) |-> a]
  <2>1. h \in [SUBSET (1 .. 0) -> V] /\ \A s \in SUBSET (1 .. 0) : s = {} /\ h[s] = a
    OBVIOUS
  <2> HIDE DEF h
  <2>2. Good(0, h)
    BY <2>1
  <2> HIDE DEF Good
  <2> QED BY <2>2
<1>2. ASSUME NEW m \in T PROVE m + 1 \in T
  <2>1. SUFFICES ASSUME m + 1 <= n PROVE \E h : Good(m + 1, h)
    <3>1. m + 1 \in Nat OBVIOUS
    <3> QED BY <3>1
  <2>2. PICK h : Good(m, h)
    <3> HIDE DEF Good
    <3> QED BY <2>1
  <2> DEFINE last == m + 1
             g == [s \in SUBSET (1 .. last) |-> IF last \in s THEN step[<<last, h[s \ {last}]>>] ELSE h[s]]
  <2>3. /\ m \in Nat /\ last \in 1 .. n /\ last \in Nat
        /\ \A s \in SUBSET (1 .. last) : s \ {last} \in SUBSET (1 .. m)
        /\ \A s \in SUBSET (1 .. last) : last \notin s => s \in SUBSET (1 .. m)
        /\ \A s \in SUBSET (1 .. m) : s \in SUBSET (1 .. last) /\ last \notin s
    BY <2>1
  <2> HIDE DEF last
  <2>4. \A s \in SUBSET (1 .. last) :
          (IF last \in s THEN step[<<last, h[s \ {last}]>>] ELSE h[s]) \in V
    BY <2>2, <2>3
  <2>5. g \in [SUBSET (1 .. last) -> V]
    BY <2>4
  <2>6. /\ \A s \in SUBSET (1 .. m) : g[s] = h[s]
        /\ \A s \in SUBSET (1 .. last) : last \in s => g[s] = step[<<last, h[s \ {last}]>>]
    BY <2>3
  <2> HIDE DEF g
  <2>7. ASSUME NEW s \in SUBSET (1 .. last), last \in s PROVE g[s] = value(g, s)
    <3>1. Max(s) = last
      <4>1. s \in SUBSET Int /\ \A y \in s : y <= last
        BY <2>3
      <4> QED BY <2>7, <4>1, MaxIs
    <3>2. g[s \ {last}] = h[s \ {last}] /\ s # {}
      BY <2>3, <2>6, <2>7
    <3> QED BY <2>6, <2>7, <3>1, <3>2
  <2>8. ASSUME NEW s \in SUBSET (1 .. last), last \notin s PROVE g[s] = value(g, s)
    <3>1. s \in SUBSET (1 .. m) /\ s \ {Max(s)} \in SUBSET (1 .. m)
      BY <2>3, <2>8
    <3>2. g[s] = h[s] /\ g[s \ {Max(s)}] = h[s \ {Max(s)}] /\ h[s] = value(h, s)
      BY <2>2, <2>6, <3>1
    <3> QED BY <3>2
  <2>9. Good(last, g)
    <3> HIDE DEF value
    <3> QED BY <2>5, <2>7, <2>8
  <2> HIDE DEF Good
  <2> QED BY <2>9 DEF last
<1>3. T = Nat
  <2>1. T \in SUBSET Nat OBVIOUS
  <2> HIDE DEF T
  <2> QED BY <1>1, <1>2, <2>1, AllNat
<1>4. PICK h : Good(n, h)
  <2> HIDE DEF Good
  <2> QED BY <1>3
<1> QED BY <1>4 DEF LeftFoldsOf

\* The positions up to one are those before it and itself.
LEMMA UpTo ==
  ASSUME NEW k \in Nat \ {0}
  PROVE  Max(1 .. k) = k /\ (1 .. k) \ {Max(1 .. k)} = 1 .. k - 1 /\ 1 .. k # {}
<1>1. 1 .. k \in SUBSET Int /\ k \in 1 .. k /\ \A y \in 1 .. k : y <= k
  OBVIOUS
<1>2. Max(1 .. k) = k
  BY <1>1, MaxIs
<1>3. \A y : y \in (1 .. k) \ {k} <=> y \in 1 .. k - 1
  OBVIOUS
<1>4. (1 .. k) \ {k} = 1 .. k - 1
  BY <1>3, Zenon
<1> QED BY <1>1, <1>2, <1>4
=============================================================================
