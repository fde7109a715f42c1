--------------------------- MODULE TransferProofs ---------------------------
(***************************************************************************)
(* Theorems about Transfer, for every dataset, every set of dataspaces and *)
(* every number of writes: its type invariant; that the constructor of     *)
(* H5VL_log_selections translates hyperslabs of several blocks row by row; *)
(* that what a read touches of the file ascends; and that a read returns   *)
(* what was written.                                                       *)
(*                                                                         *)
(* The last needs what the file holds (the elements of each faithful       *)
(* write, in order, at the offset of its entry) and that a read brings it  *)
(* to the right address.  For that a relation R of bytes of the file and   *)
(* addresses in memory says which byte belongs where; that the runs and    *)
(* the copies of a plan keep to R is followed from the hits through the    *)
(* rows, trimming, grouping and joining, and at the end R is instantiated  *)
(* with Link, the bytes and addresses of one element.  In these lemmas     *)
(* width is the size of an element.                                        *)
(***************************************************************************)
EXTENDS Transfer, ReadPlanProofs

-----------------------------------------------------------------------------
(* The invariant *)

\* The dataspaces of calls: of the dataset, or none before the first call.
Spaces == WriteSpaces \cup ReadSpaces
NoSpace == [type |-> "none"]

\* A write of one block made an entry of one.
Singles ==
  \A e \in DOMAIN index : OneBlock(written[e].space) => Len(index[e].sels) = 1

\* A call has no plan, or the one of the read it is.
Planned ==
  \/ call.plan = NoPlan
  \/ /\ call.sels \in Seq(Sels(Len(dims)))
     /\ call.hits = Search(index, call.sels)
     /\ call.plan = PlanOf(call.hits, esize)

IInv ==
  /\ TypeOK
  /\ index \in Seq(Entries(Len(dims)))
  /\ bytes \in Seq(Range(bytes)) /\ written \in Seq(Range(written))
  /\ call.space = NoSpace \/ call.space \in Of(Spaces)
  /\ Singles
  /\ Planned

\* The dataspaces the program may use fit the dataset.
LEMMA SpacesFit ==
  ASSUME NEW ds \in Of(Spaces), dims \in Extents
  PROVE  Fits(ds, dims) /\ dims \in Seq(Nat \ {0}) /\ Len(dims) \in Nat
<1>1. ds \in Spaces
  BY DEF Of
<1>2. IsDataspace(ds) /\ dims \in Seq(Nat \ {0})
  BY <1>1, Parameters DEF Spaces
<1>3. /\ ds.type = "hyperslabs" => \A b \in ToSet(ds.blocks) :
           Len(b.end) = Len(dims) /\ \A i \in DOMAIN dims : b.end[i] < dims[i]
      /\ ds.type = "points" => \A c \in ToSet(ds.points) :
           Len(c) = Len(dims) /\ \A i \in DOMAIN dims : c[i] < dims[i]
      /\ ds.type = "list" => \A b \in ToSet(ds.blocks) :
           /\ Len(b.start) = Len(dims)
           /\ \A i \in DOMAIN dims : b.start[i] + b.count[i] <= dims[i]
  BY DEF Of, InExtent
<1> QED BY <1>2, <1>3, LenProperties DEF Fits

\* A part of a selection's blocks is one of its dimensions.
LEMMA Translated ==
  ASSUME NEW ds \in Of(Spaces), dims \in Extents, NEW nsel \in NselOf(ds, dims)
  PROVE  /\ Translate(ds, dims, nsel) \in Seq(Sels(Len(dims)))
         /\ SelSize(Translate(ds, dims, nsel)) \in Nat
<1> DEFINE n == Len(dims)
           arrays == ArraysOf(ds, dims)
           N == Len(arrays)
<1>1. Fits(ds, dims) /\ dims \in Seq(Nat \ {0}) /\ n \in Nat
  BY SpacesFit
<1>2. arrays \in Seq(Sels(n))
  BY <1>1, ArraysShape
<1> HIDE DEF n
<1>3. N \in Nat /\ arrays \in [1 .. N -> Sels(n)]
  BY <1>2, LenProperties
<1>4. nsel \in Nat /\ 1 .. nsel \subseteq 1 .. N
  <2>1. nsel \in 0 .. N
    <3>1. CASE Multiple(ds)
      BY <3>1 DEF NselOf
    <3>2. CASE ~Multiple(ds)
      BY <1>3, <3>2 DEF NselOf
    <3> QED BY <3>1, <3>2
  <2> QED BY <1>3, <2>1
<1> HIDE DEF arrays, N
<1>5. SubSeq(arrays, 1, nsel) \in Seq(Sels(n))
  BY <1>3, <1>4, Prefix
<1>6. SelSize(SubSeq(arrays, 1, nsel)) \in Nat
  BY <1>1, <1>5, SelSizeType
<1> QED BY <1>5, <1>6 DEF Translate, arrays, n

\* A dataspace of one block is translated into one selection.
LEMMA OneTranslated ==
  ASSUME NEW ds \in Of(Spaces), dims \in Extents, NEW nsel \in NselOf(ds, dims), OneBlock(ds)
  PROVE  Len(Translate(ds, dims, nsel)) = 1
<1> DEFINE arrays == ArraysOf(ds, dims)
<1>1. Fits(ds, dims) /\ dims \in Seq(Nat \ {0})
  BY SpacesFit
<1>2. Len(arrays) = 1 /\ ~Multiple(ds)
  <2>1. CASE ds.type = "hyperslabs" /\ Len(ds.blocks) = 1
    <3>1. ~Multiple(ds)
      BY <2>1 DEF Multiple
    <3>2. arrays = <<Whole(ds.blocks[1])>>
      BY <2>1, <3>1 DEF ArraysOf
    <3> QED BY <3>1, <3>2
  <2>2. CASE ds.type = "list" /\ Len(ds.blocks) = 1
    <3>1. ~Multiple(ds)
      BY <2>2 DEF Multiple
    <3>2. arrays = ds.blocks
      BY <2>2, <3>1 DEF ArraysOf
    <3> QED BY <2>2, <3>1, <3>2
  <2>3. CASE ds.type = "points" /\ Len(ds.points) = 1
    <3>1. ~Multiple(ds)
      BY <2>3 DEF Multiple
    <3>2. arrays = [i \in DOMAIN ds.points |->
                      [start |-> ds.points[i], count |-> Ones(ds.points[i])]]
      BY <2>3, <3>1 DEF ArraysOf
    <3>3. DOMAIN ds.points = 1 .. 1
      <4>1. ds.points \in Seq(Coordinates)
        BY <1>1, <2>3 DEF Fits, IsDataspace
      <4> QED BY <2>3, <4>1, LenProperties
    <3>4. DOMAIN arrays = 1 .. 1
      BY <3>2, <3>3
    <3>5. arrays \in Seq(Sels(Len(dims)))
      BY <1>1, ArraysShape
    <3> HIDE DEF arrays
    <3> QED BY <3>1, <3>4, <3>5, LenProperties
  <2> QED BY <2>1, <2>2, <2>3 DEF OneBlock
<1>3. nsel = 1
  BY <1>2 DEF NselOf
<1>4. arrays \in Seq(Sels(Len(dims)))
  BY <1>1, ArraysShape
<1> HIDE DEF arrays
<1>5. arrays \in [1 .. 1 -> Sels(Len(dims))] /\ 1 .. 1 \subseteq 1 .. 1
  BY <1>2, <1>4, LenProperties
<1>6. Len(SubSeq(arrays, 1, 1)) = 1
  BY <1>5, Prefix
<1> QED BY <1>3, <1>6 DEF Translate, arrays

\* A list with something appended.
LEMMA Appended ==
  ASSUME NEW s, NEW V, s \in Seq(V), NEW x
  PROVE  Append(s, x) \in Seq(V \cup {x}) /\ Len(Append(s, x)) = Len(s) + 1
         /\ (\A i \in 1 .. Len(s) : Append(s, x)[i] = s[i]) /\ Append(s, x)[Len(s) + 1] = x
<1>1. s \in Seq(V \cup {x})
  BY LenProperties
<1> QED BY <1>1, AppendProperties

\* A sequence is one over its range.
LEMMA OverRange ==
  ASSUME NEW s, NEW V, s \in Seq(V)
  PROVE  s \in Seq(Range(s))
<1> DEFINE N == Len(s)
<1>1. N \in Nat /\ DOMAIN s = 1 .. N /\ s \in [1 .. N -> V]
  BY LenProperties
<1> HIDE DEF N
<1>2. s \in [1 .. N -> Range(s)]
  BY <1>1 DEF Range
<1> QED BY <1>1, <1>2, LenProperties

-----------------------------------------------------------------------------
(* The steps *)

\* What a call leaves of the dataset, and what it says of the space.
LEMMA SameDataset ==
  ASSUME dims' = dims, esize' = esize
  PROVE  Of(Spaces)' = Of(Spaces)
BY DEF Of

\* The first state.
LEMMA InitIInv == Init => IInv
<1> SUFFICES ASSUME Init PROVE IInv
  OBVIOUS
<1>1. dims \in Extents /\ esize \in ESizes /\ bytes = <<>> /\ index = <<>> /\ written = <<>> /\ call = Idle
  BY DEF Init
<1>2. Len(index) = 0 /\ Len(written) = 0 /\ DOMAIN index = {}
  BY <1>1
<1>3. call.op = "none" /\ call.plan.outcome = "none" /\ call.space = NoSpace
  BY <1>1 DEF Idle, NoPlan, NoSpace
<1>4. 0 \in 0 .. MaxWrites
  BY Parameters
<1>5. /\ index \in Seq(Entries(Len(dims)))
      /\ bytes \in Seq(Range(bytes)) /\ written \in Seq(Range(written))
  BY <1>1
<1>6. TypeOK
  BY <1>1, <1>2, <1>3, <1>4 DEF TypeOK
<1>7. Singles /\ Planned
  BY <1>1, <1>2 DEF Singles, Planned, Idle
<1> QED BY <1>3, <1>5, <1>6, <1>7 DEF IInv

\* A write appends an entry whose data follows that of the last one.
LEMMA WriteIInv ==
  ASSUME IInv, NEW ds \in Of(Spaces), NEW ms, H5Dwrite(ds, ms)
  PROVE  IInv'
<1> DEFINE n == Len(dims)
           N == Len(index)
<1>1. /\ dims \in Extents /\ esize \in ESizes /\ N \in 0 .. MaxWrites /\ Len(written) = N
      /\ \A e \in DOMAIN index :
           /\ index[e].foff + esize * SelSize(index[e].sels)
                = IF e = N THEN Len(bytes) ELSE index[e + 1].foff
           /\ \A s \in ToSet(index[e].sels) : {Len(s.start), Len(s.count)} = {n}
      /\ index \in Seq(Entries(n)) /\ bytes \in Seq(Range(bytes)) /\ written \in Seq(Range(written))
      /\ Singles
  BY DEF IInv, TypeOK
<1>2. /\ N < MaxWrites /\ dims' = dims /\ esize' = esize
      /\ \E nsel \in NselOf(ds, dims) : \E data :
           LET sels == Translate(ds, dims, nsel)
               size == SelSize(sels)
           IN  /\ Len(data) = size
               /\ index' = Append(index, [foff |-> EndOfLog(bytes), sels |-> sels])
               /\ bytes' = bytes \o [i \in 1 .. size * esize |->
                    LET k == data[(i - 1) \div esize + 1]
                    IN  IF k = 0 THEN Junk
                        ELSE [write |-> Len(index) + 1, elem |-> k, byte |-> (i - 1) % esize]]
               /\ written' = Append(written, [space |-> ds, memory |-> ms])
               /\ call' = [Idle EXCEPT !.op = "write", !.space = ds, !.sels = sels]
  BY DEF H5Dwrite
<1>3. PICK nsel \in NselOf(ds, dims) : \E data :
           LET sels == Translate(ds, dims, nsel)
               size == SelSize(sels)
           IN  /\ Len(data) = size
               /\ index' = Append(index, [foff |-> EndOfLog(bytes), sels |-> sels])
               /\ bytes' = bytes \o [i \in 1 .. size * esize |->
                    LET k == data[(i - 1) \div esize + 1]
                    IN  IF k = 0 THEN Junk
                        ELSE [write |-> Len(index) + 1, elem |-> k, byte |-> (i - 1) % esize]]
               /\ written' = Append(written, [space |-> ds, memory |-> ms])
               /\ call' = [Idle EXCEPT !.op = "write", !.space = ds, !.sels = sels]
  BY <1>2
<1> DEFINE sels == Translate(ds, dims, nsel)
           size == SelSize(sels)
           entry == [foff |-> Len(bytes), sels |-> sels]
<1>4. PICK data :
               /\ index' = Append(index, entry)
               /\ bytes' = bytes \o [i \in 1 .. size * esize |->
                    LET k == data[(i - 1) \div esize + 1]
                    IN  IF k = 0 THEN Junk
                        ELSE [write |-> Len(index) + 1, elem |-> k, byte |-> (i - 1) % esize]]
               /\ written' = Append(written, [space |-> ds, memory |-> ms])
               /\ call' = [Idle EXCEPT !.op = "write", !.space = ds, !.sels = sels]
  BY <1>3 DEF EndOfLog
<1>5. sels \in Seq(Sels(n)) /\ size \in Nat /\ (OneBlock(ds) => Len(sels) = 1)
  BY <1>1, Translated, OneTranslated
<1>6. esize \in Nat \ {0} /\ N \in Nat /\ MaxWrites \in Nat
  BY <1>1, Parameters
<1>7. Len(bytes) \in Nat /\ bytes' \in Seq(Range(bytes')) /\ Len(bytes') = Len(bytes) + esize * size
  <2> DEFINE byte(i) == LET k == data[(i - 1) \div esize + 1]
                        IN  IF k = 0 THEN Junk
                            ELSE [write |-> Len(index) + 1, elem |-> k, byte |-> (i - 1) % esize]
             more == [i \in 1 .. size * esize |-> byte(i)]
             K == size * esize
  <2>1. K \in Nat /\ K = esize * size
    <3>1. \A a, b \in Nat : a * b \in Nat /\ a * b = b * a
      OBVIOUS
    <3> HIDE DEF size
    <3> QED BY <1>5, <1>6, <3>1
  <2>2. bytes' = bytes \o more
    BY <1>4
  <2> DEFINE V == {byte(i) : i \in 1 .. K}
  <2>3. more \in [1 .. K -> V]
    <3>1. more = [i \in 1 .. K |-> byte(i)] /\ \A i \in 1 .. K : byte(i) \in V
      OBVIOUS
    <3> HIDE DEF byte, K, V, more
    <3> QED BY <3>1
  <2> HIDE DEF byte, more, K, V
  <2>4. more \in Seq(V) /\ Len(more) = K
    BY <2>1, <2>3, LenProperties
  <2> DEFINE W == Range(bytes) \cup V
  <2>5. bytes \in Seq(W) /\ more \in Seq(W) /\ Len(bytes) \in Nat
    BY <1>1, <2>4, LenProperties
  <2> HIDE DEF W
  <2>6. bytes \o more \in Seq(W) /\ Len(bytes \o more) = Len(bytes) + Len(more)
    BY <2>5, ConcatProperties
  <2> QED BY <2>1, <2>2, <2>4, <2>5, <2>6, OverRange
<1> HIDE DEF sels, size, n
<1>8. entry \in Entries(n)
  BY <1>5, <1>7 DEF Entries
<1>9. /\ index' \in Seq(Entries(n)) /\ Len(index') = N + 1
      /\ \A i \in 1 .. N : index'[i] = index[i]
      /\ index'[N + 1] = entry /\ DOMAIN index = 1 .. N /\ DOMAIN index' = 1 .. N + 1
  <2>1. Append(index, entry) \in Seq(Entries(n)) /\ Len(Append(index, entry)) = N + 1
        /\ (\A i \in 1 .. N : Append(index, entry)[i] = index[i]) /\ Append(index, entry)[N + 1] = entry
    <3> HIDE DEF entry, N
    <3> QED BY <1>1, <1>8, AppendProperties DEF N
  <2> QED BY <1>1, <1>4, <2>1, LenProperties
<1>10. /\ written' \in Seq(Range(written')) /\ Len(written') = N + 1
       /\ \A e \in 1 .. N : written'[e] = written[e]
       /\ written'[N + 1].space = ds
  <2>1. /\ written' \in Seq(Range(written) \cup {[space |-> ds, memory |-> ms]})
        /\ Len(written') = Len(written) + 1
        /\ \A e \in 1 .. Len(written) : written'[e] = written[e]
        /\ written'[Len(written) + 1] = [space |-> ds, memory |-> ms]
    BY <1>1, <1>4, Appended
  <2> QED BY <1>1, <2>1, OverRange
<1>11. ASSUME NEW e \in 1 .. N + 1
       PROVE  /\ index'[e].foff + esize * SelSize(index'[e].sels)
                   = IF e = N + 1 THEN Len(bytes') ELSE index'[e + 1].foff
              /\ \A s \in ToSet(index'[e].sels) : {Len(s.start), Len(s.count)} = {n}
  <2>1. CASE e = N + 1
    <3>1. index'[e].foff = Len(bytes) /\ index'[e].sels = sels
      BY <1>9, <2>1
    <3>2. \A s \in ToSet(sels) : s \in Sels(n)
      BY <1>5, LenProperties DEF ToSet
    <3> QED BY <1>7, <2>1, <3>1, <3>2 DEF size, Sels
  <2>2. CASE e # N + 1
    <3>1. e \in 1 .. N /\ index'[e] = index[e] /\ e \in DOMAIN index
      BY <1>6, <1>9, <2>2
    <3>2. e = N => index'[e + 1].foff = Len(bytes)
      BY <1>9
    <3>3. e # N => index'[e + 1] = index[e + 1]
      BY <1>6, <1>9, <3>1
    <3> QED BY <1>1, <2>2, <3>1, <3>2, <3>3
  <2> QED BY <2>1, <2>2
<1>12. /\ call'.op = "write" /\ call'.plan.outcome = "none" /\ call'.space = ds
  BY <1>4 DEF Idle, NoPlan
<1>13. TypeOK'
  <2>1. N + 1 \in 0 .. MaxWrites
    BY <1>2, <1>6
  <2>2. Len(index') \in 0 .. MaxWrites /\ Len(written') = Len(index')
    BY <1>9, <1>10, <2>1
  <2>3. \A e \in DOMAIN index' :
       /\ index'[e].foff + esize' * SelSize(index'[e].sels)
            = IF e = Len(index') THEN Len(bytes') ELSE index'[e + 1].foff
       /\ \A s \in ToSet(index'[e].sels) : {Len(s.start), Len(s.count)} = {Len(dims')}
    BY <1>2, <1>9, <1>11 DEF n
  <2> QED BY <1>1, <1>2, <1>12, <2>2, <2>3 DEF TypeOK
<1>14. ds \in Of(Spaces)'
  BY <1>2, SameDataset
<1>15. index' \in Seq(Entries(Len(dims')))
  BY <1>2, <1>9 DEF n
<1>16. Singles'
  <2> SUFFICES ASSUME NEW e \in 1 .. N + 1, OneBlock(written'[e].space)
               PROVE  Len(index'[e].sels) = 1
    BY <1>9 DEF Singles, OneBlock
  <2>1. CASE e = N + 1
    BY <1>5, <1>9, <1>10, <2>1
  <2>2. CASE e # N + 1
    <3>1. e \in 1 .. N
      BY <1>6, <2>2
    <3> QED BY <1>1, <1>9, <1>10, <3>1 DEF Singles
  <2> QED BY <2>1, <2>2
<1>17. Planned'
  BY <1>4 DEF Planned, Idle
<1> QED BY <1>7, <1>10, <1>12, <1>13, <1>14, <1>15, <1>16, <1>17 DEF IInv

\* A call that leaves the dataset as it is.
LEMMA CallIInv ==
  ASSUME IInv, UNCHANGED <<dims, esize, bytes, index, written>>,
         call'.space \in Of(Spaces), call'.op \in {"none", "write", "nothing", "read"},
         call'.plan.outcome \in {"none", "ok", "error", "crash"}, Planned'
  PROVE  IInv'
<1>1. TypeOK'
  BY DEF IInv, TypeOK
<1>2. call'.space \in Of(Spaces)'
  BY SameDataset
<1>3. Singles'
  BY DEF IInv, Singles, OneBlock
<1> QED BY <1>1, <1>2, <1>3 DEF IInv

\* What a read may be told.
LEMMA ReadOutcome ==
  ASSUME NEW ds \in Of(Spaces), dims \in Extents, H5Dread(ds)
  PROVE  /\ call'.space = ds /\ call'.op = "read"
         /\ call'.plan.outcome \in {"none", "ok", "error", "crash"}
         /\ UNCHANGED <<dims, esize, bytes, index, written>>
         /\ Planned'
<1>1. ASSUME NEW hits, NEW e PROVE PlanOf(hits, e).outcome \in {"none", "ok", "error", "crash"}
  BY DEF PlanOf, PlanOutcome
<1>2. PICK nsel \in NselOf(ds, dims) : \E plan, hits, memory :
        /\ call' = [op |-> "read", space |-> ds, sels |-> Translate(ds, dims, nsel),
                    hits |-> hits, plan |-> plan, memory |-> memory]
        /\ hits = Search(index, Translate(ds, dims, nsel))
        /\ plan = NoPlan \/ plan = PlanOf(hits, esize)
  BY DEF H5Dread
<1> DEFINE sels == Translate(ds, dims, nsel)
<1>3. sels \in Seq(Sels(Len(dims)))
  BY Translated
<1> HIDE DEF sels
<1>4. PICK plan, hits, memory :
        /\ call' = [op |-> "read", space |-> ds, sels |-> sels, hits |-> hits, plan |-> plan,
                    memory |-> memory]
        /\ hits = Search(index, sels)
        /\ plan = NoPlan \/ plan = PlanOf(hits, esize)
  BY <1>2 DEF sels
<1>5. plan.outcome \in {"none", "ok", "error", "crash"}
  BY <1>1, <1>4 DEF NoPlan
<1>6. UNCHANGED <<dims, esize, bytes, index, written>>
  BY DEF H5Dread
<1>7. /\ call'.space = ds /\ call'.op = "read" /\ call'.sels = sels /\ call'.hits = hits
      /\ call'.plan = plan
  BY <1>4
<1>8. Planned'
  BY <1>3, <1>4, <1>6, <1>7 DEF Planned, NoPlan
<1> QED BY <1>5, <1>6, <1>7, <1>8

\* Every step keeps the invariant.
LEMMA NextIInv == IInv /\ [Next]_vars => IInv'
<1> SUFFICES ASSUME IInv, [Next]_vars PROVE IInv'
  OBVIOUS
<1>1. CASE UNCHANGED vars
  BY <1>1 DEF IInv, TypeOK, vars, Of, Singles, Planned, OneBlock
<1>2. ASSUME NEW ds \in Of(Spaces), NEW ms, H5Dwrite(ds, ms) PROVE IInv'
  BY <1>2, WriteIInv
<1>3. ASSUME NEW ds \in Of(Spaces), NEW ms, H5DwriteNothing(ds, ms) PROVE IInv'
  <2>1. PICK sels : call' = [Idle EXCEPT !.op = "nothing", !.space = ds, !.sels = sels]
    BY <1>3 DEF H5DwriteNothing
  <2>2. call'.op = "nothing" /\ call'.space = ds /\ call'.plan.outcome = "none"
    BY <2>1 DEF Idle, NoPlan
  <2>3. UNCHANGED <<dims, esize, bytes, index, written>>
    BY <1>3 DEF H5DwriteNothing
  <2>4. Planned'
    BY <2>1 DEF Planned, Idle
  <2> QED BY <2>2, <2>3, <2>4, CallIInv
<1>4. ASSUME NEW ds \in Of(Spaces), H5Dread(ds) PROVE IInv'
  <2>1. dims \in Extents
    BY DEF IInv, TypeOK
  <2> QED BY <1>4, <2>1, ReadOutcome, CallIInv
<1>5. Of(WriteSpaces) \subseteq Of(Spaces) /\ Of(ReadSpaces) \subseteq Of(Spaces)
  BY DEF Of, Spaces
<1>6. ASSUME NEW ds \in Of(Spaces), NEW op, H5VL_log_dataset_optional(op, ds) PROVE IInv'
  BY <1>2, <1>4, <1>6 DEF H5VL_log_dataset_optional
<1>7. CASE Next
  <2>1. CASE \E ds \in Dataspaces(WriteSpaces), ms \in MemSpaces :
               H5Dwrite(ds, ms) \/ H5DwriteNothing(ds, ms)
    BY <1>2, <1>3, <1>5, <2>1 DEF Dataspaces
  <2>2. CASE \E ds \in Dataspaces(ReadSpaces) : H5Dread(ds)
    BY <1>4, <1>5, <2>2 DEF Dataspaces
  <2>3. CASE \E ds \in Of(WriteSpaces) : H5Dwrite_n(ds)
    BY <1>5, <1>6, <2>3 DEF H5Dwrite_n
  <2>4. CASE \E ds \in Of(ReadSpaces) : H5Dread_n(ds)
    BY <1>5, <1>6, <2>4 DEF H5Dread_n
  <2> QED BY <1>1, <1>7, <2>1, <2>2, <2>3, <2>4 DEF Next
<1> QED BY <1>1, <1>7

\* The invariant holds throughout.
THEOREM Invariance == Spec => []IInv
BY InitIInv, NextIInv, PTL DEF Spec

\* Type correctness, with where the data blocks lie in the file: each follows the
\* one before, as long as its selection has elements (H5VL_log_dataset_write, the
\* flush), and blocks have the rank of the dataset.
THEOREM TypeCorrect == Spec => []TypeOK
<1>1. IInv => TypeOK
  BY DEF IInv
<1> QED BY <1>1, Invariance, PTL

\* The bytes of the file a read touches ascend, whatever it selects, if every
\* write was of one block of the dataset and it has at most two hits in each data
\* block: in the file datatype H5VL_log_dataset_readi_gen_rtypes builds, sorted by
\* offset and with what overlaps cut off.
THEOREM ReadsAscend == Spec => []PlanOrdered
<1>1. IInv => PlanOrdered
  <2> SUFFICES ASSUME IInv, \A w \in ToSet(written) : OneBlock(w.space),
                      \A h \in ToSet(call.hits) :
                        Cardinality({i \in DOMAIN call.hits : call.hits[i].foff = h.foff}) <= 2
               PROVE  Ascending(call.plan.runs)
    BY DEF PlanOrdered
  <2>1. CASE call.plan = NoPlan
    BY <2>1 DEF NoPlan, Ascending
  <2>2. CASE call.plan # NoPlan
    <3> DEFINE n == Len(dims)
    <3>1. /\ call.sels \in Seq(Sels(n)) /\ call.hits = Search(index, call.sels)
          /\ call.plan = PlanOf(call.hits, esize)
      BY <2>2 DEF IInv, Planned
    <3>2. n \in Nat \ {0} /\ esize \in Nat \ {0}
      <4>1. dims \in Seq(Nat \ {0}) /\ dims # <<>> /\ esize \in Nat \ {0}
        BY Parameters DEF IInv, TypeOK
      <4> QED BY <4>1, EmptySeq, LenProperties
    <3>3. DOMAIN index = 1 .. Len(index) /\ DOMAIN written = 1 .. Len(index)
      <4>1. Len(written) = Len(index)
        BY DEF IInv, TypeOK
      <4> QED BY <4>1, LenProperties DEF IInv
    <3>4. Chained(n, index, esize)
      <4>1. index \in Seq(Entries(n))
        BY DEF IInv
      <4>2. \A e \in DOMAIN index : e # Len(index) =>
               index[e].foff + esize * SelSize(index[e].sels) = index[e + 1].foff
        BY DEF IInv, TypeOK
      <4> QED BY <3>3, <4>1, <4>2 DEF Chained
    <3>5. \A e \in 1 .. Len(index) : Len(index[e].sels) = 1
      <4> SUFFICES ASSUME NEW e \in 1 .. Len(index) PROVE Len(index[e].sels) = 1
        OBVIOUS
      <4>1. written[e] \in ToSet(written)
        BY <3>3 DEF ToSet
      <4> QED BY <3>3, <4>1 DEF IInv, Singles
    <3>6. Ascending(PlanOf(Search(index, call.sels), esize).runs)
      <4> HIDE DEF n
      <4> QED BY <3>1, <3>2, <3>4, <3>5, ReadAscends
    <3> QED BY <3>1, <3>6
  <2> QED BY <2>1, <2>2
<1> QED BY <1>1, Invariance, PTL

-----------------------------------------------------------------------------
(* The rows of a selection *)

\* The rows of a box whose last dimension is not empty are its elements without
\* their last coordinate.
LEMMA RowsInIs ==
  ASSUME NEW n \in Nat \ {0}, NEW start \in [1 .. n -> Nat], NEW count \in [1 .. n -> Nat],
         count[n] # 0
  PROVE  RowsIn(start, count) = Cuboid(n - 1, start, count)
<1> DEFINE m == n - 1
           B == BoxOf(start, count)
<1>1. /\ m \in Nat /\ 1 .. m \subseteq 1 .. n /\ n \in Nat /\ n \in 1 .. n
      /\ \A i \in 1 .. n : i \in 1 .. m \/ i = n
  OBVIOUS
<1>2. B = Cuboid(n, start, count)
  BY <1>1, BoxIsCuboid
<1>3. ASSUME NEW c \in Vectors(n)
      PROVE  /\ Row(c) = SubSeq(c, 1, m) /\ Row(c) \in Vectors(m)
             /\ \A i \in 1 .. m : Row(c)[i] = c[i]
  <2>1. c \in [1 .. n -> Int]
    BY <1>3 DEF Vectors
  <2>2. c \in Seq(Int) /\ Len(c) = n
    BY <1>1, <2>1, LenProperties
  <2>3. Row(c) = SubSeq(c, 1, m)
    BY <2>2 DEF Row
  <2> HIDE DEF m
  <2>4. SubSeq(c, 1, m) \in [1 .. m -> Int]
    BY <1>1, <2>1, Prefix
  <2>5. \A i \in 1 .. m : SubSeq(c, 1, m)[i] = c[i]
    BY <1>1, <2>1, Prefix
  <2> QED BY <2>3, <2>4, <2>5 DEF Vectors
<1> HIDE DEF m
<1>4. ASSUME NEW c \in B PROVE Row(c) \in Cuboid(m, start, count)
  <2>1. c \in Vectors(n) /\ \A i \in 1 .. n : start[i] <= c[i] /\ c[i] < start[i] + count[i]
    BY <1>2 DEF Cuboid
  <2> QED BY <1>1, <1>3, <2>1 DEF Cuboid
<1>5. ASSUME NEW r \in Cuboid(m, start, count) PROVE \E c \in B : Row(c) = r
  <2> DEFINE c == [i \in 1 .. n |-> IF i = n THEN start[n] ELSE r[i]]
  <2>1. /\ r \in [1 .. m -> Int]
        /\ \A i \in 1 .. m : start[i] <= r[i] /\ r[i] < start[i] + count[i]
    BY DEF Cuboid, Vectors
  <2>2. start[n] \in Nat /\ count[n] \in Nat /\ start[n] < start[n] + count[n]
    BY <1>1
  <2>3. \A i \in 1 .. m : r[i] \in Int /\ start[i] \in Nat /\ count[i] \in Nat
    BY <1>1, <2>1
  <2>4. \A i \in 1 .. n : IF i = n THEN c[i] = start[n] ELSE i \in 1 .. m /\ c[i] = r[i]
    BY <1>1
  <2>5. c = [i \in 1 .. n |-> c[i]] /\ \A i \in 1 .. m : c[i] = r[i]
    BY <1>1 DEF m
  <2> HIDE DEF c
  <2>9. c \in [1 .. n -> Int]
    <3>1. \A i \in 1 .. n : c[i] \in Int
      <4> TAKE i \in 1 .. n
      <4>1. CASE i = n
        BY <2>2, <2>4, <4>1
      <4>2. CASE i # n
        BY <2>3, <2>4, <4>2
      <4> QED BY <4>1, <4>2
    <3> QED BY <2>5, <3>1
  <2>10. \A i \in 1 .. n : start[i] <= c[i] /\ c[i] < start[i] + count[i]
    <3> TAKE i \in 1 .. n
    <3>1. CASE i = n
      BY <2>2, <2>4, <3>1
    <3>2. CASE i # n
      BY <2>1, <2>4, <3>2
    <3> QED BY <3>1, <3>2
  <2>6. c \in Vectors(n) /\ c \in B
    BY <1>2, <2>9, <2>10 DEF Cuboid, Vectors
  <2>7. Row(c) \in [1 .. m -> Int] /\ \A i \in 1 .. m : Row(c)[i] = r[i]
    BY <1>3, <2>5, <2>6 DEF Vectors
  <2>8. Row(c) = r
    <3> DEFINE D == 1 .. m
               q == Row(c)
    <3>1. q \in [D -> Int] /\ r \in [D -> Int] /\ \A i \in D : q[i] = r[i]
      BY <2>1, <2>7
    <3> HIDE DEF D, q
    <3>2. q = r
      BY <3>1, SameFunction
    <3> QED BY <3>2 DEF q
  <2> QED BY <2>6, <2>8
<1> QED BY <1>4, <1>5 DEF RowsIn, m

\* Rows of the selections of a call, as the constructor makes them and as the
\* library means them.
LEMMA RowsOfArrays ==
  ASSUME NEW n \in Nat \ {0}, NEW s \in Sels(n), s.count[n] # 0
  PROVE  /\ RowsIn(s.start, s.count) = SelRows(n, s)
         /\ Row(s.start) = FirstRow(n, s)
<1>1. s.start \in [1 .. n -> Nat] /\ s.count \in [1 .. n -> Nat] /\ n \in Nat
  BY SelFields
<1>2. Len(s.start) = n
  BY DEF Sels
<1> QED BY <1>1, <1>2, RowsInIs DEF SelRows, FirstRow, Row

\* The rows of a block of the library are those its counts give.
LEMMA RowsOfBlocks ==
  ASSUME NEW n \in Nat \ {0}, NEW b, IsBlock(b, n)
  PROVE  RowsIn(b.start, Whole(b).count) = RowBox(b)
<1>1. b.start \in [1 .. n -> Nat] /\ Whole(b).count \in [1 .. n -> Nat \ {0}] /\ n \in Nat
  BY BlockShape
<1>2. Whole(b).count \in [1 .. n -> Nat] /\ Whole(b).count[n] # 0
  BY <1>1
<1>3. RowBox(b) = Cuboid(n - 1, b.start, Whole(b).count)
  BY RowsOfBlock
<1> QED BY <1>1, <1>2, <1>3, RowsInIs

\* Hyperslabs of several blocks are broken up and sorted without losing a row,
\* without adding one and in the order of the rows, and the memory allocated in
\* the first pass is what the second one fills (counting and filling in the
\* constructor of H5VL_log_selections), for any number of blocks of any rank
\* that the library may return.
THEOREM Translation == Spec => []RowsTranslated
<1>1. ASSUME IInv, Multiple(call.space) PROVE RowsTranslated
  <2> DEFINE n == Len(dims)
             ds == call.space
             blocks == ds.blocks
             arrays == ArraysOf(ds, dims)
             rows == [i \in DOMAIN blocks |-> RowsIn(blocks[i].start, Whole(blocks[i]).count)]
             got == [i \in DOMAIN arrays |-> RowsIn(arrays[i].start, arrays[i].count)]
  <2>1. ds \in Of(Spaces)
    BY <1>1 DEF IInv, Multiple, NoSpace
  <2>2. dims \in Extents
    BY <1>1 DEF IInv, TypeOK
  <2>3. Fits(ds, dims) /\ dims \in Seq(Nat \ {0})
    BY <2>1, <2>2, SpacesFit
  <2> HIDE DEF ds
  <2>4. /\ n \in Nat \ {0} /\ BlockList(blocks, n) /\ Len(arrays) = RoomFor(blocks)
        /\ arrays \in Seq(Sels(n))
        /\ \E own : HoldsRows(n, arrays, blocks, own)
    BY <1>1, <2>3, MultipleHolds DEF ds
  <2>5. PICK own : HoldsRows(n, arrays, blocks, own)
    BY <2>4
  <2>6. blocks \in Seq([start : Coordinates, end : Coordinates])
        /\ \A i \in 1 .. Len(blocks) : IsBlock(blocks[i], n)
    BY <2>4 DEF BlockList
  <2> HIDE DEF n, blocks, arrays
  <2>7. DOMAIN blocks = 1 .. Len(blocks) /\ DOMAIN arrays = 1 .. Len(arrays)
        /\ \A a \in 1 .. Len(arrays) : arrays[a] \in Sels(n) /\ arrays[a].count[n] # 0
    BY <2>4, <2>5, <2>6, LenProperties DEF HoldsRows
  <2>8. /\ DOMAIN rows = 1 .. Len(blocks) /\ DOMAIN got = 1 .. Len(arrays)
        /\ \A i \in 1 .. Len(blocks) : rows[i] = RowBox(blocks[i])
        /\ \A a \in 1 .. Len(arrays) : got[a] = SelRows(n, arrays[a])
    <3>1. \A i \in 1 .. Len(blocks) : RowsIn(blocks[i].start, Whole(blocks[i]).count) = RowBox(blocks[i])
      BY <2>4, <2>6, RowsOfBlocks
    <3>2. \A a \in 1 .. Len(arrays) : RowsIn(arrays[a].start, arrays[a].count) = SelRows(n, arrays[a])
      BY <2>4, <2>7, RowsOfArrays
    <3> QED BY <2>7, <3>1, <3>2
  <2> HIDE DEF rows, got
  <2>9. \A r : Cardinality({i \in DOMAIN got : r \in got[i]})
                 = Cardinality({i \in DOMAIN rows : r \in rows[i]})
    <3> SUFFICES ASSUME NEW r
                 PROVE  Cardinality({i \in DOMAIN got : r \in got[i]})
                          = Cardinality({i \in DOMAIN rows : r \in rows[i]})
      OBVIOUS
    <3>1. {i \in DOMAIN got : r \in got[i]} = {a \in 1 .. Len(arrays) : r \in SelRows(n, arrays[a])}
      BY <2>8
    <3>2. {i \in DOMAIN rows : r \in rows[i]} = {i \in 1 .. Len(blocks) : r \in RowBox(blocks[i])}
      BY <2>8
    <3>3. Cardinality(ArraysWith(n, arrays, r)) = Cardinality(BlocksWith(blocks, r))
      BY <2>4, <2>5, RowsAsOften
    <3> QED BY <3>1, <3>2, <3>3 DEF ArraysWith, BlocksWith
  <2>10. ASSUME NEW i \in DOMAIN arrays, NEW j \in DOMAIN arrays, i < j
         PROVE  ~LessThan(Row(arrays[j].start), Row(arrays[i].start))
    <3>1. Row(arrays[i].start) = FirstRow(n, arrays[i]) /\ Row(arrays[j].start) = FirstRow(n, arrays[j])
      BY <2>4, <2>7, <2>10, RowsOfArrays
    <3> QED BY <2>5, <2>7, <2>10, <3>1 DEF HoldsRows
  <2> QED BY <2>4, <2>9, <2>10 DEF RowsTranslated, rows, got, arrays, blocks, ds
<1>2. IInv => RowsTranslated
  BY <1>1 DEF RowsTranslated
<1> QED BY <1>2, Invariance, PTL

-----------------------------------------------------------------------------
(* What a write stores *)

\* The type made of a memory selection lists its elements at their places in
\* an array.
LEMMA TypePlaces ==
  ASSUME NEW n \in Nat \ {0}, NEW sels \in Seq(Sels(n)), NEW hsize \in [1 .. n -> Nat]
  PROVE  /\ Len(MpiType(sels, hsize)) = SelSize(sels)
         /\ DOMAIN MpiType(sels, hsize) = 1 .. SelSize(sels)
         /\ \A k \in 1 .. SelSize(sels) :
              MpiType(sels, hsize)[k] = Linear(hsize, FlattenSeq(Pieces(sels))[k])
<1> DEFINE N == Len(sels)
           p == Pieces(sels)
           V == Vectors(n)
           q == [i \in DOMAIN sels |->
                   LET cells == CellsOf(sels[i])
                   IN  [k \in DOMAIN cells |-> Linear(hsize, cells[k])]]
<1>1. /\ N \in Nat /\ DOMAIN sels = 1 .. N
      /\ p \in Seq(Seq(V)) /\ Len(p) = N
      /\ \A i \in 1 .. N : p[i] = CellsOf(sels[i])
      /\ EndOf(p, N) = SelSize(sels)
  BY PiecesShape
<1>2. ASSUME NEW i \in 1 .. N
      PROVE  /\ q[i] \in Seq(Int) /\ Len(q[i]) = Len(p[i])
             /\ \A j \in 1 .. Len(p[i]) : q[i][j] = Linear(hsize, p[i][j])
  <2>1. q[i] = [k \in DOMAIN p[i] |-> Linear(hsize, p[i][k])]
    BY <1>1
  <2> HIDE DEF q, p, N, V
  <2>2. p[i] \in Seq(V)
    BY <1>1, ElementOfSeq
  <2>3. /\ Len(p[i]) \in Nat /\ DOMAIN p[i] = 1 .. Len(p[i])
        /\ \A j \in 1 .. Len(p[i]) : p[i][j] \in V
    BY <2>2, LenProperties, ElementOfSeq
  <2>4. \A j \in 1 .. Len(p[i]) : Linear(hsize, p[i][j]) \in Int
    BY <2>3, LinearType DEF V, Vectors
  <2>5. q[i] \in [1 .. Len(p[i]) -> Int]
    BY <2>1, <2>3, <2>4
  <2> QED BY <2>1, <2>3, <2>5, LenProperties
<1>3. q \in Seq(Seq(Int)) /\ Len(q) = N /\ DOMAIN q = 1 .. N
  <2>1. q = [i \in 1 .. N |-> q[i]]
    BY <1>1
  <2> HIDE DEF q, N, p
  <2>2. q \in [1 .. N -> Seq(Int)]
    BY <1>2, <2>1
  <2> QED BY <1>1, <2>2, LenProperties
<1>4. DOMAIN p = 1 .. N
  BY <1>1, LenProperties
<1>5. LengthsOf(q) = LengthsOf(p)
  <2> HIDE DEF q, p, N
  <2> QED BY <1>2, <1>3, <1>4 DEF LengthsOf
<1>6. \A i \in Int : EndOf(q, i) = EndOf(p, i)
  BY <1>5 DEF EndOf
<1>7. FlattenSeq(q) = MpiType(sels, hsize)
  BY DEF MpiType
<1> HIDE DEF q, p, N, V
<1>8. /\ FlattenSeq(q) \in Seq(Int) /\ Len(FlattenSeq(q)) = SelSize(sels)
      /\ \A i \in 1 .. N : \A j \in 1 .. Len(q[i]) : FlattenSeq(q)[EndOf(q, i - 1) + j] = q[i][j]
  <2>1. EndOf(q, N) = SelSize(sels)
    BY <1>1, <1>6
  <2> QED BY <1>3, <2>1, Flatten
<1>9. \A i \in 1 .. N : \A j \in 1 .. Len(p[i]) : FlattenSeq(p)[EndOf(p, i - 1) + j] = p[i][j]
  BY <1>1, Flatten
<1>10. ASSUME NEW k \in 1 .. SelSize(sels)
       PROVE  FlattenSeq(q)[k] = Linear(hsize, FlattenSeq(p)[k])
  <2>1. PICK i \in 1 .. N : \E j \in 1 .. Len(p[i]) : k = EndOf(p, i - 1) + j
    BY <1>1, PieceOf
  <2>2. PICK j \in 1 .. Len(p[i]) : k = EndOf(p, i - 1) + j
    BY <2>1
  <2>3. EndOf(q, i - 1) = EndOf(p, i - 1)
    BY <1>1, <1>6
  <2>4. FlattenSeq(q)[k] = q[i][j]
    BY <1>2, <1>8, <2>2, <2>3
  <2>5. FlattenSeq(p)[k] = p[i][j]
    BY <1>9, <2>2
  <2> QED BY <1>2, <2>4, <2>5
<1> QED BY <1>7, <1>8, <1>10, LenProperties DEF p

\* An element is found at its own place if no other has it.
LEMMA FoundAtPlace ==
  ASSUME NEW N \in Nat, NEW positions, DOMAIN positions = 1 .. N, IsInjective(positions),
         NEW k \in 1 .. N
  PROVE  ElementAt(positions, positions[k]) = k
<1> DEFINE at == {j \in DOMAIN positions : positions[j] = positions[k]}
<1>1. k \in at /\ \A j \in at : j = k
  BY DEF IsInjective
<1>2. at \in SUBSET Int
  OBVIOUS
<1>3. \A j \in at : j <= k
  BY <1>1
<1> HIDE DEF at
<1>4. Max(at) = k /\ at # {}
  BY <1>1, <1>2, <1>3, MaxIs
<1> QED BY <1>4 DEF ElementAt, at

\* What the constructor makes of anything but several hyperslabs.
LEMMA WholeTranslated ==
  ASSUME NEW n \in Nat, NEW ds, NEW extent, ~Multiple(ds),
         ArraysOf(ds, extent) \in Seq(Sels(n)), NEW nsel, nsel = Len(ArraysOf(ds, extent))
  PROVE  Translate(ds, extent, nsel) = ArraysOf(ds, extent)
BY SubSeqFull DEF Translate

\* A selection of one block or point.
LEMMA OneBlockIsPlain ==
  ASSUME NEW ds, OneBlock(ds)
  PROVE  Plain(ds) /\ ~Multiple(ds) /\ ds.type # "all"
<1>1. CASE ds.type = "hyperslabs"
  <2>1. Len(ds.blocks) = 1
    BY <1>1 DEF OneBlock
  <2>2. Plain(ds) /\ ds.type # "all"
    BY <1>1, <2>1 DEF Plain
  <2>3. ~Multiple(ds)
    BY <2>1 DEF Multiple
  <2> QED BY <2>2, <2>3
<1>2. CASE ds.type # "hyperslabs"
  BY <1>2 DEF OneBlock, Plain, Multiple
<1> QED BY <1>1, <1>2

\* The places of the elements of a selection of memory that is no hyperslab of
\* several blocks: in the order of the type made of it.
PlacesIn(space, extent) ==
  [k \in DOMAIN Elements(space, extent) |-> Linear(extent, Elements(space, extent)[k])]

\* The type made of such a selection lists these places.
LEMMA TypeIsPlaces ==
  ASSUME NEW extent \in Seq(Nat \ {0}), Len(extent) # 0,
         NEW space, Fits(space, extent), Plain(space)
  PROVE  /\ DOMAIN PlacesIn(space, extent) = 1 .. SelSize(ArraysOf(space, extent))
         /\ Len(Elements(space, extent)) = SelSize(ArraysOf(space, extent))
         /\ SelSize(ArraysOf(space, extent)) \in Nat
         /\ \A k \in 1 .. SelSize(ArraysOf(space, extent)) :
              MpiType(ArraysOf(space, extent), extent)[k] = PlacesIn(space, extent)[k]
         /\ DOMAIN MpiType(ArraysOf(space, extent), extent) = 1 .. SelSize(ArraysOf(space, extent))
<1> DEFINE n == Len(extent)
           sels == ArraysOf(space, extent)
           cells == Elements(space, extent)
<1>1. n \in Nat \ {0} /\ extent \in [1 .. n -> Nat] /\ sels \in Seq(Sels(n))
  <2>1. extent \in [1 .. n -> Nat \ {0}] /\ n \in Nat
    BY LenProperties
  <2>2. sels \in Seq(Sels(n))
    BY ArraysShape
  <2> QED BY <2>1, <2>2
<1>2. cells = FlattenSeq(Pieces(sels))
  BY ElementsAreCells
<1> HIDE DEF n, sels, cells
<1>3. cells \in Seq(Vectors(n)) /\ Len(cells) = SelSize(sels) /\ SelSize(sels) \in Nat
  BY <1>1, <1>2, ElementPlaces
<1>4. DOMAIN cells = 1 .. SelSize(sels)
  BY <1>3, LenProperties
<1>5. /\ DOMAIN MpiType(sels, extent) = 1 .. SelSize(sels)
      /\ \A k \in 1 .. SelSize(sels) : MpiType(sels, extent)[k] = Linear(extent, cells[k])
  BY <1>1, <1>2, TypePlaces
<1> QED BY <1>3, <1>4, <1>5 DEF PlacesIn, cells, sels

\* The elements of all of an array are at their places in order.
LEMMA AllInOrder ==
  ASSUME NEW extent \in Seq(Nat \ {0}), Len(extent) # 0, NEW space, space.type = "all"
  PROVE  \A k \in DOMAIN Elements(space, extent) : PlacesIn(space, extent)[k] = k - 1
<1> DEFINE n == Len(extent)
           s == [start |-> [i \in DOMAIN extent |-> 0], count |-> extent]
           t == CellsOf(s)
<1>1. n \in Nat \ {0} /\ extent \in [1 .. n -> Nat] /\ DOMAIN extent = 1 .. n
  BY LenProperties
<1>2. Elements(space, extent) = t
  BY DEF Elements
<1>3. s \in Sels(n) /\ s.count = extent /\ \A i \in 1 .. n : s.start[i] = 0
  <2>1. s.start \in [1 .. n -> Nat] /\ \A i \in 1 .. n : s.start[i] = 0
    BY <1>1
  <2> HIDE DEF n
  <2> QED BY <1>1, <2>1, SelShape
<1> HIDE DEF s, n
<1>4. /\ t \in [1 .. Volume(s.count) -> BoxOfSel(n, s)]
      /\ \A k \in 1 .. Volume(s.count) : Linear(s.count, Offset(s, t[k])) = k - 1
  BY <1>1, <1>3, CellPlaces
<1> HIDE DEF t
<1>5. ASSUME NEW k \in 1 .. Volume(s.count) PROVE Offset(s, t[k]) = t[k]
  <2>1. t[k] \in [1 .. n -> Int]
    BY <1>4 DEF BoxOfSel, Cuboid, Vectors
  <2>2. ASSUME NEW i \in 1 .. n PROVE t[k][i] - s.start[i] = t[k][i]
    <3>1. t[k][i] \in Int /\ s.start[i] = 0
      BY <1>3, <2>1
    <3> QED BY <3>1
  <2> QED BY <2>1, <2>2 DEF Offset
<1>6. \A k \in 1 .. Volume(s.count) : Linear(extent, t[k]) = k - 1
  BY <1>3, <1>4, <1>5
<1> QED BY <1>2, <1>4, <1>6 DEF PlacesIn

\* Memory of a write: one of the instance's, or contiguous (H5Dwrite_n).
Memory(ms) == ms \in MemSpaces \/ ms = [kind |-> "contig"]
\* The memory type's dimensions.
LEMMA MemoryFits ==
  ASSUME NEW ms, Memory(ms), ms.kind = "space"
  PROVE  ms.dims \in Seq(Nat \ {0}) /\ Len(ms.dims) # 0 /\ Fits(ms.space, ms.dims)
<1>1. ms \in MemSpaces
  BY DEF Memory
<1>2. /\ ms.dims \in Seq(Nat \ {0}) \ {<<>>}
      /\ IsDataspace(ms.space) /\ InExtent(ms.space, ms.dims)
  BY <1>1, Parameters
<1>3. Len(ms.dims) # 0
  BY <1>2, EmptySeq
<1> QED BY <1>2, <1>3 DEF Fits, InExtent

\* All of an array is a sequence of elements.
LEMMA AllElements ==
  ASSUME NEW extent \in Seq(Nat \ {0}), Len(extent) # 0, NEW space, space.type = "all"
  PROVE  DOMAIN Elements(space, extent) = 1 .. Len(Elements(space, extent))
<1> DEFINE n == Len(extent)
           s == [start |-> [i \in DOMAIN extent |-> 0], count |-> extent]
<1>1. n \in Nat \ {0} /\ extent \in [1 .. n -> Nat] /\ DOMAIN extent = 1 .. n
  BY LenProperties
<1>2. Elements(space, extent) = CellsOf(s)
  BY DEF Elements
<1>3. s \in Sels(n)
  <2>1. s.start \in [1 .. n -> Nat]
    BY <1>1
  <2> HIDE DEF n
  <2> QED BY <1>1, <2>1, SelShape
<1> HIDE DEF s, n
<1>4. CellsOf(s) \in [1 .. Volume(s.count) -> BoxOfSel(n, s)] /\ Volume(s.count) \in Nat
  BY <1>1, <1>3, CellPlaces
<1> QED BY <1>2, <1>4, LenProperties

\* A faithful write puts its elements into the data block in order: memory that
\* is contiguous as it is, any other through a type in which they come in the
\* order in which the library selects them.
LEMMA PackedInOrder ==
  ASSUME dims \in Extents, NEW ds \in Of(Spaces), NEW ms, Memory(ms), Matches(ds, ms),
         Faithful([space |-> ds, memory |-> ms]),
         NEW mnsel, ~IsContiguous(ds, ms) => mnsel \in NselOf(MemSpace(ds, ms), dims),
         NEW msels, msels = Translate(MemSpace(ds, ms), PackDims(ds, ms), mnsel)
  PROVE  \A k \in 1 .. SelSize(ArraysOf(ds, dims)) :
           Packed(ds, ms, SelSize(ArraysOf(ds, dims)), msels)[k] = k
<1> DEFINE size == SelSize(ArraysOf(ds, dims))
           positions == Positions(ds, ms)
           order == IF IsContiguous(ds, ms) THEN [k \in 1 .. size |-> k - 1]
                    ELSE MpiType(msels, PackDims(ds, ms))
<1>1. /\ dims \in Seq(Nat \ {0}) /\ Len(dims) # 0 /\ Fits(ds, dims)
  <2>1. dims # <<>>
    BY Parameters
  <2>2. dims \in Seq(Nat \ {0}) /\ Fits(ds, dims)
    BY SpacesFit
  <2> QED BY <2>1, <2>2, EmptySeq
<1>2. OneBlock(ds) /\ IsInjective(positions)
  BY DEF Faithful
<1>3. Plain(ds) /\ ~Multiple(ds) /\ ds.type # "all"
  BY <1>2, OneBlockIsPlain
<1>4. /\ Len(Elements(ds, dims)) = size /\ size \in Nat
      /\ DOMAIN PlacesIn(ds, dims) = 1 .. size
      /\ \A k \in 1 .. size : MpiType(ArraysOf(ds, dims), dims)[k] = PlacesIn(ds, dims)[k]
      /\ DOMAIN MpiType(ArraysOf(ds, dims), dims) = 1 .. size
  BY <1>1, <1>3, TypeIsPlaces
<1>5. DOMAIN Elements(ds, dims) = 1 .. size
  BY <1>4 DEF PlacesIn
<1>6. ms.kind \in {"contig", "file", "space"}
  BY Parameters DEF Memory
<1>7. DOMAIN positions = 1 .. size /\ DOMAIN order = 1 .. size
        /\ \A k \in 1 .. size : order[k] = positions[k]
  <2>1. CASE ms.kind = "contig"
    <3>1. IsContiguous(ds, ms)
      BY <2>1 DEF IsContiguous
    <3>2. positions = [k \in DOMAIN Elements(ds, dims) |-> k - 1]
      BY <2>1 DEF Positions
    <3> QED BY <1>5, <3>1, <3>2
  <2>2. CASE ms.kind = "file"
    <3>1. ~IsContiguous(ds, ms)
      BY <1>3, <2>2 DEF IsContiguous
    <3>2. positions = PlacesIn(ds, dims)
      BY <2>2 DEF Positions, PlacesIn
    <3>3. PackDims(ds, ms) = dims /\ MemSpace(ds, ms) = ds
      <4>1. PackDims(ds, ms) = SubSeq(dims, 1, Len(dims)) /\ MemSpace(ds, ms) = ds
        BY <2>2 DEF PackDims, MemRank, MemSpace
      <4> QED BY <1>1, <4>1, SubSeqFull
    <3>4. msels = ArraysOf(ds, dims)
      <4>1. mnsel = Len(ArraysOf(ds, dims))
        BY <1>3, <3>1, <3>3 DEF NselOf
      <4>2. ArraysOf(ds, dims) \in Seq(Sels(Len(dims))) /\ Len(dims) \in Nat
        BY <1>1, ArraysShape, LenProperties
      <4> QED BY <1>3, <3>3, <4>1, <4>2, WholeTranslated
    <3>5. order = MpiType(ArraysOf(ds, dims), dims)
      BY <3>1, <3>3, <3>4
    <3> QED BY <1>4, <3>2, <3>5
  <2>3. CASE ms.kind = "space"
    <3> DEFINE space == ms.space
               extent == ms.dims
    <3>1. extent \in Seq(Nat \ {0}) /\ Len(extent) # 0 /\ Fits(space, extent)
      BY <2>3, MemoryFits
    <3>2. extent = SubSeq(dims, 1, Len(extent)) /\ ~Multiple(space)
      BY <2>3 DEF Faithful
    <3>3. positions = PlacesIn(space, extent)
      BY <2>3 DEF Positions, PlacesIn
    <3>4. Len(Elements(space, extent)) = size
      BY <1>4, <2>3 DEF Matches
    <3>5. CASE space.type = "all"
      <4>1. IsContiguous(ds, ms)
        BY <2>3, <3>5 DEF IsContiguous
      <4>2. \A k \in DOMAIN Elements(space, extent) : PlacesIn(space, extent)[k] = k - 1
        BY <3>1, <3>5, AllInOrder
      <4>3. DOMAIN Elements(space, extent) = 1 .. size
        BY <3>1, <3>4, <3>5, AllElements
      <4> QED BY <3>3, <4>1, <4>2, <4>3 DEF PlacesIn
    <3>6. CASE space.type # "all"
      <4>1. ~IsContiguous(ds, ms)
        BY <2>3, <3>6 DEF IsContiguous
      <4>2. Plain(space)
        <5>1. IsDataspace(space)
          BY <3>1 DEF Fits
        <5> HIDE DEF space
        <5>2. ASSUME space.type = "hyperslabs" PROVE Len(space.blocks) = 1
          <6>1. Len(space.blocks) \in Nat /\ Len(space.blocks) # 0
            BY <5>1, <5>2, EmptySeq, LenProperties DEF IsDataspace
          <6>2. ~(Len(space.blocks) > 1)
            BY <3>2, <5>2 DEF Multiple
          <6> DEFINE x == Len(space.blocks)
          <6>3. x \in Nat /\ x # 0 /\ ~(x > 1)
            BY <6>1, <6>2
          <6> HIDE DEF x
          <6>4. x = 1
            BY <6>3
          <6> QED BY <6>4 DEF x
        <5> QED BY <3>6, <5>1, <5>2 DEF Plain, IsDataspace
      <4>3. PackDims(ds, ms) = extent /\ MemSpace(ds, ms) = space
        BY <2>3, <3>2 DEF PackDims, MemRank, MemSpace
      <4>4. ArraysOf(space, extent) = ArraysOf(space, dims)
        BY <3>6 DEF ArraysOf
      <4>5. msels = ArraysOf(space, extent)
        <5>1. mnsel = Len(ArraysOf(space, extent))
          BY <3>2, <4>1, <4>3, <4>4 DEF NselOf
        <5>2. ArraysOf(space, extent) \in Seq(Sels(Len(extent))) /\ Len(extent) \in Nat
          BY <3>1, ArraysShape, LenProperties
        <5> QED BY <3>2, <4>3, <5>1, <5>2, WholeTranslated
      <4>6. order = MpiType(ArraysOf(space, extent), extent)
        BY <4>1, <4>3, <4>5
      <4> HIDE DEF space, extent, order, positions, size
      <4>7. /\ DOMAIN PlacesIn(space, extent) = 1 .. SelSize(ArraysOf(space, extent))
            /\ Len(Elements(space, extent)) = SelSize(ArraysOf(space, extent))
            /\ \A k \in 1 .. SelSize(ArraysOf(space, extent)) :
                 MpiType(ArraysOf(space, extent), extent)[k] = PlacesIn(space, extent)[k]
            /\ DOMAIN MpiType(ArraysOf(space, extent), extent) = 1 .. SelSize(ArraysOf(space, extent))
        BY <3>1, <4>2, TypeIsPlaces
      <4> QED BY <3>3, <3>4, <4>6, <4>7
    <3> QED BY <3>5, <3>6
  <2> QED BY <1>6, <2>1, <2>2, <2>3
<1>8. Packed(ds, ms, size, msels) = [k \in DOMAIN order |-> ElementAt(positions, order[k])]
  BY DEF Packed
<1> HIDE DEF order, positions, size
<1>9. ASSUME NEW k \in 1 .. size PROVE Packed(ds, ms, size, msels)[k] = k
  <2>1. Packed(ds, ms, size, msels)[k] = ElementAt(positions, positions[k])
    BY <1>7, <1>8
  <2> QED BY <1>2, <1>4, <1>7, <2>1, FoundAtPlace
<1> QED BY <1>9 DEF size

\* The element and the byte a place in the data block is of.
LEMMA DivMod ==
  ASSUME NEW w \in Nat \ {0}, NEW x \in Nat, NEW b \in 0 .. w - 1
  PROVE  /\ x * w + b \in Nat /\ (x * w + b) \div w = x /\ (x * w + b) % w = b
<1> DEFINE y == x * w + b
           q == y \div w
           r == y % w
<1>1. x * w \in Nat /\ y \in Nat
  OBVIOUS
<1>2. q \in Nat /\ r \in 0 .. w - 1 /\ y = w * q + r
  <2> HIDE DEF y
  <2> QED BY <1>1
<1>3. w * q = q * w /\ q * w \in Int
  BY <1>2
<1> HIDE DEF q, r
<1>4. q = x
  <2>1. CASE q >= x + 1
    <3>1. (x + 1) * w <= q * w /\ (x + 1) * w = x * w + w
      BY <1>2, <2>1, Multiples
    <3> QED BY <1>1, <1>2, <1>3, <3>1
  <2>2. CASE x >= q + 1
    <3>1. (q + 1) * w <= x * w /\ (q + 1) * w = q * w + w
      BY <1>2, <2>2, Multiples
    <3> QED BY <1>1, <1>2, <1>3, <3>1
  <2> QED BY <1>2, <2>1, <2>2
<1>5. r = b
  BY <1>1, <1>2, <1>3, <1>4
<1> QED BY <1>1, <1>4, <1>5 DEF q, r

\* Bytes of elements before the end are before the end.
LEMMA ByteInside ==
  ASSUME NEW w \in Nat \ {0}, NEW N \in Nat, NEW x \in 0 .. N - 1, NEW b \in 0 .. w - 1
  PROVE  x * w + b \in 0 .. N * w - 1 /\ N * w \in Nat
<1>1. x * w \in Nat /\ (x + 1) * w = x * w + w /\ (x + 1) * w <= N * w /\ N * w \in Nat
  BY Multiples
<1> QED BY <1>1

\* The index has the block of every write of one, and its data block the elements
\* in order if the write is faithful.
Recorded ==
  \A e \in DOMAIN index : OneBlock(written[e].space) =>
    /\ written[e].space \in Of(Spaces)
    /\ index[e].sels = ArraysOf(written[e].space, dims)
ByteOf(e, k, b) == [write |-> e, elem |-> k, byte |-> b]
Stored ==
  \A e \in DOMAIN index : Faithful(written[e]) =>
    \A k \in 1 .. SelSize(index[e].sels), b \in 0 .. esize - 1 :
      bytes[index[e].foff + ((k - 1) * esize + b) + 1] = ByteOf(e, k, b)

\* What a read has done.
Fetched ==
  call.op = "read" =>
    /\ call.space \in Of(Spaces)
    /\ \E nsel \in NselOf(call.space, dims) : call.sels = Translate(call.space, dims, nsel)
    /\ call.hits = Search(index, call.sels)
    /\ call.plan = IF call.sels = <<>> THEN NoPlan ELSE PlanOf(call.hits, esize)
    /\ call.memory = IF call.plan.outcome # "ok" THEN <<>>
                     ELSE MemoryAfter(call.plan, bytes, esize * SelSize(call.sels))

Data == IInv /\ Recorded /\ Stored /\ Fetched

\* What a write appends: its entry, and the bytes of its data block.
Place(e, k, b) == IF k = 0 THEN Junk ELSE ByteOf(e, k, b)
Appends(ds, ms, nsel, mnsel) ==
  LET N     == Len(index)
      sels  == Translate(ds, dims, nsel)
      size  == SelSize(sels)
      msels == Translate(MemSpace(ds, ms), PackDims(ds, ms), mnsel)
      data  == Packed(ds, ms, size, msels)
  IN  /\ ~IsContiguous(ds, ms) => mnsel \in NselOf(MemSpace(ds, ms), dims)
      /\ Matches(ds, ms)
      /\ DOMAIN index = 1 .. N /\ DOMAIN index' = 1 .. N + 1 /\ N \in Nat
      /\ \A e \in 1 .. N : index'[e] = index[e] /\ written'[e] = written[e]
      /\ index'[N + 1] = [foff |-> Len(bytes), sels |-> sels]
      /\ written'[N + 1] = [space |-> ds, memory |-> ms]
      /\ Len(bytes) \in Nat
      /\ \A i \in 1 .. Len(bytes) : bytes'[i] = bytes[i]
      /\ \A i \in 1 .. size * esize :
           bytes'[Len(bytes) + i] = Place(N + 1, data[(i - 1) \div esize + 1], (i - 1) % esize)
      /\ dims' = dims /\ esize' = esize /\ call'.op = "write"

\* A write appends that, for some order in which qsort may leave its blocks.
LEMMA WriteAppends ==
  ASSUME IInv, NEW ds \in Of(Spaces), NEW ms, H5Dwrite(ds, ms)
  PROVE  \E nsel \in NselOf(ds, dims) : \E mnsel : Appends(ds, ms, nsel, mnsel)
<1>1. PICK nsel \in NselOf(ds, dims),
           mnsel \in IF IsContiguous(ds, ms) THEN {0} ELSE NselOf(MemSpace(ds, ms), dims) :
       LET sels  == Translate(ds, dims, nsel)
           size  == SelSize(sels)
           msels == Translate(MemSpace(ds, ms), PackDims(ds, ms), mnsel)
           data  == Packed(ds, ms, size, msels)
       IN  /\ index' = Append(index,
                [foff |-> EndOfLog(bytes), sels |-> sels])
           /\ bytes' = bytes \o [i \in 1 .. size * esize |->
                LET k == data[(i - 1) \div esize + 1]
                IN  IF k = 0 THEN Junk
                    ELSE [write |-> Len(index) + 1, elem |-> k, byte |-> (i - 1) % esize]]
           /\ written' = Append(written, [space |-> ds, memory |-> ms])
           /\ call' = [Idle EXCEPT !.op = "write", !.space = ds, !.sels = sels]
  BY DEF H5Dwrite
<1> DEFINE n == Len(dims)
           N == Len(index)
           sels == Translate(ds, dims, nsel)
           size == SelSize(sels)
           msels == Translate(MemSpace(ds, ms), PackDims(ds, ms), mnsel)
           data == Packed(ds, ms, size, msels)
           entry == [foff |-> Len(bytes), sels |-> sels]
           byte(i) == Place(N + 1, data[(i - 1) \div esize + 1], (i - 1) % esize)
           K == size * esize
           more == [i \in 1 .. K |-> byte(i)]
<1>2. /\ index' = Append(index, entry) /\ bytes' = bytes \o more
      /\ written' = Append(written, [space |-> ds, memory |-> ms])
      /\ call'.op = "write"
  BY <1>1 DEF EndOfLog, Idle, Place, ByteOf
<1>3. /\ dims \in Extents /\ esize \in Nat \ {0} /\ N \in Nat /\ Len(written) = N
      /\ index \in Seq(Entries(n)) /\ bytes \in Seq(Range(bytes)) /\ written \in Seq(Range(written))
      /\ Len(bytes) \in Nat /\ DOMAIN index = 1 .. N
  BY Parameters, LenProperties DEF IInv, TypeOK
<1>4. dims' = dims /\ esize' = esize /\ Matches(ds, ms)
  BY DEF H5Dwrite
<1>5. sels \in Seq(Sels(n)) /\ size \in Nat
  BY <1>3, Translated
<1> HIDE DEF n, N, sels, size, msels, data
<1>6. entry \in Entries(n)
  BY <1>3, <1>5 DEF Entries
<1>7. /\ DOMAIN index' = 1 .. N + 1 /\ index'[N + 1] = entry
      /\ \A e \in 1 .. N : index'[e] = index[e]
  <2> HIDE DEF entry
  <2>1. /\ Append(index, entry) \in Seq(Entries(n)) /\ Len(Append(index, entry)) = N + 1
        /\ Append(index, entry)[N + 1] = entry
        /\ \A e \in 1 .. N : Append(index, entry)[e] = index[e]
    BY <1>3, <1>6, AppendProperties DEF N
  <2>2. DOMAIN Append(index, entry) = 1 .. N + 1
    BY <2>1, LenProperties
  <2> QED BY <1>2, <2>1, <2>2
<1>8. /\ written'[N + 1] = [space |-> ds, memory |-> ms]
      /\ \A e \in 1 .. N : written'[e] = written[e]
  BY <1>2, <1>3, Appended
<1>9. K \in Nat
  BY <1>3, <1>5
<1>10. /\ \A i \in 1 .. Len(bytes) : bytes'[i] = bytes[i]
       /\ \A i \in 1 .. K : bytes'[Len(bytes) + i] = byte(i)
  <2> DEFINE V == {byte(i) : i \in 1 .. K}
  <2>1. more \in [1 .. K -> V]
    <3>1. more = [i \in 1 .. K |-> byte(i)] /\ \A i \in 1 .. K : byte(i) \in V
      OBVIOUS
    <3> HIDE DEF byte, K, V, more
    <3> QED BY <3>1
  <2>2. \A i \in 1 .. K : more[i] = byte(i)
    OBVIOUS
  <2> HIDE DEF byte, more, K, V
  <2>3. more \in Seq(V) /\ Len(more) = K
    BY <1>9, <2>1, LenProperties
  <2> DEFINE W == Range(bytes) \cup V
  <2>4. bytes \in Seq(W) /\ more \in Seq(W)
    BY <1>3, <2>3, LenProperties
  <2> HIDE DEF W
  <2>5. \A i \in 1 .. Len(bytes) + Len(more) :
          (bytes \o more)[i] = IF i <= Len(bytes) THEN bytes[i] ELSE more[i - Len(bytes)]
    BY <2>4, ConcatProperties
  <2>6. ASSUME NEW i \in 1 .. Len(bytes) PROVE bytes'[i] = bytes[i]
    BY <1>2, <1>3, <1>9, <2>3, <2>5
  <2>7. ASSUME NEW i \in 1 .. K PROVE bytes'[Len(bytes) + i] = byte(i)
    <3>1. Len(bytes) + i \in 1 .. Len(bytes) + Len(more) /\ ~(Len(bytes) + i <= Len(bytes))
          /\ Len(bytes) + i - Len(bytes) = i
      BY <1>3, <1>9, <2>3
    <3> QED BY <1>2, <2>2, <2>5, <3>1
  <2> QED BY <2>6, <2>7
<1>11. ~IsContiguous(ds, ms) => mnsel \in NselOf(MemSpace(ds, ms), dims)
  BY <1>1
<1>12. Appends(ds, ms, nsel, mnsel)
  BY <1>2, <1>3, <1>4, <1>7, <1>8, <1>10, <1>11 DEF Appends, N, sels, size, msels, data
<1> QED BY <1>12

\* The data block of an entry lies in the file.
LEMMA EntryInFile ==
  ASSUME IInv, NEW e \in 1 .. Len(index)
  PROVE  /\ index[e].foff \in Nat /\ SelSize(index[e].sels) \in Nat /\ Len(bytes) \in Nat
         /\ esize \in Nat \ {0}
         /\ index[e].foff + esize * SelSize(index[e].sels) <= Len(bytes)
<1> DEFINE n == Len(dims)
           N == Len(index)
<1>1. /\ index \in Seq(Entries(n)) /\ N \in Nat /\ DOMAIN index = 1 .. N
      /\ Len(bytes) \in Nat /\ esize \in Nat \ {0} /\ n \in Nat
      /\ \A g \in 1 .. N : index[g].foff + esize * SelSize(index[g].sels)
                             = IF g = N THEN Len(bytes) ELSE index[g + 1].foff
  <2>1. dims \in Seq(Nat \ {0}) /\ esize \in Nat \ {0}
    BY Parameters DEF IInv, TypeOK
  <2> QED BY <2>1, LenProperties DEF IInv, TypeOK
<1>2. \A g \in 1 .. N : index[g].foff \in Nat /\ SelSize(index[g].sels) \in Nat
  <2> SUFFICES ASSUME NEW g \in 1 .. N PROVE index[g].foff \in Nat /\ SelSize(index[g].sels) \in Nat
    OBVIOUS
  <2>1. index[g] \in Entries(n)
    BY <1>1, ElementOfSeq
  <2>2. index[g].foff \in Nat /\ index[g].sels \in Seq(Sels(n))
    BY <2>1 DEF Entries
  <2> QED BY <1>1, <2>2, SelSizeType
<1>3. Chained(n, index, esize)
  BY <1>1 DEF Chained
<1> DEFINE p == esize * SelSize(index[e].sels)
           q == esize * SelSize(index[N].sels)
           foff == index[e].foff
           last == index[N].foff
<1>4. N \in 1 .. N /\ e \in 1 .. N
  <2>1. N \in Nat
    BY <1>1
  <2> QED BY <2>1
<1>5. p \in Nat /\ q \in Nat /\ foff \in Nat /\ last \in Nat
  <2>1. \A a, b \in Nat : a * b \in Nat
    OBVIOUS
  <2> QED BY <1>1, <1>2, <1>4, <2>1
<1>6. last + q = Len(bytes)
  BY <1>1, <1>4
<1>7. e = N => foff = last /\ p = q
  OBVIOUS
<1>8. e # N => foff + p <= last
  <2> SUFFICES ASSUME e # N PROVE foff + p <= last
    OBVIOUS
  <2>1. N \in Nat
    BY <1>1
  <2>2. e < N
    BY <2>1
  <2> HIDE DEF n
  <2> QED BY <1>1, <1>3, <1>4, <2>2, EntriesApart
<1>9. Len(bytes) \in Nat
  BY <1>1
<1> HIDE DEF p, q, foff, last
<1>10. foff + p <= Len(bytes)
  BY <1>5, <1>6, <1>7, <1>8, <1>9
<1> QED BY <1>1, <1>2, <1>10 DEF p, foff

\* A byte of an element of an entry.
LEMMA EntryByte ==
  ASSUME IInv, NEW e \in 1 .. Len(index), NEW k \in 1 .. SelSize(index[e].sels),
         NEW b \in 0 .. esize - 1
  PROVE  /\ (k - 1) * esize + b \in Nat
         /\ index[e].foff + ((k - 1) * esize + b) + 1 \in 1 .. Len(bytes)
<1> DEFINE size == SelSize(index[e].sels)
           x == (k - 1) * esize + b
<1>1. /\ index[e].foff \in Nat /\ size \in Nat /\ Len(bytes) \in Nat /\ esize \in Nat \ {0}
      /\ index[e].foff + esize * size <= Len(bytes)
  BY EntryInFile
<1> HIDE DEF size
<1>2. k - 1 \in 0 .. size - 1
  BY <1>1 DEF size
<1>3. x \in 0 .. size * esize - 1 /\ size * esize \in Nat
  BY <1>1, <1>2, ByteInside
<1>4. size * esize = esize * size
  BY <1>1
<1> HIDE DEF x
<1>5. x \in Nat /\ index[e].foff + x + 1 \in 1 .. Len(bytes)
  <2> DEFINE K == size * esize
  <2>1. index[e].foff + K <= Len(bytes) /\ K \in Nat /\ x \in 0 .. K - 1
    BY <1>1, <1>3, <1>4
  <2> HIDE DEF K
  <2> QED BY <1>1, <2>1
<1> QED BY <1>5 DEF x

\* A write keeps what is recorded and stored.
LEMMA WriteData ==
  ASSUME Data, NEW ds \in Of(Spaces), NEW ms, Memory(ms), H5Dwrite(ds, ms)
  PROVE  Recorded' /\ Stored' /\ Fetched'
<1> DEFINE N == Len(index)
<1>0. PICK nsel \in NselOf(ds, dims) : \E mnsel : Appends(ds, ms, nsel, mnsel)
  BY WriteAppends DEF Data
<1>1. IInv /\ Recorded /\ Stored
  BY DEF Data
<1>2. PICK mnsel : Appends(ds, ms, nsel, mnsel)
  BY <1>0
<1> DEFINE sels == Translate(ds, dims, nsel)
           size == SelSize(sels)
           msels == Translate(MemSpace(ds, ms), PackDims(ds, ms), mnsel)
           data == Packed(ds, ms, size, msels)
<1>3. /\ DOMAIN index = 1 .. N /\ DOMAIN index' = 1 .. N + 1 /\ N \in Nat
      /\ \A e \in 1 .. N : index'[e] = index[e] /\ written'[e] = written[e]
      /\ index'[N + 1] = [foff |-> Len(bytes), sels |-> sels]
      /\ written'[N + 1] = [space |-> ds, memory |-> ms]
      /\ Len(bytes) \in Nat
      /\ \A i \in 1 .. Len(bytes) : bytes'[i] = bytes[i]
      /\ dims' = dims /\ esize' = esize /\ call'.op = "write"
      /\ Matches(ds, ms)
  BY <1>2 DEF Appends
<1>4. /\ ~IsContiguous(ds, ms) => mnsel \in NselOf(MemSpace(ds, ms), dims)
      /\ \A i \in 1 .. size * esize :
           bytes'[Len(bytes) + i]
             = Place(N + 1, data[(i - 1) \div esize + 1], (i - 1) % esize)
  BY <1>2 DEF Appends
<1>5. dims \in Extents /\ esize \in Nat \ {0}
  BY <1>1, Parameters DEF IInv, TypeOK
<1>6. OneBlock(ds) => sels = ArraysOf(ds, dims)
  <2> SUFFICES ASSUME OneBlock(ds) PROVE sels = ArraysOf(ds, dims)
    OBVIOUS
  <2>1. ~Multiple(ds)
    BY OneBlockIsPlain
  <2>2. Fits(ds, dims) /\ dims \in Seq(Nat \ {0}) /\ Len(dims) \in Nat
    BY <1>5, SpacesFit
  <2>3. nsel = Len(ArraysOf(ds, dims))
    BY <2>1 DEF NselOf
  <2>4. ArraysOf(ds, dims) \in Seq(Sels(Len(dims)))
    BY <2>2, ArraysShape
  <2> QED BY <2>1, <2>2, <2>3, <2>4, WholeTranslated
<1>7. size \in Nat
  BY <1>5, Translated
<1>8. Recorded'
  <2> SUFFICES ASSUME NEW e \in 1 .. N + 1, OneBlock(written'[e].space)
               PROVE  /\ written'[e].space \in Of(Spaces)
                      /\ index'[e].sels = ArraysOf(written'[e].space, dims)
    BY <1>3, SameDataset DEF Recorded, OneBlock
  <2>1. CASE e = N + 1
    <3>1. written'[e].space = ds /\ index'[e].sels = sels
      BY <1>3, <2>1
    <3> HIDE DEF sels
    <3> QED BY <1>6, <3>1
  <2>2. CASE e # N + 1
    <3>1. e \in 1 .. N
      BY <1>3, <2>2
    <3> QED BY <1>1, <1>3, <3>1 DEF Recorded
  <2> QED BY <2>1, <2>2
<1>9. Stored'
  <2> SUFFICES ASSUME NEW e \in 1 .. N + 1, Faithful(written'[e]),
                      NEW k \in 1 .. SelSize(index'[e].sels), NEW b \in 0 .. esize - 1
               PROVE  bytes'[index'[e].foff + ((k - 1) * esize + b) + 1] = ByteOf(e, k, b)
    <3>1. \A e \in 1 .. N + 1 : Faithful(written[e])' => Faithful(written'[e])
      BY <1>3 DEF Faithful, Positions, OneBlock
    <3> QED BY <1>3, <3>1 DEF Stored, ByteOf
  <2>1. CASE e = N + 1
    <3>1. written'[e] = [space |-> ds, memory |-> ms] /\ index'[e].foff = Len(bytes)
          /\ index'[e].sels = sels
      BY <1>3, <2>1
    <3>2. Faithful([space |-> ds, memory |-> ms]) /\ OneBlock(ds)
      BY <3>1 DEF Faithful
    <3>3. \A j \in 1 .. size : data[j] = j
      <4>1. size = SelSize(ArraysOf(ds, dims))
        BY <1>6, <3>2
      <4>2. \A j \in 1 .. SelSize(ArraysOf(ds, dims)) :
              Packed(ds, ms, SelSize(ArraysOf(ds, dims)), msels)[j] = j
        <5> HIDE DEF size
        <5> QED BY <1>3, <1>4, <1>5, <3>2, PackedInOrder
      <4> QED BY <4>1, <4>2
    <3> DEFINE x == (k - 1) * esize + b
    <3>4. k \in 1 .. size
      BY <3>1
    <3> HIDE DEF size, data, sels, msels
    <3>5. x \in 0 .. size * esize - 1 /\ size * esize \in Nat
      <4>1. k - 1 \in 0 .. size - 1
        BY <1>7, <3>4
      <4> QED BY <1>5, <1>7, <4>1, ByteInside
    <3>6. x \div esize = k - 1 /\ x % esize = b
      <4>1. k - 1 \in Nat
        BY <1>7, <3>4
      <4> QED BY <1>5, <4>1, DivMod
    <3> HIDE DEF x
    <3>7. x + 1 \in 1 .. size * esize /\ (x + 1) - 1 = x
      BY <3>5
    <3>8. bytes'[Len(bytes) + (x + 1)]
            = Place(N + 1, data[x \div esize + 1], x % esize)
      <4> DEFINE i == x + 1
      <4>1. i \in 1 .. size * esize /\ i - 1 = x
        BY <3>7
      <4> HIDE DEF i
      <4>2. bytes'[Len(bytes) + i] = Place(N + 1, data[(i - 1) \div esize + 1], (i - 1) % esize)
        BY <1>4, <4>1
      <4>3. bytes'[Len(bytes) + i] = Place(N + 1, data[x \div esize + 1], x % esize)
        BY <4>1, <4>2
      <4> QED BY <4>3 DEF i
    <3>9. data[x \div esize + 1] = k /\ k # 0
      <4>1. k - 1 + 1 = k
        BY <1>7, <3>4
      <4> QED BY <1>7, <3>3, <3>4, <3>6, <4>1
    <3>10. Len(bytes) + (x + 1) = index'[e].foff + x + 1
      BY <1>3, <3>1, <3>5
    <3>11. bytes'[index'[e].foff + x + 1] = ByteOf(N + 1, k, b)
      BY <3>6, <3>8, <3>9, <3>10 DEF Place
    <3> QED BY <2>1, <3>11 DEF x
  <2>2. CASE e # N + 1
    <3>1. e \in 1 .. N /\ index'[e] = index[e] /\ written'[e] = written[e]
      BY <1>3, <2>2
    <3>2. index[e].foff + ((k - 1) * esize + b) + 1 \in 1 .. Len(bytes)
      BY <1>1, <3>1, EntryByte
    <3>3. bytes[index[e].foff + ((k - 1) * esize + b) + 1] = ByteOf(e, k, b)
      BY <1>1, <1>3, <3>1 DEF Stored
    <3> QED BY <1>3, <3>1, <3>2, <3>3
  <2> QED BY <2>1, <2>2
<1>10. Fetched'
  BY <1>3 DEF Fetched
<1> QED BY <1>8, <1>9, <1>10

-----------------------------------------------------------------------------
(* What a read does, and the invariant of the data *)

\* What a read does.
LEMMA ReadFetched ==
  ASSUME NEW ds \in Of(Spaces), H5Dread(ds)
  PROVE  Fetched'
<1>1. PICK nsel \in NselOf(ds, dims) :
       LET sels == Translate(ds, dims, nsel)
           hits == Search(index, sels)
           plan == IF sels = <<>> THEN NoPlan ELSE PlanOf(hits, esize)
       IN  call' = [op |-> "read", space |-> ds, sels |-> sels, hits |-> hits, plan |-> plan,
                    memory |-> IF plan.outcome # "ok" THEN <<>>
                               ELSE MemoryAfter(plan, bytes, esize * SelSize(sels))]
  BY DEF H5Dread
<1> DEFINE sels == Translate(ds, dims, nsel)
           hits == Search(index, sels)
           plan == IF sels = <<>> THEN NoPlan ELSE PlanOf(hits, esize)
           memory == IF plan.outcome # "ok" THEN <<>>
                     ELSE MemoryAfter(plan, bytes, esize * SelSize(sels))
<1>2. /\ call'.space = ds /\ call'.sels = sels /\ call'.hits = hits /\ call'.plan = plan
      /\ call'.memory = memory
  BY <1>1
<1>3. dims' = dims /\ esize' = esize /\ bytes' = bytes /\ index' = index
  BY DEF H5Dread
<1>4. ds \in Of(Spaces)'
  BY <1>3, SameDataset
<1>5. /\ call'.space \in Of(Spaces)' /\ nsel \in NselOf(call'.space, dims')
      /\ call'.sels = Translate(call'.space, dims', nsel)
  BY <1>2, <1>3, <1>4
<1>6. /\ call'.hits = Search(index', call'.sels)
      /\ call'.plan = IF call'.sels = <<>> THEN NoPlan ELSE PlanOf(call'.hits, esize')
  <2> HIDE DEF sels
  <2> QED BY <1>2, <1>3
<1>7. call'.memory = IF call'.plan.outcome # "ok" THEN <<>>
                     ELSE MemoryAfter(call'.plan, bytes', esize' * SelSize(call'.sels))
  <2> HIDE DEF sels, plan
  <2> QED BY <1>2, <1>3
<1> QED BY <1>5, <1>6, <1>7 DEF Fetched, NoPlan

\* A call that leaves the dataset as it is keeps what is recorded and stored.
LEMMA CallData ==
  ASSUME Recorded, Stored, UNCHANGED <<dims, esize, bytes, index, written>>
  PROVE  Recorded' /\ Stored'
<1>1. Recorded'
  BY SameDataset DEF Recorded, OneBlock
<1>2. dims' = dims /\ esize' = esize /\ bytes' = bytes /\ index' = index /\ written' = written
  OBVIOUS
<1>3. ASSUME NEW ds, NEW ms PROVE Positions(ds, ms)' = Positions(ds, ms)
  BY <1>2 DEF Positions
<1>4. ASSUME NEW w PROVE Faithful(w)' = Faithful(w)
  <2>1. Positions(w.space, w.memory)' = Positions(w.space, w.memory)
    BY <1>3
  <2> QED BY <1>2, <2>1 DEF Faithful, OneBlock
<1>5. Stored'
  <2>1. \A e \in DOMAIN index : Faithful(written[e])' = Faithful(written[e])
    BY <1>2, <1>4
  <2> QED BY <1>2, <2>1 DEF Stored, ByteOf
<1> QED BY <1>1, <1>5

\* The first state.
LEMMA InitData == Init => Data
<1> SUFFICES ASSUME Init PROVE Data
  OBVIOUS
<1>1. DOMAIN index = {} /\ call.op = "none"
  BY DEF Init, Idle
<1> QED BY <1>1, InitIInv DEF Data, Recorded, Stored, Fetched

\* Every step keeps it.
LEMMA NextData == Data /\ [Next]_vars => Data'
<1> SUFFICES ASSUME Data, [Next]_vars PROVE Data'
  OBVIOUS
<1>0. IInv' /\ Recorded /\ Stored /\ Fetched
  BY NextIInv DEF Data
<1>1. CASE UNCHANGED vars
  <2>1. UNCHANGED <<dims, esize, bytes, index, written, call>>
    BY <1>1 DEF vars
  <2>2. Recorded' /\ Stored'
    BY <1>0, <2>1, CallData
  <2>3. Fetched'
    BY <1>0, <2>1, SameDataset DEF Fetched, NoPlan
  <2> QED BY <1>0, <2>2, <2>3 DEF Data
<1>2. ASSUME NEW ds \in Of(Spaces), NEW ms, Memory(ms), H5Dwrite(ds, ms) PROVE Data'
  BY <1>0, <1>2, WriteData DEF Data
<1>3. ASSUME NEW ds \in Of(Spaces), NEW ms, H5DwriteNothing(ds, ms) PROVE Data'
  <2>1. PICK sels : call' = [Idle EXCEPT !.op = "nothing", !.space = ds, !.sels = sels]
    BY <1>3 DEF H5DwriteNothing
  <2>2. call'.op = "nothing"
    BY <2>1 DEF Idle
  <2>3. UNCHANGED <<dims, esize, bytes, index, written>>
    BY <1>3 DEF H5DwriteNothing
  <2>4. Fetched'
    BY <2>2 DEF Fetched
  <2>5. Recorded' /\ Stored'
    BY <1>0, <2>3, CallData
  <2> QED BY <1>0, <2>4, <2>5 DEF Data
<1>4. ASSUME NEW ds \in Of(Spaces), H5Dread(ds) PROVE Data'
  <2>1. UNCHANGED <<dims, esize, bytes, index, written>>
    BY <1>4 DEF H5Dread
  <2>2. Recorded' /\ Stored'
    BY <1>0, <2>1, CallData
  <2> QED BY <1>0, <1>4, <2>2, ReadFetched DEF Data
<1>5. Of(WriteSpaces) \subseteq Of(Spaces) /\ Of(ReadSpaces) \subseteq Of(Spaces)
  BY DEF Of, Spaces
<1>6. ASSUME NEW ds \in Of(Spaces), NEW op, H5VL_log_dataset_optional(op, ds) PROVE Data'
  BY <1>2, <1>4, <1>6 DEF H5VL_log_dataset_optional, Memory
<1>7. CASE Next
  <2>1. CASE \E ds \in Dataspaces(WriteSpaces), ms \in MemSpaces :
               H5Dwrite(ds, ms) \/ H5DwriteNothing(ds, ms)
    BY <1>2, <1>3, <1>5, <2>1 DEF Dataspaces, Memory
  <2>2. CASE \E ds \in Dataspaces(ReadSpaces) : H5Dread(ds)
    BY <1>4, <1>5, <2>2 DEF Dataspaces
  <2>3. CASE \E ds \in Of(WriteSpaces) : H5Dwrite_n(ds)
    BY <1>5, <1>6, <2>3 DEF H5Dwrite_n
  <2>4. CASE \E ds \in Of(ReadSpaces) : H5Dread_n(ds)
    BY <1>5, <1>6, <2>4 DEF H5Dread_n
  <2> QED BY <1>1, <1>7, <2>1, <2>2, <2>3, <2>4 DEF Next
<1> QED BY <1>1, <1>7

\* Every state keeps the data: the index has the blocks of every write, the file
\* has the elements of every faithful write where its entry says, and a read has
\* done what H5VL_log_dataseti_readi does (H5VL_log_dataseti_writei, _readi).
THEOREM DataInvariance == Spec => []Data
BY InitData, NextData, PTL DEF Spec

-----------------------------------------------------------------------------
(* Trimming: the bytes and addresses *)

\* A pair whose later run does not end before the earlier one: it loses what it
\* shares, copied from the end of the earlier one.
LEMMA PairCopied ==
  ASSUME NEW M \in Nat, NEW plan \in Plans(M), NEW k \in 1 .. M, NEW l \in 1 .. M, k # l,
         EndOfRun(plan.runs[k]) <= EndOfRun(plan.runs[l])
  PROVE  LET a == plan.runs[k]
             b == plan.runs[l]
             t == TrimPair(plan, k, l)
             size == EndOfRun(a) - b.f
         IN  /\ EndOfRun(a) <= b.f => t = plan
             /\ b.f < EndOfRun(a) =>
                  /\ size \in Nat
                  /\ \A i \in 1 .. M : i # l => t.runs[i] = plan.runs[i]
                  /\ t.runs[l] = [f |-> b.f + size, m |-> b.m + size, len |-> b.len - size]
                  /\ t.copies = Append(plan.copies,
                       [dst |-> b.m, src |-> a.m + (b.f - a.f), size |-> size])
<1> DEFINE a == plan.runs[k]
           b == plan.runs[l]
           t == TrimPair(plan, k, l)
           size == EndOfRun(a) - b.f
<1>1. /\ plan.runs \in [1 .. M -> Runs] /\ plan.copies \in Seq(Copies)
      /\ a \in Runs /\ b \in Runs
  BY DEF Plans
<1>2. /\ a.f \in Int /\ a.m \in Int /\ a.len \in Nat
      /\ b.f \in Int /\ b.m \in Int /\ b.len \in Nat
  BY <1>1 DEF Runs
<1>3. EndOfRun(a) = a.f + a.len /\ EndOfRun(b) = b.f + b.len
  BY DEF EndOfRun
<1> DEFINE af == a.f
           al == a.len
           am == a.m
           bf == b.f
           bl == b.len
           end == EndOfRun(a)
<1>6. /\ af \in Int /\ am \in Int /\ al \in Nat /\ bf \in Int /\ bl \in Nat
      /\ end = af + al /\ end <= bf + bl
  BY <1>2, <1>3
<1>4. ASSUME EndOfRun(a) <= b.f PROVE t = plan
  BY <1>3, <1>4 DEF TrimPair
<1>5. ASSUME b.f < EndOfRun(a)
      PROVE  /\ size \in Nat
             /\ \A i \in 1 .. M : i # l => t.runs[i] = plan.runs[i]
             /\ t.runs[l] = [f |-> b.f + size, m |-> b.m + size, len |-> b.len - size]
             /\ t.copies = Append(plan.copies,
                       [dst |-> b.m, src |-> a.m + (b.f - a.f), size |-> size])
  <2>1. ~(a.f + a.len <= b.f) /\ size \in Nat /\ size <= b.len
        /\ a.m - size + a.len = a.m + (b.f - a.f)
    <3>1. bf < end
      BY <1>5
    <3> HIDE DEF a, b, af, al, am, bf, bl, end
    <3>2. /\ ~(af + al <= bf) /\ end - bf \in Nat /\ end - bf <= bl
          /\ am - (end - bf) + al = am + (bf - af)
      BY <1>6, <3>1
    <3> QED BY <3>2 DEF af, al, am, bf, bl, end
  <2>2. Covered(a, b) = size
    <3>1. Covered(a, b) = IF b.len < a.f + a.len - b.f THEN b.len ELSE a.f + a.len - b.f
      BY DEF Covered
    <3>2. bf < end
      BY <1>5
    <3> HIDE DEF a, b, af, al, am, bf, bl, end
    <3>3. end - bf = IF bl < af + al - bf THEN bl ELSE af + al - bf
      BY <1>6, <3>2
    <3> QED BY <3>1, <3>3 DEF af, al, am, bf, bl, end
  <2>3. t = [runs |-> Cut(plan.runs, l, size), copies |-> Append(plan.copies,
               [dst |-> b.m, src |-> a.m - size + a.len, size |-> size])]
    BY <2>1, <2>2 DEF TrimPair
  <2>4. /\ \A i \in 1 .. M : i # l => Cut(plan.runs, l, size)[i] = plan.runs[i]
        /\ Cut(plan.runs, l, size)[l]
             = [f |-> b.f + size, m |-> b.m + size, len |-> b.len - size]
    <3>1. size \in Int /\ size <= plan.runs[l].len
      BY <2>1
    <3> HIDE DEF size
    <3> QED BY <1>1, <3>1, CutIs
  <2> HIDE DEF size, t
  <2> QED BY <2>1, <2>3, <2>4
<1> QED BY <1>4, <1>5

\* Runs that start in order and end in order: of two that overlap neither is
\* inside the other.
InRow(M, runs) ==
  \A k, l \in 1 .. M : k < l =>
    runs[k].f <= runs[l].f /\ EndOfRun(runs[k]) <= EndOfRun(runs[l])

\* A copy within what is left of run k, of the same bytes of the file run l asks for.
CopyOf(runs, got, k, l, c) ==
  /\ c.size \in Nat
  /\ got[k].m <= c.src /\ c.src + c.size <= got[k].m + got[k].len
  /\ runs[l].m <= c.dst /\ c.dst + c.size <= runs[l].m + runs[l].len
  /\ runs[k].f + (c.src - runs[k].m) = runs[l].f + (c.dst - runs[l].m)
Filling(copies, a) == \E c \in 1 .. Len(copies) :
                        copies[c].dst <= a /\ a < copies[c].dst + copies[c].size

\* The plan after some of the pairs.
KeepsBack(M, runs, plan) ==
  /\ plan \in Plans(M)
  /\ \A i \in 1 .. M : /\ plan.runs[i].f >= runs[i].f
                       /\ plan.runs[i].m = runs[i].m + (plan.runs[i].f - runs[i].f)
                       /\ EndOfRun(plan.runs[i]) = EndOfRun(runs[i])
CutTo(M, runs, pairs, j, got) ==
  \A l \in 1 .. M : \/ got[l].f = runs[l].f
                    \/ \E q \in 1 .. j : /\ pairs[q][2] = l
                                         /\ got[l].f = EndOfRun(runs[pairs[q][1]])
CutFar(runs, pairs, j, got) ==
  \A q \in 1 .. j : got[pairs[q][2]].f >= EndOfRun(runs[pairs[q][1]])
Copying(runs, pairs, j, plan) ==
  \A c \in 1 .. Len(plan.copies) : \E q \in 1 .. j :
    CopyOf(runs, plan.runs, pairs[q][1], pairs[q][2], plan.copies[c])
Complete(M, runs, plan) ==
  \A l \in 1 .. M : \A a \in Int :
    runs[l].m <= a /\ a < plan.runs[l].m => Filling(plan.copies, a)
TrimmedTo(M, runs, pairs, j, plan) ==
  /\ KeepsBack(M, runs, plan)
  /\ CutTo(M, runs, pairs, j, plan.runs) /\ CutFar(runs, pairs, j, plan.runs)
  /\ Copying(runs, pairs, j, plan) /\ Complete(M, runs, plan)

\* A further pair keeps what is claimed of the plan: what the later run loses has
\* been reached by the earlier one, and is copied from there.
LEMMA TrimOn ==
  ASSUME NEW M \in Nat, NEW runs \in [1 .. M -> Runs], InRow(M, runs),
         NEW P, NEW pairs, NEW plan, TrimsBy(M, runs, P, pairs, plan),
         NEW j \in Nat, j + 1 \in 1 .. P, TrimmedTo(M, runs, pairs, j, plan[j])
  PROVE  TrimmedTo(M, runs, pairs, j + 1, plan[j + 1])
<1> DEFINE p == plan[j]
           t == plan[j + 1]
           k == pairs[j + 1][1]
           l == pairs[j + 1][2]
           a == p.runs[k]
           b == p.runs[l]
           size == EndOfRun(a) - b.f
           copy == [dst |-> b.m, src |-> a.m + (b.f - a.f), size |-> size]
<1>1. /\ \A q \in 1 .. j + 1 : pairs[q] \in PairsOf(M) /\ pairs[q][1] <= k
      /\ \A x \in PairsOf(M) : x[1] < k => \E q \in 1 .. j : pairs[q] = x
      /\ t = TrimPair(p, k, l)
  <2>1. /\ P \in Nat /\ pairs \in [1 .. P -> PairsOf(M)]
        /\ \A i, h \in 1 .. P : i < h => pairs[i][1] <= pairs[h][1]
        /\ \A h \in 1 .. P, x \in PairsOf(M) : x[1] < pairs[h][1] => \E i \in 1 .. h - 1 : pairs[i] = x
        /\ \A h \in 1 .. P : plan[h] = TrimPair(plan[h - 1], pairs[h][1], pairs[h][2])
    BY DEF TrimsBy
  <2>2. (j + 1) - 1 = j /\ \A q \in 1 .. j + 1 : q \in 1 .. P /\ (q = j + 1 \/ q < j + 1)
    BY <2>1
  <2>3. k \in Int
    BY <2>1 DEF PairsOf
  <2> HIDE DEF k
  <2>4. k <= k
    BY <2>3
  <2> QED BY <2>1, <2>2, <2>4 DEF k
<1>2. \A x \in PairsOf(M) : x[1] \in 1 .. M /\ x[2] \in 1 .. M /\ x[1] < x[2]
  BY DEF PairsOf
<1>3. k \in 1 .. M /\ l \in 1 .. M /\ k < l /\ k # l
  <2>1. pairs[j + 1] \in PairsOf(M)
    BY <1>1
  <2>2. k \in 1 .. M /\ l \in 1 .. M /\ k < l
    BY <1>2, <2>1
  <2> HIDE DEF k, l
  <2> QED BY <2>2
<1>4. /\ p \in Plans(M)
      /\ \A i \in 1 .. M : /\ p.runs[i].f >= runs[i].f
                           /\ p.runs[i].m = runs[i].m + (p.runs[i].f - runs[i].f)
                           /\ EndOfRun(p.runs[i]) = EndOfRun(runs[i])
  BY DEF TrimmedTo, KeepsBack
<1>5. \A i \in 1 .. M : /\ runs[i].f \in Int /\ runs[i].m \in Int /\ runs[i].len \in Nat
                        /\ p.runs[i].f \in Int /\ p.runs[i].m \in Int /\ p.runs[i].len \in Nat
                        /\ EndOfRun(runs[i]) = runs[i].f + runs[i].len
                        /\ EndOfRun(p.runs[i]) = p.runs[i].f + p.runs[i].len
                        /\ EndOfRun(runs[i]) \in Int /\ EndOfRun(p.runs[i]) \in Int
  <2>1. ASSUME NEW i \in 1 .. M
        PROVE  /\ runs[i].f \in Int /\ runs[i].m \in Int /\ runs[i].len \in Nat
               /\ p.runs[i].f \in Int /\ p.runs[i].m \in Int /\ p.runs[i].len \in Nat
    <3>1. runs[i] \in Runs /\ p.runs[i] \in Runs
      BY <1>4 DEF Plans
    <3> QED BY <3>1 DEF Runs
  <2>2. \A i \in 1 .. M : /\ EndOfRun(runs[i]) = runs[i].f + runs[i].len
                          /\ EndOfRun(p.runs[i]) = p.runs[i].f + p.runs[i].len
    BY DEF EndOfRun
  <2>3. ASSUME NEW i \in 1 .. M PROVE EndOfRun(runs[i]) \in Int /\ EndOfRun(p.runs[i]) \in Int
    <3>1. \A x \in Int, y \in Nat : x + y \in Int
      OBVIOUS
    <3> QED BY <2>1, <2>2, <3>1, Zenon
  <2> QED BY <2>1, <2>2, <2>3
\* The earlier run starts where it did or at the end of one before it, which the
\* later one has been trimmed to.
<1>6. a.f <= b.f
  <2>1. CASE a.f = runs[k].f
    <3>1. runs[k].f <= runs[l].f /\ runs[l].f <= b.f
      BY <1>3, <1>4 DEF InRow
    <3>2. a.f \in Int /\ b.f \in Int /\ runs[k].f \in Int /\ runs[l].f \in Int
      BY <1>3, <1>5
    <3> HIDE DEF a, b, k, l
    <3> QED BY <2>1, <3>1, <3>2
  <2>2. CASE \E q \in 1 .. j : pairs[q][2] = k /\ a.f = EndOfRun(runs[pairs[q][1]])
    <3>1. PICK q \in 1 .. j : pairs[q][2] = k /\ a.f = EndOfRun(runs[pairs[q][1]])
      BY <2>2
    <3> DEFINE i == pairs[q][1]
    <3>2. i \in 1 .. M /\ i < k
      <4>1. q \in 1 .. j + 1
        OBVIOUS
      <4> QED BY <1>1, <1>2, <3>1, <4>1
    <3>3. <<i, l>> \in PairsOf(M)
      <4>1. i < l
        <5> HIDE DEF i, k, l
        <5> QED BY <1>3, <3>2
      <4> HIDE DEF i, l
      <4> QED BY <1>3, <3>2, <4>1 DEF PairsOf
    <3>4. PICK s \in 1 .. j : pairs[s] = <<i, l>>
      BY <1>1, <3>2, <3>3
    <3>5. pairs[s][1] = i /\ pairs[s][2] = l
      BY <3>4
    <3>6. p.runs[pairs[s][2]].f >= EndOfRun(runs[pairs[s][1]])
      BY DEF TrimmedTo, CutFar
    <3>7. b.f >= EndOfRun(runs[i])
      BY <3>5, <3>6
    <3>8. b.f \in Int /\ EndOfRun(runs[i]) \in Int
      BY <1>3, <1>5, <3>2
    <3> HIDE DEF a, b, i
    <3> QED BY <3>1, <3>7, <3>8 DEF i
  <2> QED BY <1>3, <2>1, <2>2 DEF TrimmedTo, CutTo
<1>7. EndOfRun(a) <= EndOfRun(b) /\ EndOfRun(a) = EndOfRun(runs[k])
  BY <1>3, <1>4 DEF InRow
<1>8. /\ EndOfRun(a) <= b.f => t = p
      /\ b.f < EndOfRun(a) =>
           /\ size \in Nat
           /\ \A i \in 1 .. M : i # l => t.runs[i] = p.runs[i]
           /\ t.runs[l] = [f |-> b.f + size, m |-> b.m + size, len |-> b.len - size]
           /\ t.copies = Append(p.copies, copy)
  <2> HIDE DEF p, k, l
  <2>1. p \in Plans(M) /\ k \in 1 .. M /\ l \in 1 .. M /\ k # l
        /\ EndOfRun(p.runs[k]) <= EndOfRun(p.runs[l])
    BY <1>3, <1>4, <1>7
  <2> QED BY <1>1, <2>1, PairCopied
<1>9. a.f \in Int /\ a.m \in Int /\ a.len \in Nat /\ b.f \in Int /\ b.m \in Int /\ b.len \in Nat
      /\ EndOfRun(a) \in Int /\ EndOfRun(a) = a.f + a.len /\ EndOfRun(b) = b.f + b.len
      /\ runs[l].f \in Int /\ runs[l].m \in Int /\ runs[l].len \in Nat
      /\ runs[k].f \in Int /\ runs[k].m \in Int
      /\ EndOfRun(runs[l]) = runs[l].f + runs[l].len
  BY <1>3, <1>5
<1> DEFINE af == a.f
           am == a.m
           al == a.len
           bf == b.f
           bm == b.m
           bl == b.len
           end == EndOfRun(a)
           Fk == runs[k].f
           Mk == runs[k].m
           Fl == runs[l].f
           Ml == runs[l].m
           Ll == runs[l].len
<1>13. /\ af \in Int /\ am \in Int /\ al \in Nat /\ bf \in Int /\ bm \in Int /\ bl \in Nat
       /\ Fk \in Int /\ Mk \in Int /\ Fl \in Int /\ Ml \in Int /\ Ll \in Nat
       /\ end = af + al /\ end <= bf + bl /\ bf + bl = Fl + Ll /\ af <= bf
       /\ Fl <= bf /\ bm = Ml + (bf - Fl) /\ Fk <= af /\ am = Mk + (af - Fk)
  <2>1. bf + bl = Fl + Ll /\ Fl <= bf /\ bm = Ml + (bf - Fl)
        /\ Fk <= af /\ am = Mk + (af - Fk)
    BY <1>3, <1>4, <1>5
  <2>2. end <= bf + bl
    BY <1>7, <1>9
  <2> HIDE DEF p, k, l, af, am, al, bf, bm, bl, end, Fk, Mk, Fl, Ml, Ll
  <2> QED BY <1>6, <1>9, <2>1, <2>2 DEF af, am, al, bf, bm, bl, end, Fk, Mk, Fl, Ml, Ll
<1>10. ASSUME EndOfRun(a) <= b.f PROVE TrimmedTo(M, runs, pairs, j + 1, t)
  <2>1. t = p
    BY <1>8, <1>10
  <2>2. \A q \in 1 .. j + 1 : q \in 1 .. j \/ q = j + 1
    OBVIOUS
  <2>3. 1 .. j \subseteq 1 .. j + 1
    OBVIOUS
  <2>4. CutTo(M, runs, pairs, j + 1, t.runs)
    BY <2>1, <2>3 DEF TrimmedTo, CutTo
  <2>5. CutFar(runs, pairs, j + 1, t.runs)
    <3>1. b.f >= EndOfRun(runs[k])
      <4> HIDE DEF a, b, k
      <4> QED BY <1>7, <1>9, <1>10
    <3>2. \A q \in 1 .. j : p.runs[pairs[q][2]].f >= EndOfRun(runs[pairs[q][1]])
      BY DEF TrimmedTo, CutFar
    <3> QED BY <2>1, <2>2, <3>1, <3>2 DEF CutFar
  <2>6. Copying(runs, pairs, j + 1, t)
    BY <2>1, <2>3 DEF TrimmedTo, Copying
  <2> QED BY <2>1, <2>4, <2>5, <2>6 DEF TrimmedTo
<1>11. ASSUME b.f < EndOfRun(a) PROVE TrimmedTo(M, runs, pairs, j + 1, t)
  <2>1. /\ size \in Nat
        /\ \A i \in 1 .. M : i # l => t.runs[i] = p.runs[i]
        /\ t.runs[l] = [f |-> b.f + size, m |-> b.m + size, len |-> b.len - size]
        /\ t.copies = Append(p.copies, copy)
    BY <1>8, <1>11
  <2>2. t \in Plans(M)
    <3> HIDE DEF p, k, l
    <3> QED BY <1>1, <1>3, <1>4, PairTrimmed
  <2>3. t.runs[l].f = EndOfRun(a) /\ t.runs[l].m = b.m + size /\ t.runs[l].f > b.f
        /\ EndOfRun(t.runs[l]) = EndOfRun(b)
    <3>1. t.runs[l].f = b.f + size /\ t.runs[l].m = b.m + size /\ t.runs[l].len = b.len - size
      <4>1. \A w, x, y, z : w = [f |-> x, m |-> y, len |-> z] => w.f = x /\ w.m = y /\ w.len = z
        OBVIOUS
      <4>2. t.runs[l] = [f |-> b.f + size, m |-> b.m + size, len |-> b.len - size]
        BY <2>1
      <4> HIDE DEF t, a, b, l, size
      <4> QED BY <4>1, <4>2
    <3>2. EndOfRun(t.runs[l]) = t.runs[l].f + t.runs[l].len
      BY DEF EndOfRun
    <3>3. EndOfRun(b) = bf + bl
      BY <1>9
    <3>4. bf < end
      BY <1>11
    <3> HIDE DEF a, b, t, l, size, af, am, al, bf, bm, bl, end, Fk, Mk, Fl, Ml, Ll
    <3>5. /\ bf + (end - bf) = end /\ end > bf
          /\ bf + (end - bf) + (bl - (end - bf)) = bf + bl
      BY <1>13, <3>4
    <3> QED BY <3>1, <3>2, <3>3, <3>5 DEF bf, bm, bl, end, size
  <2>4. b.f >= runs[l].f /\ b.m = runs[l].m + (b.f - runs[l].f) /\ EndOfRun(b) = EndOfRun(runs[l])
        /\ a.f >= runs[k].f /\ a.m = runs[k].m + (a.f - runs[k].f)
    BY <1>3, <1>4
  <2>5. KeepsBack(M, runs, t)
    <3>1. ASSUME NEW i \in 1 .. M
          PROVE  /\ t.runs[i].f >= runs[i].f
                 /\ t.runs[i].m = runs[i].m + (t.runs[i].f - runs[i].f)
                 /\ EndOfRun(t.runs[i]) = EndOfRun(runs[i])
      <4>1. CASE i # l
        BY <1>4, <2>1, <4>1
      <4>2. CASE i = l
        <5>1. t.runs[l].f = end /\ t.runs[l].m = bm + (end - bf)
          BY <2>3
        <5>2. bf < end
          BY <1>11
        <5> HIDE DEF a, b, t, l, af, am, al, bf, bm, bl, end, Fk, Mk, Fl, Ml, Ll
        <5>4. end >= Fl /\ bm + (end - bf) = Ml + (end - Fl)
          BY <1>13, <5>2
        <5>3. /\ t.runs[l].f >= runs[l].f
              /\ t.runs[l].m = runs[l].m + (t.runs[l].f - runs[l].f)
              /\ EndOfRun(t.runs[l]) = EndOfRun(runs[l])
          BY <2>3, <2>4, <5>1, <5>4 DEF Fl, Ml
        <5> QED BY <4>2, <5>3
      <4> QED BY <4>1, <4>2
    <3> QED BY <2>2, <3>1 DEF KeepsBack
  <2>6. j + 1 \in 1 .. j + 1 /\ 1 .. j \subseteq 1 .. j + 1
        /\ \A q \in 1 .. j + 1 : q \in 1 .. j \/ q = j + 1
    OBVIOUS
  <2>7. CutTo(M, runs, pairs, j + 1, t.runs)
    <3>1. ASSUME NEW i \in 1 .. M
          PROVE  \/ t.runs[i].f = runs[i].f
                 \/ \E q \in 1 .. j + 1 : /\ pairs[q][2] = i
                                          /\ t.runs[i].f = EndOfRun(runs[pairs[q][1]])
      <4>1. CASE i # l
        <5>1. p.runs[i].f = runs[i].f \/ \E q \in 1 .. j : /\ pairs[q][2] = i
                                          /\ p.runs[i].f = EndOfRun(runs[pairs[q][1]])
          BY DEF TrimmedTo, CutTo
        <5>2. t.runs[i] = p.runs[i]
          BY <2>1, <4>1
        <5> HIDE DEF t, p
        <5> QED BY <2>6, <5>1, <5>2
      <4>2. CASE i = l
        BY <1>7, <2>3, <2>6, <4>2
      <4> QED BY <4>1, <4>2
    <3> QED BY <3>1 DEF CutTo
  <2>8. CutFar(runs, pairs, j + 1, t.runs)
    <3>1. ASSUME NEW q \in 1 .. j + 1
          PROVE  t.runs[pairs[q][2]].f >= EndOfRun(runs[pairs[q][1]])
      <4>1. CASE q = j + 1
        <5>1. t.runs[l].f = EndOfRun(runs[k]) /\ EndOfRun(runs[k]) \in Int
          BY <1>3, <1>5, <1>7, <2>3
        <5>2. t.runs[l].f >= EndOfRun(runs[k])
          <6> HIDE DEF t, l, k
          <6> QED BY <5>1
        <5> QED BY <4>1, <5>2
      <4>2. CASE q \in 1 .. j
        <5>1. p.runs[pairs[q][2]].f >= EndOfRun(runs[pairs[q][1]])
          BY <4>2 DEF TrimmedTo, CutFar
        <5>2. CASE pairs[q][2] # l
          <6>1. pairs[q][2] \in 1 .. M
            BY <1>1, <1>2
          <6> QED BY <2>1, <5>1, <5>2, <6>1
        <5>3. CASE pairs[q][2] = l
          <6>1. b.f >= EndOfRun(runs[pairs[q][1]]) /\ EndOfRun(runs[pairs[q][1]]) \in Int
            BY <1>1, <1>2, <1>5, <5>1, <5>3
          <6>2. t.runs[l].f > b.f /\ b.f \in Int /\ t.runs[l].f \in Int
            BY <1>9, <2>3
          <6>3. t.runs[l].f >= EndOfRun(runs[pairs[q][1]])
            <7> HIDE DEF b, t, l
            <7> QED BY <6>1, <6>2
          <6> QED BY <5>3, <6>3
        <5> QED BY <5>2, <5>3
      <4> QED BY <2>6, <4>1, <4>2
    <3> QED BY <3>1 DEF CutFar
  <2>9. Len(t.copies) = Len(p.copies) + 1 /\ Len(p.copies) \in Nat
        /\ (\A c \in 1 .. Len(p.copies) : t.copies[c] = p.copies[c])
        /\ t.copies[Len(p.copies) + 1] = copy
    <3>1. p.copies \in Seq(Copies)
      BY <1>4 DEF Plans
    <3> HIDE DEF copy, p, t
    <3> QED BY <2>1, <3>1, Appended, LenProperties
  <2>10. CopyOf(runs, t.runs, k, l, copy)
    <3>1. t.runs[k] = a
      BY <1>3, <2>1
    <3>2. copy.size = size /\ copy.src = a.m + (b.f - a.f) /\ copy.dst = b.m
      OBVIOUS
    <3>3. size \in Nat /\ size = end - bf
      BY <2>1
    <3> HIDE DEF a, b, t, k, l, size, copy, af, am, al, bf, bm, bl, end, Fk, Mk, Fl, Ml, Ll
    <3>4. am <= am + (bf - af) /\ am + (bf - af) + size <= am + al
      BY <1>13, <3>3
    <3>5. Ml <= bm /\ bm + size <= Ml + Ll
      BY <1>13, <3>3
    <3>6. Fk + ((am + (bf - af)) - Mk) = Fl + (bm - Ml)
      BY <1>13
    <3>7. t.runs[k].m = am /\ t.runs[k].len = al /\ copy.src = am + (bf - af) /\ copy.dst = bm
          /\ runs[k].f = Fk /\ runs[k].m = Mk /\ runs[l].f = Fl /\ runs[l].m = Ml /\ runs[l].len = Ll
      BY <3>1, <3>2 DEF af, am, al, bf, bm, Fk, Mk, Fl, Ml, Ll
    <3>8. copy.size \in Nat
      BY <3>2, <3>3
    <3>9. t.runs[k].m <= copy.src /\ copy.src + copy.size <= t.runs[k].m + t.runs[k].len
      BY <3>2, <3>4, <3>7
    <3>10. runs[l].m <= copy.dst /\ copy.dst + copy.size <= runs[l].m + runs[l].len
      BY <3>2, <3>5, <3>7
    <3>11. runs[k].f + (copy.src - runs[k].m) = runs[l].f + (copy.dst - runs[l].m)
      BY <3>6, <3>7
    <3> QED BY <3>8, <3>9, <3>10, <3>11 DEF CopyOf
  <2>11. Copying(runs, pairs, j + 1, t)
    <3>1. ASSUME NEW c \in 1 .. Len(t.copies)
          PROVE  \E q \in 1 .. j + 1 : CopyOf(runs, t.runs, pairs[q][1], pairs[q][2], t.copies[c])
      <4>1. CASE c = Len(p.copies) + 1
        BY <2>6, <2>9, <2>10, <4>1
      <4>2. CASE c \in 1 .. Len(p.copies)
        <5>1. PICK q \in 1 .. j : CopyOf(runs, p.runs, pairs[q][1], pairs[q][2], p.copies[c])
          BY <4>2 DEF TrimmedTo, Copying
        <5>2. pairs[q][1] \in 1 .. M /\ pairs[q][1] <= k
          BY <1>1, <1>2, <2>6
        <5>3. pairs[q][1] # l
          <6> HIDE DEF k, l
          <6> QED BY <1>3, <5>2
        <5>4. t.runs[pairs[q][1]] = p.runs[pairs[q][1]]
          BY <2>1, <5>2, <5>3
        <5>5. CopyOf(runs, t.runs, pairs[q][1], pairs[q][2], t.copies[c])
          BY <2>9, <4>2, <5>1, <5>4 DEF CopyOf
        <5> QED BY <2>6, <5>5
      <4>3. c = Len(p.copies) + 1 \/ c \in 1 .. Len(p.copies)
        <5> HIDE DEF p, t
        <5> QED BY <2>9
      <4> QED BY <4>1, <4>2, <4>3
    <3> QED BY <3>1 DEF Copying
  <2>12. Complete(M, runs, t)
    <3>1. ASSUME NEW i \in 1 .. M, NEW x \in Int, runs[i].m <= x, x < t.runs[i].m
          PROVE  Filling(t.copies, x)
      <4>1. ASSUME Filling(p.copies, x) PROVE Filling(t.copies, x)
        <5>1. PICK c \in 1 .. Len(p.copies) :
                p.copies[c].dst <= x /\ x < p.copies[c].dst + p.copies[c].size
          BY <4>1 DEF Filling
        <5>2. c \in 1 .. Len(t.copies)
          <6> HIDE DEF p, t
          <6> QED BY <2>9
        <5> QED BY <2>9, <5>1, <5>2 DEF Filling
      <4>2. CASE x < p.runs[i].m
        BY <3>1, <4>1, <4>2 DEF TrimmedTo, Complete
      <4>3. CASE ~(x < p.runs[i].m)
        <5>1. i = l
          BY <2>1, <3>1, <4>3
        <5>2. b.m <= x /\ x < b.m + size
          <6>1. ~(x < b.m) /\ x < b.m + size
            BY <2>3, <3>1, <4>3, <5>1
          <6>2. ~(x < bm) /\ bm \in Int
            BY <1>13, <6>1
          <6> HIDE DEF bm, b
          <6>3. bm <= x
            BY <6>2
          <6> QED BY <6>1, <6>3 DEF bm
        <5>3. copy.dst = b.m /\ copy.size = size
          OBVIOUS
        <5>4. Len(p.copies) + 1 \in 1 .. Len(t.copies)
          <6> HIDE DEF p, t
          <6> QED BY <2>9
        <5> HIDE DEF copy, b, size, p, t
        <5> QED BY <2>9, <5>2, <5>3, <5>4 DEF Filling
      <4> QED BY <4>2, <4>3
    <3> QED BY <3>1 DEF Complete
  <2> QED BY <2>5, <2>7, <2>8, <2>11, <2>12 DEF TrimmedTo
<1>12. end <= bf \/ bf < end
  <2> HIDE DEF a, b, af, am, al, bf, bm, bl, end, Fk, Mk, Fl, Ml, Ll
  <2> QED BY <1>13
<1> QED BY <1>10, <1>11, <1>12

\* Trimming runs in a row.
LEMMA TrimmedCopies ==
  ASSUME NEW M \in Nat, NEW runs \in [1 .. M -> Runs], InRow(M, runs)
  PROVE  /\ KeepsBack(M, runs, Trimmed(runs)) /\ Complete(M, runs, Trimmed(runs))
         /\ \A c \in 1 .. Len(Trimmed(runs).copies) : \E k, l \in 1 .. M :
              CopyOf(runs, Trimmed(runs).runs, k, l, Trimmed(runs).copies[c])
<1>1. PICK P, pairs, plan : TrimsBy(M, runs, P, pairs, plan)
  BY TrimSteps
<1> DEFINE T == {j \in Nat : j <= P => TrimmedTo(M, runs, pairs, j, plan[j])}
           base == [runs |-> runs, copies |-> <<>>]
<1>2. P \in Nat /\ plan[0] = base /\ plan[P] = Trimmed(runs) /\ base \in Plans(M)
      /\ \A q \in 1 .. P : pairs[q] \in PairsOf(M)
  <2>1. base \in Plans(M)
    BY DEF Plans
  <2> HIDE DEF base
  <2> QED BY <1>1, <2>1 DEF TrimsBy, base
<1>3. 0 \in T
  <2>1. base.runs = runs /\ base.copies = <<>> /\ Len(base.copies) = 0 /\ 1 .. 0 = {}
    OBVIOUS
  <2>2. \A i \in 1 .. M : runs[i].f \in Int /\ runs[i].m \in Int
    BY DEF Runs
  <2>3. \A i \in 1 .. M : runs[i].f >= runs[i].f /\ runs[i].m = runs[i].m + (runs[i].f - runs[i].f)
    BY <2>2
  <2>4. KeepsBack(M, runs, base)
    BY <1>2, <2>1, <2>3 DEF KeepsBack
  <2>5. Complete(M, runs, base)
    BY <2>1, <2>2 DEF Complete
  <2> HIDE DEF base
  <2> QED BY <1>2, <2>1, <2>4, <2>5 DEF TrimmedTo, CutTo, CutFar, Copying
<1>4. ASSUME NEW j \in T PROVE j + 1 \in T
  <2> SUFFICES ASSUME j + 1 <= P PROVE TrimmedTo(M, runs, pairs, j + 1, plan[j + 1])
    BY <1>4
  <2>1. j \in Nat /\ j + 1 \in 1 .. P /\ TrimmedTo(M, runs, pairs, j, plan[j])
    BY <1>2
  <2> QED BY <1>1, <2>1, TrimOn
<1>5. T = Nat
  <2>1. T \in SUBSET Nat
    OBVIOUS
  <2> HIDE DEF T
  <2> QED BY <1>3, <1>4, <2>1, AllNat
<1>6. TrimmedTo(M, runs, pairs, P, Trimmed(runs))
  <2>1. P \in T /\ P <= P
    BY <1>2, <1>5
  <2> QED BY <1>2, <2>1
<1>7. \A q \in 1 .. P : pairs[q][1] \in 1 .. M /\ pairs[q][2] \in 1 .. M
  BY <1>2 DEF PairsOf
<1> QED BY <1>6, <1>7 DEF TrimmedTo, Copying

\* What a plan does for a relation R of bytes of the file and addresses: its runs
\* read only bytes to addresses they belong to, and a copy is from an address that
\* a run has reached and to one the same byte belongs to.
Brings(R, run) == \A t \in Nat : t < run.len => <<run.f + t, run.m + t>> \in R
SameByte(R, a, b) == \E x : <<x, a>> \in R /\ <<x, b>> \in R
InMemory(run, a) == run.m <= a /\ a < run.m + run.len
RunReaches(runs, a) == \E r \in 1 .. Len(runs) : InMemory(runs[r], a)
Reaches(plan, a) == RunReaches(plan.runs, a) \/ Filling(plan.copies, a)
Carrying(R, runs, copy) ==
  \A t \in Nat : t < copy.size =>
    SameByte(R, copy.src + t, copy.dst + t) /\ RunReaches(runs, copy.src + t)
Delivers(R, plan) ==
  /\ plan.runs \in Seq(Runs) /\ plan.copies \in Seq(Copies)
  /\ \A r \in 1 .. Len(plan.runs) : Brings(R, plan.runs[r])
  /\ \A c \in 1 .. Len(plan.copies) : Carrying(R, plan.runs, plan.copies[c])

\* Trimming runs that bring only bytes to addresses they belong to leaves a plan
\* that does so, and loses no address.
LEMMA TrimDelivers ==
  ASSUME NEW M \in Nat, NEW runs \in [1 .. M -> Runs], InRow(M, runs),
         NEW R, \A i \in 1 .. M : Brings(R, runs[i])
  PROVE  /\ Delivers(R, Trimmed(runs))
         /\ \A a \in Int : RunReaches(runs, a) => Reaches(Trimmed(runs), a)
<1> DEFINE p == Trimmed(runs)
<1>1. /\ KeepsBack(M, runs, p) /\ Complete(M, runs, p)
      /\ \A c \in 1 .. Len(p.copies) : \E k, l \in 1 .. M :
           CopyOf(runs, p.runs, k, l, p.copies[c])
  BY TrimmedCopies
<1> HIDE DEF p
<1>2. /\ p.runs \in [1 .. M -> Runs] /\ p.runs \in Seq(Runs) /\ Len(p.runs) = M
      /\ p.copies \in Seq(Copies) /\ runs \in Seq(Runs) /\ Len(runs) = M
  <2>1. p.runs \in [1 .. M -> Runs] /\ p.copies \in Seq(Copies)
    BY <1>1 DEF KeepsBack, Plans
  <2> QED BY <2>1, LenProperties
<1>3. ASSUME NEW i \in 1 .. M
      PROVE  /\ runs[i].f \in Int /\ runs[i].m \in Int /\ runs[i].len \in Nat
             /\ p.runs[i].f \in Int /\ p.runs[i].m \in Int /\ p.runs[i].len \in Nat
             /\ p.runs[i].f >= runs[i].f /\ p.runs[i].m = runs[i].m + (p.runs[i].f - runs[i].f)
             /\ p.runs[i].f + p.runs[i].len = runs[i].f + runs[i].len
  <2>1. runs[i] \in Runs /\ p.runs[i] \in Runs
    BY <1>2
  <2> QED BY <1>1, <2>1 DEF KeepsBack, EndOfRun, Runs
<1>4. ASSUME NEW i \in 1 .. M PROVE Brings(R, p.runs[i])
  <2> DEFINE f == runs[i].f
             m == runs[i].m
             len == runs[i].len
             pf == p.runs[i].f
             pm == p.runs[i].m
             pl == p.runs[i].len
  <2>1. f \in Int /\ m \in Int /\ len \in Nat /\ pf \in Int /\ pm \in Int /\ pl \in Nat
        /\ pf >= f /\ pm = m + (pf - f) /\ pf + pl = f + len
    BY <1>3
  <2> SUFFICES ASSUME NEW t \in Nat, t < pl PROVE <<pf + t, pm + t>> \in R
    BY DEF Brings
  <2>2. \A s \in Nat : s < len => <<f + s, m + s>> \in R
    BY DEF Brings
  <2> HIDE DEF f, m, len, pf, pm, pl
  <2> DEFINE s == (pf - f) + t
  <2>3. s \in Nat /\ s < len /\ f + s = pf + t /\ m + s = pm + t
    BY <2>1
  <2> HIDE DEF s
  <2>4. <<f + s, m + s>> \in R
    BY <2>2, <2>3
  <2> QED BY <2>3, <2>4
<1>5. ASSUME NEW c \in 1 .. Len(p.copies) PROVE Carrying(R, p.runs, p.copies[c])
  <2>1. PICK k \in 1 .. M, l \in 1 .. M : CopyOf(runs, p.runs, k, l, p.copies[c])
    BY <1>1
  <2> DEFINE Fk == runs[k].f
             Mk == runs[k].m
             Lk == runs[k].len
             Fl == runs[l].f
             Ml == runs[l].m
             Ll == runs[l].len
             fk == p.runs[k].f
             mk == p.runs[k].m
             lk == p.runs[k].len
             src == p.copies[c].src
             dst == p.copies[c].dst
             size == p.copies[c].size
  <2>2. /\ Fk \in Int /\ Mk \in Int /\ Lk \in Nat /\ Fl \in Int /\ Ml \in Int /\ Ll \in Nat
        /\ fk \in Int /\ mk \in Int /\ lk \in Nat
        /\ fk >= Fk /\ mk = Mk + (fk - Fk) /\ fk + lk = Fk + Lk
    BY <1>3
  <2>3. src \in Int /\ dst \in Int
    <3>1. p.copies[c] \in Copies
      BY <1>2, LenProperties
    <3> QED BY <3>1 DEF Copies
  <2>4. /\ size \in Nat /\ mk <= src /\ src + size <= mk + lk
        /\ Ml <= dst /\ dst + size <= Ml + Ll /\ Fk + (src - Mk) = Fl + (dst - Ml)
    BY <2>1 DEF CopyOf
  <2>5. /\ \A s \in Nat : s < Lk => <<Fk + s, Mk + s>> \in R
        /\ \A s \in Nat : s < Ll => <<Fl + s, Ml + s>> \in R
    BY DEF Brings
  <2> SUFFICES ASSUME NEW t \in Nat, t < size
               PROVE  SameByte(R, src + t, dst + t) /\ RunReaches(p.runs, src + t)
    BY DEF Carrying
  <2>6. SameByte(R, src + t, dst + t)
    <3> HIDE DEF Fk, Mk, Lk, Fl, Ml, Ll, fk, mk, lk, src, dst, size
    <3> DEFINE u == (src - Mk) + t
               v == (dst - Ml) + t
    <3>1. /\ u \in Nat /\ u < Lk /\ v \in Nat /\ v < Ll
          /\ Fk + u = Fl + v /\ Mk + u = src + t /\ Ml + v = dst + t
      BY <2>2, <2>3, <2>4
    <3> HIDE DEF u, v
    <3>2. <<Fk + u, Mk + u>> \in R /\ <<Fl + v, Ml + v>> \in R
      BY <2>5, <3>1
    <3> QED BY <3>1, <3>2 DEF SameByte
  <2>7. mk <= src + t /\ src + t < mk + lk
    <3> HIDE DEF Fk, Mk, Lk, Fl, Ml, Ll, fk, mk, lk, src, dst, size
    <3> QED BY <2>2, <2>3, <2>4
  <2>8. RunReaches(p.runs, src + t)
    BY <1>2, <2>7 DEF RunReaches, InMemory
  <2> QED BY <2>6, <2>8
<1>6. ASSUME NEW a \in Int, RunReaches(runs, a) PROVE Reaches(p, a)
  <2>1. PICK i \in 1 .. M : runs[i].m <= a /\ a < runs[i].m + runs[i].len
    BY <1>2, <1>6 DEF RunReaches, InMemory
  <2>2. CASE a < p.runs[i].m
    BY <1>1, <2>1, <2>2 DEF Complete, Reaches
  <2>3. CASE ~(a < p.runs[i].m)
    <3> DEFINE f == runs[i].f
               m == runs[i].m
               len == runs[i].len
               pf == p.runs[i].f
               pm == p.runs[i].m
               pl == p.runs[i].len
    <3>1. f \in Int /\ m \in Int /\ len \in Nat /\ pf \in Int /\ pm \in Int /\ pl \in Nat
          /\ pf >= f /\ pm = m + (pf - f) /\ pf + pl = f + len
      BY <1>3
    <3>2. m <= a /\ a < m + len /\ ~(a < pm)
      BY <2>1, <2>3
    <3>3. pm <= a /\ a < pm + pl
      <4> HIDE DEF f, m, len, pf, pm, pl
      <4> QED BY <3>1, <3>2
    <3> QED BY <1>2, <3>3 DEF Reaches, RunReaches, InMemory
  <2> QED BY <2>2, <2>3
<1>7. Delivers(R, p)
  BY <1>2, <1>4, <1>5 DEF Delivers
<1> QED BY <1>6, <1>7 DEF p

-----------------------------------------------------------------------------
(* The rows of a hit: the bytes and addresses *)

\* Of two elements in one row, the places are as far apart as they are.
LEMMA LinearLast ==
  ASSUME NEW n \in Nat \ {0}, NEW d \in [1 .. n -> Nat],
         NEW x \in [1 .. n -> Int], NEW y \in [1 .. n -> Int], \A i \in 1 .. n - 1 : x[i] = y[i]
  PROVE  Linear(d, y) = Linear(d, x) + (y[n] - x[n])
<1> DEFINE Px(k) == Part(d, n, x, k)
           Py(k) == Part(d, n, y, k)
           j == y[n] - x[n]
           T == {m \in Nat : m <= n - 1 => Py(n - m) = Px(n - m) + j}
<1>1. /\ Linear(d, x) = Px(1) /\ Px(n + 1) = 0 /\ \A k \in 1 .. n + 1 : Px(k) \in Int
      /\ \A k \in 1 .. n : Px(k) = x[k] * Stride(d, n, k) + Px(k + 1)
  BY LinearIs
<1>2. /\ Linear(d, y) = Py(1) /\ Py(n + 1) = 0 /\ \A k \in 1 .. n + 1 : Py(k) \in Int
      /\ \A k \in 1 .. n : Py(k) = y[k] * Stride(d, n, k) + Py(k + 1)
  BY LinearIs
<1>3. Stride(d, n, n) = 1 /\ n \in 1 .. n /\ x[n] \in Int /\ y[n] \in Int /\ j \in Int
      /\ \A k \in 1 .. n : Stride(d, n, k) \in Nat
  <2>1. n \in Nat /\ n \in 1 .. n /\ 1 .. n \subseteq 0 .. n
    OBVIOUS
  <2>2. Stride(d, n, n) = 1 /\ \A k \in 0 .. n : Stride(d, n, k) \in Nat
    BY <2>1, Strides
  <2>3. x[n] \in Int /\ y[n] \in Int /\ j \in Int
    BY <2>1
  <2> HIDE DEF j
  <2> QED BY <2>1, <2>2, <2>3
<1> HIDE DEF Px, Py
<1>4. 0 \in T
  <2>1. Py(n) = y[n] * 1 + 0 /\ Px(n) = x[n] * 1 + 0
    BY <1>1, <1>2, <1>3
  <2>2. Py(n) = Px(n) + j /\ n - 0 = n
    BY <1>3, <2>1
  <2> QED BY <2>2
<1>5. ASSUME NEW m \in T PROVE m + 1 \in T
  <2> SUFFICES ASSUME m + 1 <= n - 1 PROVE Py(n - (m + 1)) = Px(n - (m + 1)) + j
    BY <1>5
  <2> DEFINE k == n - (m + 1)
             q == x[k] * Stride(d, n, k)
  <2>1. m \in Nat /\ k \in 1 .. n - 1 /\ k \in 1 .. n /\ k + 1 = n - m /\ k + 1 \in 1 .. n + 1
        /\ m <= n - 1
    BY <1>5
  <2>2. Py(k + 1) = Px(k + 1) + j
    BY <1>5, <2>1
  <2>3. x[k] = y[k] /\ x[k] \in Int /\ q \in Int
    <3>1. x[k] = y[k] /\ x[k] \in Int /\ Stride(d, n, k) \in Nat
      BY <1>3, <2>1
    <3>2. \A a, b \in Int : a * b \in Int
      OBVIOUS
    <3> QED BY <3>1, <3>2
  <2>4. Px(k) = q + Px(k + 1) /\ Py(k) = q + Py(k + 1)
    BY <1>1, <1>2, <2>1, <2>3
  <2>5. Px(k + 1) \in Int /\ Py(k + 1) \in Int
    BY <1>1, <1>2, <2>1
  <2> HIDE DEF k, q, j
  <2>6. Py(k) = Px(k) + j
    BY <1>3, <2>2, <2>3, <2>4, <2>5
  <2> QED BY <2>6 DEF k
<1>6. T = Nat
  <2>1. T \in SUBSET Nat
    OBVIOUS
  <2> HIDE DEF T
  <2> QED BY <1>4, <1>5, <2>1, AllNat
<1>7. n - 1 \in T /\ n - 1 <= n - 1 /\ n - (n - 1) = 1
  <2>1. n - 1 \in Nat /\ n - 1 <= n - 1 /\ n - (n - 1) = 1
    OBVIOUS
  <2> HIDE DEF T
  <2> QED BY <1>6, <2>1
<1>8. Py(1) = Px(1) + j
  BY <1>7
<1> QED BY <1>1, <1>2, <1>8

\* The elements of a hit, counted from where it starts; where the bytes of one
\* are in the file and in the memory of the read.
InHit(n, h) == {at \in [1 .. n -> Nat] : \A i \in 1 .. n : at[i] < h.count[i]}
FileAt(h, width, at) == h.foff + width * Linear(h.dsize, Shifted(h.dstart, at))
MemoryAt(h, width, at) == h.xbuf + width * Linear(h.msize, Shifted(h.mstart, at))
\* The relation of these bytes to these addresses.
Carries(n, width, h, R) ==
  \A at \in InHit(n, h), b \in 0 .. width - 1 :
    <<FileAt(h, width, at) + b, MemoryAt(h, width, at) + b>> \in R
\* A run that is the row of an element, which is its first.
RowAt(n, h, width, at, run) ==
  /\ at \in InHit(n, h) /\ at[n] = 0
  /\ run.f = FileAt(h, width, at) /\ run.m = MemoryAt(h, width, at)
  /\ run.len = width * h.count[n]

\* The runs of a hit are its rows.
LEMMA HitRows ==
  ASSUME NEW n \in Nat \ {0}, NEW width \in Nat \ {0}, NEW h, Inside(n, h)
  PROVE  LET rows == RowsOf(h, width, width)
         IN  /\ rows \in Seq(Runs)
             /\ \A r \in 1 .. Len(rows) : \E at : RowAt(n, h, width, at, rows[r])
             /\ \A at \in InHit(n, h) : \E r \in 1 .. Len(rows) :
                  RowAt(n, h, width, [at EXCEPT ![n] = 0], rows[r])
<1> DEFINE zero == [i \in 1 .. n |-> 0]
           one == [h.count EXCEPT ![n] = 1]
           sel == [start |-> zero, count |-> one]
           V == Volume(one)
           cells == CellsOf(sel)
           rows == RowsOf(h, width, width)
           f(c) == FileAt(h, width, c)
           m(c) == MemoryAt(h, width, c)
           len == width * h.count[n]
<1>1. /\ h.count \in [1 .. n -> Int] /\ Len(h.count) = n /\ n \in 1 .. n
      /\ \A i \in 1 .. n : h.count[i] \in Nat /\ 0 < h.count[i]
  <2>1. h.count \in [1 .. n -> Int] /\ \A i \in 1 .. n : 0 < h.count[i]
    BY DEF Inside, Hits
  <2>2. Len(h.count) = n
    BY <2>1, LenProperties
  <2>3. \A i \in 1 .. n : h.count[i] \in Nat
    <3> TAKE i \in 1 .. n
    <3>1. h.count[i] \in Int /\ 0 < h.count[i]
      BY <2>1
    <3> QED BY <3>1
  <2> QED BY <2>1, <2>2, <2>3
<1>2. /\ zero \in [1 .. n -> Nat] /\ (\A i \in 1 .. n : zero[i] = 0)
      /\ one \in [1 .. n -> Nat] /\ one[n] = 1
      /\ \A i \in 1 .. n : i # n => one[i] = h.count[i]
  <2>1. zero \in [1 .. n -> Nat] /\ \A i \in 1 .. n : zero[i] = 0
    OBVIOUS
  <2>2. one = [i \in 1 .. n |-> IF i = n THEN 1 ELSE h.count[i]]
    BY <1>1
  <2>3. \A i \in 1 .. n : (IF i = n THEN 1 ELSE h.count[i]) \in Nat
    BY <1>1
  <2> HIDE DEF zero, one
  <2> QED BY <1>1, <2>1, <2>2, <2>3
<1>3. rows = [r \in DOMAIN cells |-> [f |-> f(cells[r]), m |-> m(cells[r]), len |-> len]]
  BY <1>1 DEF RowsOf, FileAt, MemoryAt
<1> HIDE DEF zero, one
<1>4. sel \in Sels(n) /\ sel.start = zero /\ sel.count = one
  BY <1>2, SelShape
<1>5. /\ cells \in [1 .. V -> BoxOfSel(n, sel)] /\ V \in Nat
      /\ \A c \in BoxOfSel(n, sel) : cells[Linear(one, Offset(sel, c)) + 1] = c
  <2> HIDE DEF sel
  <2> QED BY <1>4, CellPlaces
<1>6. \A c \in BoxOfSel(n, sel) :
        Linear(one, Offset(sel, c)) \in Nat /\ Linear(one, Offset(sel, c)) < V
  <2> HIDE DEF sel
  <2> QED BY <1>4, OffsetInside
<1>7. BoxOfSel(n, sel) = Cuboid(n, zero, one)
  BY <1>4 DEF BoxOfSel
<1> HIDE DEF sel, cells
<1>8. ASSUME NEW c \in Cuboid(n, zero, one)
      PROVE  c \in InHit(n, h) /\ c[n] = 0
  <2>1. c \in [1 .. n -> Int] /\ \A i \in 1 .. n : zero[i] <= c[i] /\ c[i] < zero[i] + one[i]
    BY DEF Cuboid, Vectors
  <2>2. \A i \in 1 .. n : c[i] \in Nat /\ c[i] < h.count[i] /\ (i = n => c[i] = 0)
    <3> TAKE i \in 1 .. n
    <3>1. c[i] \in Int /\ 0 <= c[i] /\ c[i] < one[i] /\ one[i] \in Nat
      <4>1. c[i] \in Int /\ one[i] \in Nat /\ zero[i] = 0 /\ zero[i] <= c[i] /\ c[i] < zero[i] + one[i]
        BY <1>2, <2>1
      <4> HIDE DEF f, m, len
      <4> QED BY <4>1
    <3>2. CASE i = n
      BY <1>1, <1>2, <3>1, <3>2
    <3>3. CASE i # n
      BY <1>2, <3>1, <3>3
    <3> QED BY <3>2, <3>3
  <2>3. c \in [1 .. n -> Nat]
    BY <2>1, <2>2
  <2> QED BY <1>1, <2>2, <2>3 DEF InHit
<1>9. ASSUME NEW at \in InHit(n, h)
      PROVE  /\ [at EXCEPT ![n] = 0] \in Cuboid(n, zero, one)
  <2> DEFINE c == [at EXCEPT ![n] = 0]
  <2>1. at \in [1 .. n -> Nat] /\ \A i \in 1 .. n : at[i] \in Nat /\ at[i] < h.count[i]
    BY DEF InHit
  <2>2. c \in [1 .. n -> Int] /\ c[n] = 0 /\ \A i \in 1 .. n : i # n => c[i] = at[i]
    BY <1>1, <2>1
  <2> HIDE DEF c
  <2>3. ASSUME NEW i \in 1 .. n PROVE zero[i] <= c[i] /\ c[i] < zero[i] + one[i]
    <3>1. CASE i = n
      BY <1>2, <2>2, <3>1
    <3>2. CASE i # n
      <4>1. zero[i] = 0 /\ one[i] = h.count[i] /\ c[i] = at[i] /\ h.count[i] \in Nat
        BY <1>1, <1>2, <2>2, <3>2
      <4>2. at[i] \in Nat /\ at[i] < h.count[i]
        BY <2>1
      <4> QED BY <4>1, <4>2
    <3> QED BY <3>1, <3>2
  <2>4. c \in Cuboid(n, zero, one)
    BY <2>2, <2>3 DEF Cuboid, Vectors
  <2> QED BY <2>4 DEF c
<1>10. rows \in Seq(Runs)
  <2>1. width \in Nat /\ width <= width
    OBVIOUS
  <2> HIDE DEF rows
  <2> QED BY <2>1, HitRuns DEF rows
<1>11. DOMAIN cells = 1 .. V /\ Len(rows) = V
       /\ \A r \in 1 .. V : rows[r] = [f |-> f(cells[r]), m |-> m(cells[r]), len |-> len]
  <2>1. DOMAIN cells = 1 .. V
    BY <1>5
  <2> HIDE DEF rows, f, m, len
  <2>2. DOMAIN rows = 1 .. V /\ \A r \in 1 .. V : rows[r] = [f |-> f(cells[r]), m |-> m(cells[r]), len |-> len]
    BY <1>3, <2>1
  <2>3. rows \in [1 .. V -> Range(rows)]
    <3>1. rows = [r \in 1 .. V |-> rows[r]]
      BY <1>3, <2>1
    <3> QED BY <3>1 DEF Range
  <2>4. Len(rows) = V
    BY <1>5, <2>3, LenProperties
  <2> QED BY <2>1, <2>2, <2>4
<1> HIDE DEF rows
<1>12. ASSUME NEW r \in 1 .. V PROVE RowAt(n, h, width, cells[r], rows[r])
  <2>1. cells[r] \in Cuboid(n, zero, one)
    BY <1>5, <1>7
  <2>2. rows[r].f = f(cells[r]) /\ rows[r].m = m(cells[r]) /\ rows[r].len = len
    BY <1>11
  <2> QED BY <1>8, <2>1, <2>2 DEF RowAt
<1>13. ASSUME NEW at \in InHit(n, h)
       PROVE  \E r \in 1 .. V : RowAt(n, h, width, [at EXCEPT ![n] = 0], rows[r])
  <2> DEFINE c == [at EXCEPT ![n] = 0]
  <2>1. c \in BoxOfSel(n, sel)
    BY <1>7, <1>9
  <2> DEFINE r == Linear(one, Offset(sel, c)) + 1
  <2>2. cells[r] = c /\ r \in 1 .. V
    <3> HIDE DEF c
    <3> QED BY <1>5, <1>6, <2>1
  <2> HIDE DEF r
  <2> QED BY <1>12, <2>2
<1> QED BY <1>10, <1>11, <1>12, <1>13 DEF rows

\* The bytes of the elements of a row follow each other, in the file and in memory.
LEMMA RowBytes ==
  ASSUME NEW n \in Nat \ {0}, NEW width \in Nat \ {0}, NEW h, Inside(n, h),
         NEW at \in InHit(n, h), at[n] = 0, NEW bt \in InHit(n, h),
         \A i \in 1 .. n - 1 : at[i] = bt[i]
  PROVE  /\ FileAt(h, width, at) \in Int /\ MemoryAt(h, width, at) \in Int
         /\ bt[n] \in Nat /\ bt[n] < h.count[n] /\ h.count[n] \in Nat
         /\ FileAt(h, width, bt) = FileAt(h, width, at) + width * bt[n]
         /\ MemoryAt(h, width, bt) = MemoryAt(h, width, at) + width * bt[n]
<1>1. /\ h.foff \in Nat /\ h.dstart \in [1 .. n -> Int] /\ h.dsize \in [1 .. n -> Nat]
      /\ h.mstart \in [1 .. n -> Int] /\ h.msize \in [1 .. n -> Nat]
      /\ h.xbuf \in Nat /\ h.count \in [1 .. n -> Int]
  BY DEF Inside, Hits
<1>2. /\ at \in [1 .. n -> Nat] /\ bt \in [1 .. n -> Nat] /\ n \in 1 .. n
      /\ bt[n] \in Nat /\ bt[n] < h.count[n]
  BY DEF InHit
<1>3. ASSUME NEW d \in [1 .. n -> Nat], NEW s \in [1 .. n -> Int]
      PROVE  /\ Linear(d, Shifted(s, at)) \in Int
             /\ Linear(d, Shifted(s, bt)) = Linear(d, Shifted(s, at)) + bt[n]
  <2> DEFINE x == Shifted(s, at)
             y == Shifted(s, bt)
  <2>1. x = [i \in 1 .. n |-> s[i] + at[i]] /\ y = [i \in 1 .. n |-> s[i] + bt[i]]
    BY DEF Shifted
  <2>2. \A i \in 1 .. n : s[i] \in Int /\ at[i] \in Int /\ bt[i] \in Int
    BY <1>2
  <2>3. \A i \in 1 .. n : s[i] + at[i] \in Int /\ s[i] + bt[i] \in Int
    BY <2>2
  <2> HIDE DEF x, y
  <2>4. x \in [1 .. n -> Int] /\ y \in [1 .. n -> Int]
        /\ \A i \in 1 .. n : x[i] = s[i] + at[i] /\ y[i] = s[i] + bt[i]
    BY <2>1, <2>3
  <2>5. \A i \in 1 .. n - 1 : x[i] = y[i]
    <3> TAKE i \in 1 .. n - 1
    <3>1. i \in 1 .. n
      OBVIOUS
    <3> QED BY <2>4, <3>1
  <2>6. Linear(d, y) = Linear(d, x) + (y[n] - x[n])
    <3>1. x \in [1 .. n -> Int] /\ y \in [1 .. n -> Int]
      BY <2>4
    <3>2. \A u, v \in [1 .. n -> Int] :
            (\A i \in 1 .. n - 1 : u[i] = v[i]) => Linear(d, v) = Linear(d, u) + (v[n] - u[n])
      BY LinearLast
    <3> QED BY <2>5, <3>1, <3>2
  <2>7. y[n] - x[n] = bt[n]
    <3>1. y[n] = s[n] + bt[n] /\ x[n] = s[n] + 0 /\ s[n] \in Int
      BY <1>2, <2>2, <2>4
    <3> QED BY <1>2, <3>1
  <2>8. Linear(d, x) \in Int
    BY <2>4, LinearType
  <2> QED BY <2>6, <2>7, <2>8 DEF x, y
<1> DEFINE lf == Linear(h.dsize, Shifted(h.dstart, at))
           lm == Linear(h.msize, Shifted(h.mstart, at))
           j == bt[n]
<1>4. lf \in Int /\ lm \in Int
      /\ Linear(h.dsize, Shifted(h.dstart, bt)) = lf + j
      /\ Linear(h.msize, Shifted(h.mstart, bt)) = lm + j
  BY <1>1, <1>3
<1>5. h.count[n] \in Nat
  <2>1. h.count[n] \in Int /\ bt[n] \in Nat /\ bt[n] < h.count[n]
    BY <1>1, <1>2
  <2> QED BY <2>1
<1>6. /\ FileAt(h, width, at) = h.foff + width * lf
      /\ FileAt(h, width, bt) = h.foff + width * (lf + j)
      /\ MemoryAt(h, width, at) = h.xbuf + width * lm
      /\ MemoryAt(h, width, bt) = h.xbuf + width * (lm + j)
  BY <1>4 DEF FileAt, MemoryAt
<1>7. j \in Nat /\ h.foff \in Nat /\ h.xbuf \in Nat
  BY <1>1, <1>2
<1> HIDE DEF lf, lm, j
<1>8. /\ h.foff + width * lf \in Int /\ h.xbuf + width * lm \in Int
      /\ h.foff + width * (lf + j) = (h.foff + width * lf) + width * j
      /\ h.xbuf + width * (lm + j) = (h.xbuf + width * lm) + width * j
  <2>1. h.foff \in Int /\ h.xbuf \in Int /\ j \in Int /\ lf \in Int /\ lm \in Int
    BY <1>4, <1>7
  <2> DEFINE F == h.foff
             X == h.xbuf
  <2>2. F \in Int /\ X \in Int
    BY <2>1
  <2> HIDE DEF F, X
  <2>3. F + width * lf \in Int /\ F + width * (lf + j) = (F + width * lf) + width * j
    BY <2>1, <2>2
  <2>4. X + width * lm \in Int /\ X + width * (lm + j) = (X + width * lm) + width * j
    BY <2>1, <2>2
  <2> QED BY <2>3, <2>4 DEF F, X
<1> QED BY <1>2, <1>5, <1>6, <1>8 DEF j

\* A row reads the bytes of its elements to their addresses.
LEMMA RowBrings ==
  ASSUME NEW n \in Nat \ {0}, NEW width \in Nat \ {0}, NEW h, Inside(n, h),
         NEW R, Carries(n, width, h, R), NEW at, NEW run, RowAt(n, h, width, at, run)
  PROVE  Brings(R, run)
<1>1. /\ at \in InHit(n, h) /\ at[n] = 0 /\ run.f = FileAt(h, width, at)
      /\ run.m = MemoryAt(h, width, at) /\ run.len = width * h.count[n]
  BY DEF RowAt
<1>2. /\ at \in [1 .. n -> Nat] /\ n \in 1 .. n /\ \A i \in 1 .. n : at[i] < h.count[i]
  BY <1>1 DEF InHit
<1>3. run.f \in Int /\ run.m \in Int /\ h.count[n] \in Nat
  BY <1>1, RowBytes
<1> SUFFICES ASSUME NEW t \in Nat, t < run.len PROVE <<run.f + t, run.m + t>> \in R
  BY DEF Brings
<1> DEFINE j == t \div width
           b == t % width
           bt == [at EXCEPT ![n] = j]
<1>4. j \in Nat /\ b \in 0 .. width - 1 /\ t = width * j + b
  OBVIOUS
<1> HIDE DEF j, b
<1>5. j < h.count[n]
  <2> DEFINE c == h.count[n]
  <2>1. c \in Nat /\ t < width * c
    BY <1>1, <1>3
  <2> SUFFICES ASSUME c <= j PROVE FALSE
    <3> HIDE DEF c
    <3>1. c <= j \/ j < c
      BY <1>4, <2>1
    <3> QED BY <3>1 DEF c
  <2> HIDE DEF c
  <2>2. c * width <= j * width /\ c * width \in Nat /\ j * width \in Nat
    BY <1>4, <2>1, Multiples
  <2>3. c * width = width * c /\ j * width = width * j
    BY <1>4, <2>1
  <2> QED BY <1>4, <2>1, <2>2, <2>3
<1>6. bt \in InHit(n, h) /\ bt[n] = j /\ \A i \in 1 .. n - 1 : at[i] = bt[i]
  <2>1. bt \in [1 .. n -> Nat] /\ bt[n] = j /\ \A i \in 1 .. n : i # n => bt[i] = at[i]
    BY <1>2, <1>4
  <2> HIDE DEF bt
  <2>2. \A i \in 1 .. n : bt[i] < h.count[i]
    BY <1>2, <1>5, <2>1
  <2>3. \A i \in 1 .. n - 1 : i \in 1 .. n /\ i # n
    OBVIOUS
  <2> QED BY <2>1, <2>2, <2>3 DEF InHit
<1> HIDE DEF bt
<1>7. /\ FileAt(h, width, bt) = run.f + width * j
      /\ MemoryAt(h, width, bt) = run.m + width * j
  BY <1>1, <1>6, RowBytes
<1>8. <<FileAt(h, width, bt) + b, MemoryAt(h, width, bt) + b>> \in R
  BY <1>4, <1>6 DEF Carries
<1>9. FileAt(h, width, bt) + b = run.f + t /\ MemoryAt(h, width, bt) + b = run.m + t
  <2> DEFINE q == width * j
             F == run.f
             m == run.m
  <2>1. q \in Int /\ b \in Int /\ F \in Int /\ m \in Int /\ t = q + b
    BY <1>3, <1>4
  <2>2. FileAt(h, width, bt) = F + q /\ MemoryAt(h, width, bt) = m + q
    BY <1>7
  <2> HIDE DEF q, F, m
  <2>3. F + q + b = F + t /\ m + q + b = m + t
    BY <2>1
  <2> QED BY <2>2, <2>3 DEF F, m
<1> QED BY <1>8, <1>9

\* The addresses of an element are within its row.
LEMMA RowReaches ==
  ASSUME NEW n \in Nat \ {0}, NEW width \in Nat \ {0}, NEW h, Inside(n, h),
         NEW bt \in InHit(n, h), NEW b \in 0 .. width - 1,
         NEW run, RowAt(n, h, width, [bt EXCEPT ![n] = 0], run)
  PROVE  InMemory(run, MemoryAt(h, width, bt) + b) /\ MemoryAt(h, width, bt) + b \in Int
<1> DEFINE at == [bt EXCEPT ![n] = 0]
           q == width * bt[n]
           m == run.m
           len == run.len
<1>1. at \in InHit(n, h) /\ at[n] = 0 /\ m = MemoryAt(h, width, at) /\ len = width * h.count[n]
  BY DEF RowAt
<1>2. \A i \in 1 .. n - 1 : at[i] = bt[i]
  <2>1. bt \in [1 .. n -> Nat] /\ \A i \in 1 .. n - 1 : i \in 1 .. n /\ i # n
    BY DEF InHit
  <2> QED BY <2>1
<1> HIDE DEF at
<1>3. /\ m \in Int /\ bt[n] \in Nat /\ bt[n] < h.count[n] /\ h.count[n] \in Nat
      /\ MemoryAt(h, width, bt) = m + q
  BY <1>1, <1>2, RowBytes
<1>4. q \in Nat /\ q + b < len /\ len \in Nat
  <2> DEFINE c == h.count[n]
             x == bt[n]
  <2>1. x \in 0 .. c - 1 /\ c \in Nat /\ x \in Nat
    BY <1>3
  <2>2. len = width * c /\ q = width * x
    BY <1>1
  <2> HIDE DEF c, x, len, q
  <2>3. x * width + b \in 0 .. c * width - 1 /\ c * width \in Nat
    BY <2>1, ByteInside
  <2>4. c * width = width * c /\ x * width = width * x /\ x * width \in Nat
    BY <2>1
  <2> DEFINE cw == c * width
             xw == x * width
  <2>5. xw \in Nat /\ xw + b \in 0 .. cw - 1 /\ cw \in Nat /\ len = cw /\ q = xw
    BY <2>2, <2>3, <2>4
  <2> HIDE DEF cw, xw
  <2> QED BY <2>5
<1> HIDE DEF m, q, len
<1>5. m <= m + q + b /\ m + q + b < m + len /\ m + q + b \in Int
  BY <1>3, <1>4
<1> QED BY <1>3, <1>5 DEF InMemory, m, len

\* What the rows of a hit deliver.
LEMMA HitDelivers ==
  ASSUME NEW n \in Nat \ {0}, NEW width \in Nat \ {0}, NEW h, Inside(n, h),
         NEW R, Carries(n, width, h, R)
  PROVE  LET rows == RowsOf(h, width, width)
         IN  /\ rows \in Seq(Runs) /\ \A r \in 1 .. Len(rows) : Brings(R, rows[r])
             /\ \A at \in InHit(n, h), b \in 0 .. width - 1 :
                  RunReaches(rows, MemoryAt(h, width, at) + b)
<1> DEFINE rows == RowsOf(h, width, width)
<1>1. /\ rows \in Seq(Runs)
      /\ \A r \in 1 .. Len(rows) : \E at : RowAt(n, h, width, at, rows[r])
      /\ \A at \in InHit(n, h) : \E r \in 1 .. Len(rows) :
           RowAt(n, h, width, [at EXCEPT ![n] = 0], rows[r])
  BY HitRows
<1> HIDE DEF rows
<1>2. \A r \in 1 .. Len(rows) : Brings(R, rows[r])
  BY <1>1, RowBrings
<1>3. ASSUME NEW at \in InHit(n, h), NEW b \in 0 .. width - 1
      PROVE  RunReaches(rows, MemoryAt(h, width, at) + b)
  <2>1. PICK r \in 1 .. Len(rows) : RowAt(n, h, width, [at EXCEPT ![n] = 0], rows[r])
    BY <1>1
  <2>2. InMemory(rows[r], MemoryAt(h, width, at) + b)
    BY <2>1, RowReaches
  <2> QED BY <2>2 DEF RunReaches
<1> QED BY <1>1, <1>2, <1>3 DEF rows

\* Two hits in one data block, of which the one that starts behind the start of the
\* other in a row, and before its end, does not end before it.
InStep(n, g, h) ==
  /\ g.foff = h.foff /\ g.dsize = h.dsize
  /\ \A at \in InHit(n, g), bt \in InHit(n, h) :
       (\A i \in 1 .. n - 1 : g.dstart[i] + at[i] = h.dstart[i] + bt[i])
         /\ g.dstart[n] <= h.dstart[n] /\ h.dstart[n] < g.dstart[n] + g.count[n]
       => g.dstart[n] + g.count[n] <= h.dstart[n] + h.count[n]

\* Where a row of a hit is in its data block.
PlacedAt(n, h, at, run) ==
  LET x == Shifted(h.dstart, at)
  IN  /\ x \in [1 .. n -> Nat] /\ \A i \in 1 .. n : x[i] = h.dstart[i] + at[i] /\ x[i] < h.dsize[i]
      /\ h.dsize \in [1 .. n -> Nat] /\ h.foff \in Nat
      /\ h.count[n] \in Nat \ {0} /\ h.dstart[n] \in Nat
      /\ x[n] = h.dstart[n] /\ x[n] + h.count[n] <= h.dsize[n]
      /\ Linear(h.dsize, x) \in Int
      /\ run.f = h.foff + Linear(h.dsize, x) /\ run.len = h.count[n]

\* A row of a hit is there.
LEMMA RowPlace ==
  ASSUME NEW n \in Nat \ {0}, NEW h, Inside(n, h), NEW at, NEW run, RowAt(n, h, 1, at, run)
  PROVE  PlacedAt(n, h, at, run)
<1> DEFINE x == Shifted(h.dstart, at)
<1>1. /\ at \in InHit(n, h) /\ at[n] = 0 /\ run.f = FileAt(h, 1, at) /\ run.len = 1 * h.count[n]
  BY DEF RowAt
<1>2. /\ h.foff \in Nat /\ h.dstart \in [1 .. n -> Int] /\ h.dsize \in [1 .. n -> Nat]
      /\ h.count \in [1 .. n -> Int] /\ n \in 1 .. n
      /\ \A i \in 1 .. n : /\ 0 <= h.dstart[i] /\ 0 < h.count[i]
                           /\ h.dstart[i] + h.count[i] <= h.dsize[i]
  BY DEF Inside, Hits
<1>3. at \in [1 .. n -> Nat] /\ \A i \in 1 .. n : at[i] < h.count[i]
  BY <1>1 DEF InHit
<1>4. x = [i \in 1 .. n |-> h.dstart[i] + at[i]]
  BY <1>2 DEF Shifted
<1> HIDE DEF x
<1>5. ASSUME NEW i \in 1 .. n
      PROVE  /\ h.dstart[i] \in Nat /\ h.count[i] \in Nat \ {0}
             /\ h.dstart[i] + at[i] \in Nat /\ h.dstart[i] + at[i] < h.dsize[i]
  <2>1. /\ h.dstart[i] \in Int /\ h.count[i] \in Int /\ at[i] \in Nat /\ h.dsize[i] \in Nat
        /\ 0 <= h.dstart[i] /\ 0 < h.count[i] /\ at[i] < h.count[i]
        /\ h.dstart[i] + h.count[i] <= h.dsize[i]
    BY <1>2, <1>3
  <2> QED BY <2>1
<1>6. x \in [1 .. n -> Nat] /\ \A i \in 1 .. n : x[i] = h.dstart[i] + at[i] /\ x[i] < h.dsize[i]
  BY <1>4, <1>5
<1>7. x[n] = h.dstart[n]
  <2>1. x[n] = h.dstart[n] + 0 /\ h.dstart[n] \in Nat
    BY <1>1, <1>2, <1>5, <1>6
  <2> QED BY <2>1
<1>8. Linear(h.dsize, x) \in Int
  <2>1. x \in [1 .. n -> Int]
    <3>1. \A i \in 1 .. n : x[i] \in Int
      BY <1>6
    <3> QED BY <1>6, <3>1
  <2> QED BY <1>2, <2>1, LinearType
<1>9. run.f = h.foff + Linear(h.dsize, x) /\ run.len = h.count[n]
  <2>1. run.f = h.foff + 1 * Linear(h.dsize, x)
    BY <1>1 DEF FileAt, x
  <2> DEFINE l == Linear(h.dsize, x)
             c == h.count[n]
  <2>2. l \in Int /\ c \in Nat
    BY <1>2, <1>5, <1>8
  <2> HIDE DEF l, c
  <2>3. 1 * l = l /\ 1 * c = c
    BY <2>2
  <2> QED BY <1>1, <2>1, <2>3 DEF l, c
<1>10. h.count[n] \in Nat \ {0} /\ h.dstart[n] \in Nat /\ x[n] + h.count[n] <= h.dsize[n]
  BY <1>2, <1>5, <1>7
<1> QED BY <1>2, <1>6, <1>7, <1>8, <1>9, <1>10 DEF x, PlacedAt

\* Rows of one data block in step: one that does not start before another does not
\* end before it either.
LEMMA RowsInStep ==
  ASSUME NEW n \in Nat \ {0}, NEW g, Inside(n, g), NEW h, Inside(n, h), InStep(n, g, h),
         NEW at, NEW a, RowAt(n, g, 1, at, a), NEW bt, NEW b, RowAt(n, h, 1, bt, b),
         a.f <= b.f
  PROVE  EndOfRun(a) <= EndOfRun(b)
<1> DEFINE x == Shifted(g.dstart, at)
           y == Shifted(h.dstart, bt)
           d == g.dsize
           lx == Linear(d, x)
           ly == Linear(d, y)
           cg == g.count[n]
           ch == h.count[n]
           sg == g.dstart[n]
           sh == h.dstart[n]
           foff == g.foff
<1>1. foff = h.foff /\ d = h.dsize
  BY DEF InStep
<1>2. /\ x \in [1 .. n -> Nat] /\ \A i \in 1 .. n : x[i] = g.dstart[i] + at[i] /\ x[i] < d[i]
      /\ d \in [1 .. n -> Nat] /\ foff \in Nat /\ cg \in Nat \ {0} /\ sg \in Nat
      /\ x[n] = sg /\ x[n] + cg <= d[n] /\ lx \in Int /\ a.f = foff + lx /\ a.len = cg
  <2>1. PlacedAt(n, g, at, a)
    BY RowPlace
  <2> QED BY <2>1 DEF PlacedAt
<1>3. /\ y \in [1 .. n -> Nat] /\ \A i \in 1 .. n : y[i] = h.dstart[i] + bt[i] /\ y[i] < h.dsize[i]
      /\ ch \in Nat \ {0} /\ sh \in Nat /\ y[n] = sh /\ y[n] + ch <= h.dsize[n]
      /\ Linear(h.dsize, y) \in Int /\ b.f = h.foff + Linear(h.dsize, y) /\ b.len = ch
  <2>1. PlacedAt(n, h, bt, b)
    BY RowPlace
  <2> QED BY <2>1 DEF PlacedAt
<1>4. /\ \A i \in 1 .. n : y[i] < d[i]
      /\ y[n] + ch <= d[n] /\ ly \in Int /\ b.f = foff + ly
  BY <1>1, <1>3
<1>5. EndOfRun(a) = foff + lx + cg /\ EndOfRun(b) = foff + ly + ch
  BY <1>2, <1>3, <1>4 DEF EndOfRun
<1> HIDE DEF x, y, d, lx, ly, cg, ch, sg, sh, foff
<1>6. /\ foff \in Nat /\ lx \in Int /\ ly \in Int /\ cg \in Nat \ {0} /\ ch \in Nat \ {0}
      /\ sg \in Nat /\ sh \in Nat /\ lx <= ly
  BY <1>2, <1>3, <1>4
<1>7. CASE lx + cg <= ly
  BY <1>5, <1>6, <1>7
<1>8. CASE ~(lx + cg <= ly)
  <2>1. ASSUME NEW k \in 1 .. n - 1, x[k] # y[k] PROVE FALSE
    <3> DEFINE D == {i \in Nat : i \in 1 .. n - 1 /\ x[i] # y[i]}
    <3>1. k \in D /\ D \in SUBSET Nat
      BY <2>1
    <3>2. PICK m \in D : \A i \in D : m <= i
      <4> HIDE DEF D
      <4> QED BY <3>1, LeastNat
    <3>3. m \in 1 .. n - 1 /\ x[m] # y[m] /\ m \in 1 .. n /\ m # n
      BY <3>2
    <3>4. \A i \in 1 .. m - 1 : x[i] = y[i]
      <4> SUFFICES ASSUME NEW i \in 1 .. m - 1, x[i] # y[i] PROVE FALSE
        OBVIOUS
      <4>1. i \in D /\ i < m /\ i \in Int /\ m \in Int
        BY <3>3
      <4> QED BY <3>2, <4>1
    <3>5. x[m] < y[m] \/ y[m] < x[m]
      <4>1. x[m] \in Nat /\ y[m] \in Nat
        BY <1>2, <1>3, <3>3
      <4> QED BY <3>3, <4>1
    <3> HIDE DEF D
    <3>6. ASSUME x[m] < y[m] PROVE FALSE
      <4>1. x[n] + cg <= IF m = n THEN y[n] ELSE d[n]
        BY <1>2, <3>3
      <4>2. cg \in Nat /\ x \in [1 .. n -> Nat] /\ y \in [1 .. n -> Nat] /\ d \in [1 .. n -> Nat]
            /\ \A i \in 1 .. n : x[i] < d[i] /\ y[i] < d[i]
        BY <1>2, <1>3, <1>4
      <4>3. Linear(d, x) + cg <= Linear(d, y)
        BY <3>3, <3>4, <3>6, <4>1, <4>2, LinearGrows
      <4> QED BY <1>8, <4>3 DEF lx, ly
    <3>7. ASSUME y[m] < x[m] PROVE FALSE
      <4>1. y[n] + ch <= IF m = n THEN x[n] ELSE d[n]
        BY <1>4, <3>3
      <4>2. ch \in Nat /\ x \in [1 .. n -> Nat] /\ y \in [1 .. n -> Nat] /\ d \in [1 .. n -> Nat]
            /\ (\A i \in 1 .. n : x[i] < d[i] /\ y[i] < d[i])
            /\ \A i \in 1 .. m - 1 : y[i] = x[i]
        BY <1>2, <1>3, <1>4, <3>4
      <4>3. Linear(d, y) + ch <= Linear(d, x)
        BY <3>3, <3>7, <4>1, <4>2, LinearGrows
      <4>4. ly + ch <= lx
        BY <4>3 DEF lx, ly
      <4> QED BY <1>6, <4>4
    <3> QED BY <3>5, <3>6, <3>7
  <2>2. \A i \in 1 .. n - 1 : x[i] = y[i]
    BY <2>1
  <2>3. Linear(d, y) = Linear(d, x) + (y[n] - x[n])
    <3>1. x \in [1 .. n -> Int] /\ y \in [1 .. n -> Int]
      <4>1. \A i \in 1 .. n : x[i] \in Int /\ y[i] \in Int
        BY <1>2, <1>3
      <4> QED BY <1>2, <1>3, <4>1
    <3> QED BY <1>2, <2>2, <3>1, LinearLast
  <2>4. ly = lx + (sh - sg)
    BY <1>2, <1>3, <2>3 DEF lx, ly
  <2>5. sg <= sh /\ sh < sg + cg
    BY <1>6, <1>8, <2>4
  <2>6. \A i \in 1 .. n - 1 : g.dstart[i] + at[i] = h.dstart[i] + bt[i]
    <3> TAKE i \in 1 .. n - 1
    <3>1. i \in 1 .. n
      OBVIOUS
    <3> QED BY <1>2, <1>3, <2>2, <3>1
  <2>7. at \in InHit(n, g) /\ bt \in InHit(n, h)
    BY DEF RowAt
  <2>8. sg + cg <= sh + ch
    BY <2>5, <2>6, <2>7 DEF InStep, sg, cg, sh, ch
  <2> QED BY <1>5, <1>6, <2>4, <2>8
<1> QED BY <1>7, <1>8

\* Where the bytes of an element are, in the file and in memory, are numbers.
LEMMA BytePlaces ==
  ASSUME NEW n \in Nat \ {0}, NEW width \in Nat \ {0}, NEW h, Inside(n, h),
         NEW at \in InHit(n, h), NEW b \in 0 .. width - 1
  PROVE  /\ FileAt(h, width, at) \in Int /\ MemoryAt(h, width, at) \in Int
         /\ MemoryAt(h, width, at) + b \in Int
<1>1. /\ h.foff \in Nat /\ h.dstart \in [1 .. n -> Int] /\ h.dsize \in [1 .. n -> Nat]
      /\ h.mstart \in [1 .. n -> Int] /\ h.msize \in [1 .. n -> Nat] /\ h.xbuf \in Nat
      /\ at \in [1 .. n -> Nat]
  BY DEF Inside, Hits, InHit
<1>2. ASSUME NEW d \in [1 .. n -> Nat], NEW s \in [1 .. n -> Int]
      PROVE  Linear(d, Shifted(s, at)) \in Int
  <2>1. Shifted(s, at) = [i \in 1 .. n |-> s[i] + at[i]]
    BY DEF Shifted
  <2>2. \A i \in 1 .. n : s[i] + at[i] \in Int
    <3> TAKE i \in 1 .. n
    <3>1. s[i] \in Int /\ at[i] \in Nat
      BY <1>1
    <3> QED BY <3>1
  <2>3. Shifted(s, at) \in [1 .. n -> Int]
    BY <2>1, <2>2
  <2> QED BY <2>3, LinearType
<1> DEFINE lf == Linear(h.dsize, Shifted(h.dstart, at))
           lm == Linear(h.msize, Shifted(h.mstart, at))
           foff == h.foff
           xbuf == h.xbuf
<1>3. lf \in Int /\ lm \in Int
  BY <1>1, <1>2
<1>4. foff \in Nat /\ xbuf \in Nat
  BY <1>1
<1> HIDE DEF lf, lm, foff, xbuf
<1>5. foff + width * lf \in Int /\ xbuf + width * lm \in Int /\ (xbuf + width * lm) + b \in Int
  BY <1>3, <1>4
<1> QED BY <1>5 DEF FileAt, MemoryAt, lf, lm, foff, xbuf

\* Every run is a row of one of the hits, whose elements are single bytes.
RowsOfHits(n, N, group, M, flat) ==
  \A k \in 1 .. M : \E i \in 1 .. N : \E at : RowAt(n, group[i], 1, at, flat[k])

Rearranged(M, flat, idx) == [i \in 1 .. M |-> flat[idx[i]]]

\* Runs put in the order of their offsets, rows of hits in step, are in a row.
LEMMA SortedInRow ==
  ASSUME NEW n \in Nat \ {0}, NEW N \in Nat, NEW group \in [1 .. N -> Hits(n)],
         \A i \in 1 .. N : Inside(n, group[i]),
         \A i, j \in 1 .. N : InStep(n, group[i], group[j]),
         NEW M \in Nat, NEW flat \in [1 .. M -> Runs],
         RowsOfHits(n, N, group, M, flat),
         NEW idx, IsOrder(M, idx, OffsetOrder(flat)),
         NEW sorted, sorted = Rearranged(M, flat, idx)
  PROVE  sorted \in [1 .. M -> Runs] /\ InRow(M, sorted)
<1>1. idx \in [1 .. M -> 1 .. M] /\ \A k, l \in 1 .. M : k < l => <<idx[k], idx[l]>> \in OffsetOrder(flat)
  BY DEF IsOrder
<1>2. sorted \in [1 .. M -> Runs] /\ \A i \in 1 .. M : sorted[i] = flat[idx[i]]
  BY <1>1 DEF Rearranged
<1>3. ASSUME NEW k \in 1 .. M, NEW l \in 1 .. M, k < l
      PROVE  sorted[k].f <= sorted[l].f /\ EndOfRun(sorted[k]) <= EndOfRun(sorted[l])
  <2>1. <<idx[k], idx[l]>> \in OffsetOrder(flat) /\ idx[k] \in 1 .. M /\ idx[l] \in 1 .. M
    BY <1>1, <1>3
  <2>2. flat[idx[k]].f < flat[idx[l]].f \/ flat[idx[k]].f = flat[idx[l]].f
    BY <2>1 DEF OffsetOrder
  <2>3. flat[idx[k]].f \in Int /\ flat[idx[l]].f \in Int
    BY <2>1 DEF Runs
  <2>4. flat[idx[k]].f <= flat[idx[l]].f
    BY <2>2, <2>3
  <2>5. PICK i \in 1 .. N : \E at : RowAt(n, group[i], 1, at, flat[idx[k]])
    BY <2>1 DEF RowsOfHits
  <2>6. PICK at : RowAt(n, group[i], 1, at, flat[idx[k]])
    BY <2>5
  <2>7. PICK j \in 1 .. N : \E bt : RowAt(n, group[j], 1, bt, flat[idx[l]])
    BY <2>1 DEF RowsOfHits
  <2>8. PICK bt : RowAt(n, group[j], 1, bt, flat[idx[l]])
    BY <2>7
  <2> DEFINE g == group[i]
             h == group[j]
             a == flat[idx[k]]
             b == flat[idx[l]]
  <2>9. Inside(n, g) /\ Inside(n, h) /\ InStep(n, g, h) /\ RowAt(n, g, 1, at, a)
        /\ RowAt(n, h, 1, bt, b) /\ a.f <= b.f
    BY <2>4, <2>6, <2>8
  <2> HIDE DEF g, h, a, b
  <2>10. EndOfRun(a) <= EndOfRun(b)
    BY <2>9, RowsInStep
  <2> QED BY <1>2, <2>4, <2>10 DEF a, b
<1> QED BY <1>2, <1>3 DEF InRow

\* A group whose plan the rest of the code can handle: one hit, or hits in step, of
\* single bytes.
GroupFine(n, width, group) ==
  \/ Len(group) = 1
  \/ width = 1 /\ \A i, j \in 1 .. Len(group) : InStep(n, group[i], group[j])

\* The plan of such a group brings the bytes of its hits to their addresses, and all
\* of them.
LEMMA GroupDelivers ==
  ASSUME NEW n \in Nat \ {0}, NEW width \in Nat \ {0}, NEW group \in Seq(Hits(n)), Len(group) # 0,
         \A i \in 1 .. Len(group) : Inside(n, group[i]), GroupFine(n, width, group),
         NEW R, \A i \in 1 .. Len(group) : Carries(n, width, group[i], R)
  PROVE  /\ Delivers(R, GroupPlan(group, width))
         /\ \A i \in 1 .. Len(group) : \A at \in InHit(n, group[i]), b \in 0 .. width - 1 :
              Reaches(GroupPlan(group, width), MemoryAt(group[i], width, at) + b)
<1> DEFINE N == Len(group)
           row(j) == RowsOf(group[j], width, width)
           GP == GroupPlan(group, width)
<1>1. N \in Nat /\ N # 0 /\ DOMAIN group = 1 .. N /\ group \in [1 .. N -> Hits(n)] /\ 1 \in 1 .. N
  BY LenProperties
<1>2. ASSUME NEW j \in 1 .. N
      PROVE  /\ row(j) \in Seq(Runs) /\ \A r \in 1 .. Len(row(j)) : Brings(R, row(j)[r])
             /\ \A r \in 1 .. Len(row(j)) : \E at : RowAt(n, group[j], width, at, row(j)[r])
             /\ \A at \in InHit(n, group[j]), b \in 0 .. width - 1 :
                  RunReaches(row(j), MemoryAt(group[j], width, at) + b)
  <2>1. Inside(n, group[j]) /\ Carries(n, width, group[j], R)
    OBVIOUS
  <2>2. \A r \in 1 .. Len(row(j)) : \E at : RowAt(n, group[j], width, at, row(j)[r])
    BY <2>1, HitRows
  <2> QED BY <2>1, <2>2, HitDelivers
<1>3. CASE N = 1
  <2>1. GP = [runs |-> row(1), copies |-> <<>>]
    BY <1>3 DEF GroupPlan
  <2> HIDE DEF GP, row
  <2>2. GP.runs = row(1) /\ GP.copies = <<>>
    BY <2>1
  <2>3. Len(<<>>) = 0 /\ 1 .. 0 = {} /\ <<>> \in Seq(Copies)
    OBVIOUS
  <2>4. Delivers(R, GP)
    BY <1>1, <1>2, <2>2, <2>3 DEF Delivers
  <2>5. \A i \in 1 .. N : i = 1
    BY <1>3
  <2>6. \A i \in 1 .. N : \A at \in InHit(n, group[i]), b \in 0 .. width - 1 :
              Reaches(GP, MemoryAt(group[i], width, at) + b)
    BY <1>2, <2>2, <2>5 DEF Reaches
  <2> QED BY <2>4, <2>6 DEF GP
<1>4. CASE N # 1
  <2>1. width = 1 /\ \A i, j \in 1 .. N : InStep(n, group[i], group[j])
    BY <1>4 DEF GroupFine
  <2> DEFINE p == [j \in 1 .. N |-> row(j)]
             flat == FlattenSeq(p)
             sorted == SortOffsets(flat)
  <2>2. GP = Trimmed(sorted)
    BY <1>1, <1>4, <2>1 DEF GroupPlan
  <2>3. p \in Seq(Seq(Runs)) /\ Len(p) = N /\ \A j \in 1 .. N : p[j] = row(j)
    <3> DEFINE W == Seq(Runs)
    <3>1. \A j \in 1 .. N : row(j) \in W
      BY <1>2
    <3>2. p = [j \in 1 .. N |-> row(j)]
      OBVIOUS
    <3> HIDE DEF W, row, p, N
    <3>3. p \in [1 .. N -> W] /\ \A j \in 1 .. N : p[j] = row(j)
      BY <3>1, <3>2
    <3>4. p \in Seq(W) /\ Len(p) = N
      BY <1>1, <3>3, LenProperties
    <3> QED BY <3>3, <3>4 DEF W
  <2> HIDE DEF p, N, row
  <2> DEFINE M == EndOf(p, Len(p))
  <2>5. /\ flat \in Seq(Runs) /\ Len(flat) = M
        /\ \A j \in 1 .. Len(p) : \A i \in 1 .. Len(p[j]) : flat[EndOf(p, j - 1) + i] = p[j][i]
    BY <2>3, Flatten
  <2>6. \A k \in 1 .. M : \E j \in 1 .. Len(p) : \E i \in 1 .. Len(p[j]) : k = EndOf(p, j - 1) + i
    BY <2>3, PieceOf
  <2>7. \A j \in 1 .. Len(p) : \A i \in 1 .. Len(p[j]) : EndOf(p, j - 1) + i \in 1 .. M
    BY <2>3, PieceOrder
  <2> HIDE DEF flat, M
  <2>8. ASSUME NEW k \in 1 .. M
        PROVE  /\ Brings(R, flat[k])
               /\ \E i \in 1 .. N : \E at : RowAt(n, group[i], 1, at, flat[k])
    <3>1. PICK j \in 1 .. Len(p) : \E i \in 1 .. Len(p[j]) : k = EndOf(p, j - 1) + i
      BY <2>6
    <3>2. PICK i \in 1 .. Len(p[j]) : k = EndOf(p, j - 1) + i
      BY <3>1
    <3>3. flat[k] = row(j)[i] /\ j \in 1 .. N /\ i \in 1 .. Len(row(j))
      BY <2>3, <2>5, <3>2
    <3> QED BY <1>2, <2>1, <3>3
  <2>9. M \in Nat /\ flat \in [1 .. M -> Runs]
    BY <2>5, LenProperties
  <2>10. PICK idx : /\ IsOrder(M, idx, OffsetOrder(flat))
                    /\ sorted = [i \in 1 .. M |-> flat[idx[i]]]
    BY <2>9, OffsetsSorted
  <2>11. idx \in [1 .. M -> 1 .. M] /\ \A x \in 1 .. M : \E k \in 1 .. M : idx[k] = x
    BY <2>10 DEF IsOrder
  <2> HIDE DEF sorted
  <2>12. sorted \in [1 .. M -> Runs] /\ InRow(M, sorted)
    <3>1. group \in [1 .. N -> Hits(n)] /\ (\A i \in 1 .. N : Inside(n, group[i])) /\ N \in Nat
      BY <1>1 DEF N
    <3>2. RowsOfHits(n, N, group, M, flat)
      BY <2>8 DEF RowsOfHits
    <3>3. \A i, j \in 1 .. N : InStep(n, group[i], group[j])
      BY <2>1
    <3>4. sorted = Rearranged(M, flat, idx)
      BY <2>10 DEF Rearranged
    <3>5. IsOrder(M, idx, OffsetOrder(flat))
      BY <2>10
    <3> HIDE DEF GP
    <3> QED BY <2>9, <3>1, <3>2, <3>3, <3>4, <3>5, SortedInRow
  <2>13. \A i \in 1 .. M : Brings(R, sorted[i])
    BY <2>8, <2>10, <2>11
  <2>14. /\ Delivers(R, Trimmed(sorted))
         /\ \A a \in Int : RunReaches(sorted, a) => Reaches(Trimmed(sorted), a)
    BY <2>9, <2>12, <2>13, TrimDelivers
  <2>15. ASSUME NEW j \in 1 .. N, NEW at \in InHit(n, group[j]), NEW b \in 0 .. width - 1
         PROVE  Reaches(GP, MemoryAt(group[j], width, at) + b)
    <3> DEFINE a == MemoryAt(group[j], width, at) + b
    <3>1. RunReaches(row(j), a)
      BY <1>2
    <3>2. PICK i \in 1 .. Len(row(j)) : InMemory(row(j)[i], a)
      BY <3>1 DEF RunReaches
    <3> DEFINE k == EndOf(p, j - 1) + i
    <3>3. k \in 1 .. M /\ flat[k] = row(j)[i]
      BY <2>3, <2>5, <2>7
    <3> HIDE DEF k, a
    <3>4. PICK q \in 1 .. M : idx[q] = k
      BY <2>11, <3>3
    <3>5. sorted[q] = row(j)[i] /\ Len(sorted) = M
      BY <2>9, <2>10, <2>12, <3>3, <3>4, LenProperties
    <3>6. RunReaches(sorted, a)
      BY <3>2, <3>5 DEF RunReaches
    <3>7. a \in Int
      <4>1. Inside(n, group[j])
        BY DEF N
      <4> QED BY <4>1, BytePlaces DEF a
    <3> QED BY <2>2, <2>14, <3>6, <3>7 DEF a
  <2> QED BY <2>2, <2>14, <2>15 DEF GP, N
<1> QED BY <1>3, <1>4

-----------------------------------------------------------------------------
(* The plan: the bytes and addresses *)

\* Plans one after another.
Joined(plans) ==
  [runs   |-> FlattenSeq([g \in DOMAIN plans |-> plans[g].runs]),
   copies |-> FlattenSeq([g \in DOMAIN plans |-> plans[g].copies])]

\* What is in each piece is in the whole, and nothing else.
Merged(m, p, whole) ==
  /\ \A k \in 1 .. Len(whole) : \E g \in 1 .. m : \E i \in 1 .. Len(p[g]) : whole[k] = p[g][i]
  /\ \A g \in 1 .. m : \A i \in 1 .. Len(p[g]) : \E k \in 1 .. Len(whole) : whole[k] = p[g][i]

\* Flattening merges.
LEMMA WholeHas ==
  ASSUME NEW V, NEW m \in Nat, NEW p \in [1 .. m -> Seq(V)]
  PROVE  FlattenSeq(p) \in Seq(V) /\ Merged(m, p, FlattenSeq(p))
<1>1. p \in Seq(Seq(V)) /\ Len(p) = m
  BY LenProperties
<1>2. /\ FlattenSeq(p) \in Seq(V) /\ Len(FlattenSeq(p)) = EndOf(p, Len(p))
      /\ \A i \in 1 .. Len(p) : \A j \in 1 .. Len(p[i]) : FlattenSeq(p)[EndOf(p, i - 1) + j] = p[i][j]
  BY <1>1, Flatten
<1>3. ASSUME NEW k \in 1 .. Len(FlattenSeq(p))
      PROVE  \E g \in 1 .. m : \E i \in 1 .. Len(p[g]) : FlattenSeq(p)[k] = p[g][i]
  <2>1. PICK g \in 1 .. Len(p) : \E i \in 1 .. Len(p[g]) : k = EndOf(p, g - 1) + i
    BY <1>1, <1>2, PieceOf
  <2> QED BY <1>1, <1>2, <2>1
<1>4. ASSUME NEW g \in 1 .. m, NEW i \in 1 .. Len(p[g])
      PROVE  \E k \in 1 .. Len(FlattenSeq(p)) : FlattenSeq(p)[k] = p[g][i]
  <2>1. EndOf(p, g - 1) + i \in 1 .. EndOf(p, Len(p))
    BY <1>1, PieceOrder
  <2> QED BY <1>1, <1>2, <2>1
<1> QED BY <1>2, <1>3, <1>4 DEF Merged

\* Plans that deliver do so together.
LEMMA JoinedDeliver ==
  ASSUME NEW m \in Nat, NEW plans, DOMAIN plans = 1 .. m, NEW R,
         \A g \in 1 .. m : Delivers(R, plans[g])
  PROVE  /\ Delivers(R, Joined(plans))
         /\ \A g \in 1 .. m : \A a : Reaches(plans[g], a) => Reaches(Joined(plans), a)
<1> DEFINE p == [g \in 1 .. m |-> plans[g].runs]
           q == [g \in 1 .. m |-> plans[g].copies]
           runs == FlattenSeq(p)
           copies == FlattenSeq(q)
           J == Joined(plans)
<1>1. ASSUME NEW g \in 1 .. m
      PROVE  /\ plans[g].runs \in Seq(Runs) /\ plans[g].copies \in Seq(Copies)
             /\ \A r \in 1 .. Len(plans[g].runs) : Brings(R, plans[g].runs[r])
             /\ \A c \in 1 .. Len(plans[g].copies) : Carrying(R, plans[g].runs, plans[g].copies[c])
  BY DEF Delivers
<1>2. J.runs = runs /\ J.copies = copies
  BY DEF Joined
<1>3. /\ p \in [1 .. m -> Seq(Runs)] /\ q \in [1 .. m -> Seq(Copies)]
      /\ \A g \in 1 .. m : p[g] = plans[g].runs /\ q[g] = plans[g].copies
  <2> DEFINE A == Seq(Runs)
             B == Seq(Copies)
             D == 1 .. m
  <2>1. \A g \in D : plans[g].runs \in A /\ plans[g].copies \in B
    BY <1>1
  <2> HIDE DEF A, B
  <2>2. p \in [D -> A] /\ q \in [D -> B]
    BY <2>1
  <2> QED BY <2>2 DEF A, B
<1> HIDE DEF p, q, J
<1>4. runs \in Seq(Runs) /\ Merged(m, p, runs)
  <2>1. p \in [1 .. m -> Seq(Runs)]
    BY <1>3
  <2> QED BY <2>1, WholeHas
<1>5. copies \in Seq(Copies) /\ Merged(m, q, copies)
  <2>1. q \in [1 .. m -> Seq(Copies)]
    BY <1>3
  <2> QED BY <2>1, WholeHas
<1> HIDE DEF runs, copies
<1>6. ASSUME NEW g \in 1 .. m, NEW a, RunReaches(plans[g].runs, a)
      PROVE  RunReaches(runs, a)
  <2>1. PICK i \in 1 .. Len(p[g]) : InMemory(p[g][i], a)
    BY <1>3, <1>6 DEF RunReaches
  <2>2. PICK k \in 1 .. Len(runs) : runs[k] = p[g][i]
    BY <1>4 DEF Merged
  <2> QED BY <2>1, <2>2 DEF RunReaches
<1>7. ASSUME NEW g \in 1 .. m, NEW a, Filling(plans[g].copies, a)
      PROVE  Filling(copies, a)
  <2>1. PICK i \in 1 .. Len(q[g]) : q[g][i].dst <= a /\ a < q[g][i].dst + q[g][i].size
    BY <1>3, <1>7 DEF Filling
  <2>2. PICK k \in 1 .. Len(copies) : copies[k] = q[g][i]
    BY <1>5 DEF Merged
  <2> QED BY <2>1, <2>2 DEF Filling
<1>8. ASSUME NEW r \in 1 .. Len(runs) PROVE Brings(R, runs[r])
  <2>1. PICK g \in 1 .. m : \E i \in 1 .. Len(p[g]) : runs[r] = p[g][i]
    BY <1>4 DEF Merged
  <2> QED BY <1>1, <1>3, <2>1
<1>9. ASSUME NEW c \in 1 .. Len(copies) PROVE Carrying(R, runs, copies[c])
  <2>1. PICK g \in 1 .. m : \E i \in 1 .. Len(q[g]) : copies[c] = q[g][i]
    BY <1>5 DEF Merged
  <2>2. PICK i \in 1 .. Len(q[g]) : copies[c] = q[g][i]
    BY <2>1
  <2>3. Carrying(R, plans[g].runs, copies[c])
    BY <1>1, <1>3, <2>2
  <2> QED BY <1>6, <2>3 DEF Carrying
<1>10. Delivers(R, J)
  BY <1>2, <1>4, <1>5, <1>8, <1>9 DEF Delivers
<1>11. ASSUME NEW g \in 1 .. m, NEW a, Reaches(plans[g], a) PROVE Reaches(J, a)
  BY <1>2, <1>6, <1>7, <1>11 DEF Reaches
<1> QED BY <1>10, <1>11 DEF J

\* Hits of which those in one data block are in step, of single bytes, or of which
\* no two are in one data block.
Tame(n, width, N, hits) ==
  \/ width = 1 /\ \A i, j \in 1 .. N : hits[i].foff = hits[j].foff => InStep(n, hits[i], hits[j])
  \/ \A i, j \in 1 .. N : hits[i].foff = hits[j].foff => i = j

\* The hits of a group are in one data block.
LEMMA GroupInBlock ==
  ASSUME NEW n \in Nat \ {0}, NEW N \in Nat \ {0}, NEW H \in [1 .. N -> Hits(n)],
         NEW m, NEW s, GroupsAt(N, H, s, m), NEW g \in 1 .. m
  PROVE  \A i \in 1 .. Len(GroupOf(H, s, g)) :
           GroupOf(H, s, g)[i].foff = GroupOf(H, s, g)[1].foff
<1> DEFINE group == GroupOf(H, s, g)
           b == Before(s, g)
           E == {i \in 1 .. N : EndsRun(H, i)}
           T == {k \in Nat : k + 1 <= Len(group) => group[k + 1].foff = group[1].foff}
<1>1. m \in 1 .. N /\ s \in [1 .. m -> 1 .. N] /\ CutAt(N, E, s, m)
  BY DEF GroupsAt
<1>2. HitsIn(n, N, H, s, g, group) /\ b \in Int /\ s[g] \in Int
  BY <1>1, GroupIs
<1>3. \A k \in 1 .. N : b < k /\ k < s[g] => k \notin E
  BY <1>1 DEF CutAt
<1> HIDE DEF b, E, group
<1>4. /\ group \in Seq(Hits(n)) /\ Len(group) = s[g] - b /\ Len(group) \in Nat
      /\ \A i \in 1 .. Len(group) : b + i \in 1 .. N /\ b + i <= s[g] /\ group[i] = H[b + i]
  BY <1>2, LenProperties DEF HitsIn, b
<1>5. ASSUME NEW k \in T PROVE k + 1 \in T
  <2> SUFFICES ASSUME k + 1 + 1 <= Len(group) PROVE group[k + 1 + 1].foff = group[1].foff
    BY <1>5
  <2> DEFINE j == k + 1
  <2>1. k \in Nat /\ j \in 1 .. Len(group) /\ j + 1 \in 1 .. Len(group)
    BY <1>4, <1>5
  <2>2. group[j].foff = group[1].foff
    BY <1>5, <2>1
  <2> HIDE DEF j
  <2>3. b < b + j /\ b + j < s[g] /\ b + j \in 1 .. N /\ b + j + 1 = b + (j + 1)
    BY <1>2, <1>4, <2>1
  <2>4. ~EndsRun(H, b + j)
    BY <1>3, <2>3 DEF E
  <2>5. H[b + j].foff = H[b + (j + 1)].foff
    BY <2>3, <2>4 DEF EndsRun, Interleaves
  <2>6. group[j + 1].foff = group[j].foff
    BY <1>4, <2>1, <2>5
  <2> QED BY <2>2, <2>6 DEF j
<1>6. T = Nat
  <2>1. 0 \in T /\ T \in SUBSET Nat
    OBVIOUS
  <2> HIDE DEF T
  <2> QED BY <1>5, <2>1, AllNat
<1>7. ASSUME NEW i \in 1 .. Len(group) PROVE group[i].foff = group[1].foff
  <2>1. i - 1 \in Nat /\ (i - 1) + 1 = i
    OBVIOUS
  <2>2. i - 1 \in T
    <3> HIDE DEF T
    <3> QED BY <1>6, <2>1
  <2>3. (i - 1) + 1 <= Len(group) => group[(i - 1) + 1].foff = group[1].foff
    BY <2>2
  <2> QED BY <1>4, <2>1, <2>3
<1> QED BY <1>7 DEF group

\* The same hits in another order.
Reordered(N, hits, idx, H) ==
  /\ idx \in [1 .. N -> 1 .. N] /\ \A k, l \in 1 .. N : idx[k] = idx[l] => k = l
  /\ \A k \in 1 .. N : H[k] = hits[idx[k]]

\* Tame hits stay so in any order.
LEMMA TameInOrder ==
  ASSUME NEW n, NEW width, NEW N \in Nat, NEW hits, Tame(n, width, N, hits),
         NEW H, NEW idx, Reordered(N, hits, idx, H)
  PROVE  Tame(n, width, N, H)
<1> USE DEF Reordered
<1>1. CASE width = 1 /\ \A i, j \in 1 .. N : hits[i].foff = hits[j].foff => InStep(n, hits[i], hits[j])
  <2>1. \A i, j \in 1 .. N : H[i].foff = H[j].foff => InStep(n, H[i], H[j])
    <3> TAKE i \in 1 .. N, j \in 1 .. N
    <3>1. idx[i] \in 1 .. N /\ idx[j] \in 1 .. N /\ H[i] = hits[idx[i]] /\ H[j] = hits[idx[j]]
      OBVIOUS
    <3> QED BY <1>1, <3>1
  <2> QED BY <1>1, <2>1 DEF Tame
<1>2. CASE \A i, j \in 1 .. N : hits[i].foff = hits[j].foff => i = j
  <2>1. \A i, j \in 1 .. N : H[i].foff = H[j].foff => i = j
    <3> TAKE i \in 1 .. N, j \in 1 .. N
    <3>1. idx[i] \in 1 .. N /\ idx[j] \in 1 .. N /\ H[i] = hits[idx[i]] /\ H[j] = hits[idx[j]]
      OBVIOUS
    <3> QED BY <1>2, <3>1
  <2> QED BY <2>1 DEF Tame
<1> QED BY <1>1, <1>2 DEF Tame

\* A group of tame hits.
LEMMA TameGroup ==
  ASSUME NEW n \in Nat \ {0}, NEW width \in Nat \ {0}, NEW N \in Nat \ {0},
         NEW H \in [1 .. N -> Hits(n)], Tame(n, width, N, H),
         NEW m, NEW s, GroupsAt(N, H, s, m), NEW g \in 1 .. m
  PROVE  GroupFine(n, width, GroupOf(H, s, g))
<1> DEFINE group == GroupOf(H, s, g)
           b == Before(s, g)
           K == Len(group)
<1>1. HitsIn(n, N, H, s, g, group) /\ b \in Int
  BY GroupIs DEF GroupsAt
<1>2. \A i \in 1 .. K : group[i].foff = group[1].foff
  BY GroupInBlock
<1> HIDE DEF b, group
<1>3. /\ K \in Nat /\ K # 0
      /\ \A i \in 1 .. K : b + i \in 1 .. N /\ group[i] = H[b + i]
  BY <1>1, LenProperties DEF HitsIn, b
<1>4. \A i, j \in 1 .. K : H[b + i].foff = H[b + j].foff
  BY <1>2, <1>3
<1> SUFFICES GroupFine(n, width, group)
  BY DEF group
<1>5. CASE width = 1 /\ \A i, j \in 1 .. N : H[i].foff = H[j].foff => InStep(n, H[i], H[j])
  <2>1. \A i, j \in 1 .. K : InStep(n, group[i], group[j])
    BY <1>3, <1>4, <1>5
  <2> QED BY <1>5, <2>1 DEF GroupFine
<1>6. CASE \A i, j \in 1 .. N : H[i].foff = H[j].foff => i = j
  <2>1. ASSUME K # 1 PROVE FALSE
    <3>1. 1 \in 1 .. K /\ 2 \in 1 .. K
      <4>1. K \in Nat /\ K # 0 /\ K # 1
        BY <1>3, <2>1
      <4> HIDE DEF K
      <4> QED BY <4>1
    <3>2. b + 1 = b + 2
      BY <1>3, <1>4, <1>6, <3>1
    <3> QED BY <1>1, <3>2
  <2> QED BY <2>1 DEF GroupFine
<1> QED BY <1>5, <1>6 DEF Tame

\* Where a sorted hit is among the groups.
LEMMA HitInGroup ==
  ASSUME NEW n \in Nat \ {0}, NEW N \in Nat \ {0}, NEW H \in [1 .. N -> Hits(n)],
         NEW m, NEW s, GroupsAt(N, H, s, m), NEW k \in 1 .. N
  PROVE  \E g \in 1 .. m : \E j \in 1 .. Len(GroupOf(H, s, g)) : GroupOf(H, s, g)[j] = H[k]
<1>1. m \in 1 .. N /\ s \in [1 .. m -> 1 .. N] /\ CutAt(N, {i \in 1 .. N : EndsRun(H, i)}, s, m)
  BY DEF GroupsAt
<1>2. PICK g \in 1 .. m : Before(s, g) < k /\ k <= s[g]
  BY <1>1 DEF CutAt
<1> DEFINE group == GroupOf(H, s, g)
           x == Before(s, g)
           j == k - x
<1>3. HitsIn(n, N, H, s, g, group) /\ x \in Int /\ s[g] \in Int
  BY <1>1, GroupIs
<1> HIDE DEF group, x
<1>4. Len(group) = s[g] - x /\ x < k /\ k <= s[g]
      /\ \A i \in 1 .. Len(group) : group[i] = H[x + i]
  BY <1>2, <1>3 DEF HitsIn, x
<1>5. j \in 1 .. Len(group) /\ x + j = k
  BY <1>3, <1>4
<1> HIDE DEF j
<1>6. group[j] = H[k]
  BY <1>4, <1>5
<1> QED BY <1>5, <1>6 DEF group

\* Hits that are tame make a plan that delivers their bytes, all of them.
LEMMA SortedDeliver ==
  ASSUME NEW n \in Nat \ {0}, NEW width \in Nat \ {0}, NEW N \in Nat \ {0},
         NEW H \in [1 .. N -> Hits(n)], \A i \in 1 .. N : Inside(n, H[i]), Tame(n, width, N, H),
         NEW R, \A i \in 1 .. N : Carries(n, width, H[i], R),
         NEW m, NEW s, GroupsAt(N, H, s, m)
  PROVE  LET plan == Joined(GroupPlans(Groups(H, s, m), width))
         IN  /\ Delivers(R, plan)
             /\ \A k \in 1 .. N : \A at \in InHit(n, H[k]), b \in 0 .. width - 1 :
                  Reaches(plan, MemoryAt(H[k], width, at) + b)
<1> DEFINE plans == GroupPlans(Groups(H, s, m), width)
           group(g) == GroupOf(H, s, g)
<1>1. m \in 1 .. N /\ m \in Nat
  BY DEF GroupsAt
<1>2. DOMAIN plans = 1 .. m /\ \A g \in 1 .. m : plans[g] = GroupPlan(group(g), width)
  BY DEF GroupPlans, Groups
<1> HIDE DEF plans
<1>3. ASSUME NEW g \in 1 .. m
      PROVE  /\ Delivers(R, plans[g])
             /\ \A i \in 1 .. Len(group(g)) : \A at \in InHit(n, group(g)[i]), b \in 0 .. width - 1 :
                  Reaches(plans[g], MemoryAt(group(g)[i], width, at) + b)
  <2> DEFINE G == group(g)
  <2>1. HitsIn(n, N, H, s, g, G) /\ GroupFine(n, width, G)
    BY GroupIs, TameGroup DEF GroupsAt
  <2> HIDE DEF G
  <2>2. /\ G \in Seq(Hits(n)) /\ Len(G) # 0
        /\ (\A i \in 1 .. Len(G) : Inside(n, G[i])) /\ \A i \in 1 .. Len(G) : Carries(n, width, G[i], R)
    BY <2>1 DEF HitsIn
  <2>3. /\ Delivers(R, GroupPlan(G, width))
        /\ \A i \in 1 .. Len(G) : \A at \in InHit(n, G[i]), b \in 0 .. width - 1 :
             Reaches(GroupPlan(G, width), MemoryAt(G[i], width, at) + b)
    BY <2>1, <2>2, GroupDelivers
  <2> QED BY <1>2, <2>3 DEF G
<1>4. /\ Delivers(R, Joined(plans))
      /\ \A g \in 1 .. m : \A a : Reaches(plans[g], a) => Reaches(Joined(plans), a)
  BY <1>1, <1>2, <1>3, JoinedDeliver
<1>5. ASSUME NEW k \in 1 .. N, NEW at \in InHit(n, H[k]), NEW b \in 0 .. width - 1
      PROVE  Reaches(Joined(plans), MemoryAt(H[k], width, at) + b)
  <2>1. PICK g \in 1 .. m : \E j \in 1 .. Len(group(g)) : group(g)[j] = H[k]
    BY HitInGroup
  <2> HIDE DEF group
  <2>2. PICK j \in 1 .. Len(group(g)) : group(g)[j] = H[k]
    BY <2>1
  <2>3. Reaches(plans[g], MemoryAt(H[k], width, at) + b)
    BY <1>3, <2>2
  <2> QED BY <1>4, <2>3
<1> QED BY <1>4, <1>5 DEF plans

\* The same of the hits as the search lists them.
LEMMA PlanDelivers ==
  ASSUME NEW n \in Nat \ {0}, NEW width \in Nat \ {0}, NEW N \in Nat,
         NEW hits \in [1 .. N -> Hits(n)], \A i \in 1 .. N : Inside(n, hits[i]),
         Tame(n, width, N, hits), NEW R, \A i \in 1 .. N : Carries(n, width, hits[i], R),
         PlanOf(hits, width).outcome = "ok"
  PROVE  LET plan == PlanOf(hits, width)
         IN  /\ Delivers(R, plan)
             /\ \A i \in 1 .. N : \A at \in InHit(n, hits[i]), b \in 0 .. width - 1 :
                  Reaches(plan, MemoryAt(hits[i], width, at) + b)
<1> DEFINE H == SortHits(hits)
           groups == HitGroups(H)
           J == Joined(GroupPlans(groups, width))
           plan == PlanOf(hits, width)
<1>1. plan.runs = J.runs /\ plan.copies = J.copies
  BY DEF PlanOf, Joined, GroupPlans
<1>2. /\ Delivers(R, J) => Delivers(R, plan)
      /\ \A a : Reaches(J, a) => Reaches(plan, a)
  BY <1>1 DEF Delivers, Reaches
<1> HIDE DEF plan
<1>3. CASE N = 0
  <2>1. DOMAIN hits = {}
    BY <1>3
  <2>2. groups = <<>>
    BY <2>1, NothingAscends
  <2> HIDE DEF groups
  <2>3. DOMAIN GroupPlans(groups, width) = 1 .. 0 /\ 1 .. 0 = {}
    BY <2>2 DEF GroupPlans
  <2>4. Delivers(R, J)
    <3> DEFINE p == GroupPlans(groups, width)
    <3> HIDE DEF p
    <3>1. 0 \in Nat /\ DOMAIN p = 1 .. 0 /\ \A g \in 1 .. 0 : Delivers(R, p[g])
      BY <2>3 DEF p
    <3>2. Delivers(R, Joined(p))
      BY <3>1, JoinedDeliver
    <3> QED BY <3>2 DEF p
  <2> QED BY <1>2, <1>3, <2>4 DEF plan
<1>4. CASE N # 0
  <2>1. N \in Nat \ {0}
    BY <1>4
  <2>2. PICK idx : /\ IsOrder(N, idx, HitOrder(hits))
                   /\ H = [i \in 1 .. N |-> hits[idx[i]]]
    BY HitsSorted
  <2>3. /\ idx \in [1 .. N -> 1 .. N] /\ \A k, l \in 1 .. N : idx[k] = idx[l] => k = l
        /\ \A x \in 1 .. N : \E k \in 1 .. N : idx[k] = x
    BY <2>2 DEF IsOrder
  <2>4. H \in [1 .. N -> Hits(n)] /\ \A i \in 1 .. N : H[i] = hits[idx[i]]
    BY <2>2, <2>3
  <2> HIDE DEF H
  <2>5. Tame(n, width, N, H)
    <3>1. Reordered(N, hits, idx, H)
      BY <2>3, <2>4 DEF Reordered
    <3> QED BY <3>1, TameInOrder
  <2>6. \A i \in 1 .. N : Inside(n, H[i]) /\ Carries(n, width, H[i], R)
    BY <2>3, <2>4
  <2>7. PICK m, s : groups = Groups(H, s, m) /\ GroupsAt(N, H, s, m)
    BY <2>1, <2>4, HitGroupsFollow
  <2>8. GroupsAt(N, H, s, m) /\ J = Joined(GroupPlans(Groups(H, s, m), width))
    BY <2>7
  <2> HIDE DEF J
  <2>9. /\ Delivers(R, J)
        /\ \A k \in 1 .. N : \A at \in InHit(n, H[k]), b \in 0 .. width - 1 :
             Reaches(J, MemoryAt(H[k], width, at) + b)
    BY <2>1, <2>4, <2>5, <2>6, <2>8, SortedDeliver
  <2>10. ASSUME NEW i \in 1 .. N, NEW at \in InHit(n, hits[i]), NEW b \in 0 .. width - 1
         PROVE  Reaches(J, MemoryAt(hits[i], width, at) + b)
    <3>1. PICK k \in 1 .. N : idx[k] = i
      BY <2>3
    <3>2. H[k] = hits[i]
      BY <2>4, <3>1
    <3> QED BY <2>9, <3>2
  <2> QED BY <1>2, <2>9, <2>10 DEF plan
<1> QED BY <1>3, <1>4

-----------------------------------------------------------------------------
(* The memory after the read *)

\* The memory after each of the copies.
CopiesBy(W, memory, copies, after) ==
  LET P == Len(copies)
  IN  /\ after \in [0 .. P -> W] /\ after[0] = memory
      /\ after[P] = FoldLeft(Copied, memory, copies)
      /\ \A j \in 1 .. P : after[j] = Copied(after[j - 1], copies[j])

\* The copies are made one after the other.
LEMMA CopySteps ==
  ASSUME NEW W, NEW memory \in W, NEW V, NEW copies \in Seq(V),
         \A j \in 1 .. Len(copies), w \in W : Copied(w, copies[j]) \in W
  PROVE  \E after : CopiesBy(W, memory, copies, after)
<1> DEFINE P == Len(copies)
           Eq(iter) == iter = [s \in SUBSET (1 .. P) |-> IF s = {} THEN memory
                         ELSE Copied(iter[s \ {Max(s)}], copies[Max(s)])]
<1>1. P \in Nat /\ DOMAIN copies = 1 .. P
  BY LenProperties
<1>2. \A j \in 1 .. P, w \in W : Copied(w, copies[j]) \in W
  OBVIOUS
<1> HIDE DEF P
<1>3. \E iter : Eq(iter)
  <2> DEFINE step == [q \in (1 .. P) \X W |-> Copied(q[2], copies[q[1]])]
  <2>1. \A q \in (1 .. P) \X W : Copied(q[2], copies[q[1]]) \in W
    BY <1>2
  <2>2. step \in [(1 .. P) \X W -> W]
        /\ \A j \in 1 .. P, w \in W : step[<<j, w>>] = Copied(w, copies[j])
    BY <2>1
  <2> HIDE DEF step
  <2>3. PICK h : h \in LeftFoldsOf(W, P, step, memory)
    <3>1. LeftFoldsOf(W, P, step, memory) # {}
      BY <1>1, <2>2, LeftFolds
    <3> QED BY <3>1
  <2>4. /\ h = [s \in SUBSET (1 .. P) |-> h[s]]
        /\ \A s \in SUBSET (1 .. P) : h[s] \in W
        /\ \A s \in SUBSET (1 .. P) :
             h[s] = IF s = {} THEN memory ELSE step[<<Max(s), h[s \ {Max(s)}]>>]
    BY <2>3 DEF LeftFoldsOf
  <2>5. ASSUME NEW s \in SUBSET (1 .. P), s # {}
        PROVE  Max(s) \in 1 .. P /\ s \ {Max(s)} \in SUBSET (1 .. P)
    <3>1. s \in SUBSET Int /\ IsFiniteSet(s)
      <4>1. IsFiniteSet(1 .. P) /\ P \in Int
        BY <1>1, FS_Interval
      <4>2. IsFiniteSet(s)
        BY <4>1, FS_Subset
      <4> QED BY <4>2
    <3>2. Max(s) \in s
      BY <2>5, <3>1, MaxOfSet
    <3> QED BY <3>2
  <2>6. \A s \in SUBSET (1 .. P) : h[s] = IF s = {} THEN memory
          ELSE Copied(h[s \ {Max(s)}], copies[Max(s)])
    <3> TAKE s \in SUBSET (1 .. P)
    <3>1. CASE s = {}
      BY <2>4, <3>1
    <3>2. CASE s # {}
      <4>1. h[s \ {Max(s)}] \in W /\ Max(s) \in 1 .. P
        BY <2>4, <2>5, <3>2
      <4>2. step[<<Max(s), h[s \ {Max(s)}]>>] = Copied(h[s \ {Max(s)}], copies[Max(s)])
        BY <2>2, <4>1
      <4> QED BY <2>4, <3>2, <4>2
    <3> QED BY <3>1, <3>2
  <2>7. Eq(h)
    BY <2>4, <2>6
  <2> HIDE DEF Eq
  <2> QED BY <2>7
<1>4. \E iter : Eq(iter) /\ FoldLeft(Copied, memory, copies) = iter[1 .. P]
  <2>1. FoldLeft(Copied, memory, copies) = (CHOOSE iter : Eq(iter))[1 .. P]
    BY <1>1 DEF FoldLeft, MapThenFoldSet
  <2> HIDE DEF Eq
  <2> QED BY <1>3, <2>1
<1>5. PICK iter : Eq(iter) /\ FoldLeft(Copied, memory, copies) = iter[1 .. P]
  BY <1>4
<1>6. \A s \in SUBSET (1 .. P) : iter[s] = IF s = {} THEN memory
        ELSE Copied(iter[s \ {Max(s)}], copies[Max(s)])
  BY <1>5
<1> DEFINE G(j) == iter[1 .. j]
           T == {j \in Nat : j <= P => G(j) \in W}
<1>7. ASSUME NEW j \in Nat, j + 1 <= P
      PROVE  G(j + 1) = Copied(G(j), copies[j + 1])
  <2>1. Max(1 .. j + 1) = j + 1 /\ (1 .. j + 1) \ {Max(1 .. j + 1)} = 1 .. j
        /\ 1 .. j + 1 # {}
    <3>1. j + 1 \in Nat \ {0} /\ (j + 1) - 1 = j
      OBVIOUS
    <3> QED BY <3>1, UpTo
  <2>2. 1 .. j + 1 \in SUBSET (1 .. P)
    BY <1>1, <1>7
  <2> QED BY <1>6, <2>1, <2>2
<1>8. G(0) = memory
  <2>1. 1 .. 0 = {} /\ 1 .. 0 \in SUBSET (1 .. P)
    OBVIOUS
  <2> QED BY <1>6, <2>1
<1>9. \A j \in 0 .. P : G(j) \in W
  <2>1. 0 \in T
    BY <1>8
  <2>2. ASSUME NEW j \in T PROVE j + 1 \in T
    <3> SUFFICES ASSUME j + 1 <= P PROVE G(j + 1) \in W
      BY <2>2
    <3>1. j \in Nat /\ j + 1 \in 1 .. P /\ G(j) \in W
      BY <1>1, <2>2
    <3> HIDE DEF G
    <3> QED BY <1>2, <1>7, <3>1
  <2>3. T \in SUBSET Nat
    OBVIOUS
  <2>4. T = Nat
    <3> HIDE DEF T
    <3> QED BY <2>1, <2>2, <2>3, AllNat
  <2> QED BY <1>1, <2>4
<1> DEFINE after == [j \in 0 .. P |-> G(j)]
<1>10. after \in [0 .. P -> W] /\ after[0] = memory /\ after[P] = FoldLeft(Copied, memory, copies)
  <2>1. 0 \in 0 .. P /\ P \in 0 .. P
    BY <1>1
  <2>2. after[0] = G(0) /\ after[P] = G(P)
    BY <2>1
  <2>3. after \in [0 .. P -> W]
    <3> HIDE DEF G
    <3> QED BY <1>9
  <2> HIDE DEF after
  <2> QED BY <1>5, <1>8, <2>2, <2>3
<1>11. ASSUME NEW j \in 1 .. P
       PROVE  after[j] = Copied(after[j - 1], copies[j])
  <2>1. j - 1 \in Nat /\ (j - 1) + 1 = j /\ j - 1 \in 0 .. P /\ j \in 0 .. P /\ j <= P
    BY <1>1
  <2>2. after[j] = G(j) /\ after[j - 1] = G(j - 1)
    BY <2>1
  <2>3. G((j - 1) + 1) = Copied(G(j - 1), copies[(j - 1) + 1])
    <3> HIDE DEF G
    <3> QED BY <1>7, <2>1
  <2> HIDE DEF G, after
  <2> QED BY <2>1, <2>2, <2>3
<1> HIDE DEF after
<1>12. CopiesBy(W, memory, copies, after)
  BY <1>10, <1>11 DEF CopiesBy, P
<1> QED BY <1>12

\* What the addresses of a relation may hold: they are addresses of the memory, hold
\* what is in the file there, and those of the same byte may hold the same.
Holds(R, size, data, T) ==
  /\ \A x, a : <<x, a>> \in R => a \in 0 .. size - 1 /\ x \in Nat /\ data[x + 1] \in T[a]
  /\ \A x, a, b : <<x, a>> \in R /\ <<x, b>> \in R => T[a] = T[b]

\* Memory that holds what it may, and something where a run or a copy has been.
Holding(size, T, runs, copies, j, memory) ==
  /\ DOMAIN memory = 0 .. size - 1
  /\ \A a \in 0 .. size - 1 :
       /\ memory[a] \subseteq T[a]
       /\ RunReaches(runs, a) => memory[a] # {}
       /\ \A c \in 1 .. j : copies[c].dst <= a /\ a < copies[c].dst + copies[c].size => memory[a] # {}

\* What is read first.
LEMMA ReadDelivered ==
  ASSUME NEW R, NEW size \in Nat, NEW data, NEW T, Holds(R, size, data, T),
         NEW plan, Delivers(R, plan)
  PROVE  Holding(size, T, plan.runs, plan.copies, 0, MemoryRead(plan.runs, data, size))
<1> DEFINE memory == MemoryRead(plan.runs, data, size)
           runs == plan.runs
           at(a) == {r \in DOMAIN runs : runs[r].m <= a /\ a < runs[r].m + runs[r].len}
<1>1. /\ runs \in Seq(Runs) /\ DOMAIN runs = 1 .. Len(runs)
      /\ \A r \in 1 .. Len(runs) : Brings(R, runs[r]) /\ runs[r] \in Runs
  BY LenProperties DEF Delivers
<1>2. DOMAIN memory = 0 .. size - 1
      /\ \A a \in 0 .. size - 1 : memory[a] = {data[runs[k].f + a - runs[k].m + 1] : k \in at(a)}
  BY DEF MemoryRead
<1> HIDE DEF memory, runs
<1>3. ASSUME NEW a \in 0 .. size - 1, NEW k \in at(a)
      PROVE  data[runs[k].f + a - runs[k].m + 1] \in T[a]
  <2> DEFINE f == runs[k].f
             m == runs[k].m
             len == runs[k].len
             t == a - m
  <2>1. k \in 1 .. Len(runs) /\ m <= a /\ a < m + len
    BY <1>1
  <2>2. f \in Int /\ m \in Int /\ len \in Nat /\ \A u \in Nat : u < len => <<f + u, m + u>> \in R
    BY <1>1, <2>1 DEF Runs, Brings
  <2> HIDE DEF f, m, len
  <2>3. t \in Nat /\ t < len /\ m + t = a
    BY <2>1, <2>2
  <2>4. <<f + t, m + t>> \in R
    BY <2>2, <2>3
  <2>5. data[f + t + 1] \in T[a]
    BY <2>3, <2>4 DEF Holds
  <2> QED BY <2>5 DEF f, m
<1>4. \A a \in 0 .. size - 1 : memory[a] \subseteq T[a]
  BY <1>2, <1>3
<1>5. ASSUME NEW a \in 0 .. size - 1, RunReaches(runs, a) PROVE memory[a] # {}
  <2>1. PICK k \in 1 .. Len(runs) : InMemory(runs[k], a)
    BY <1>5 DEF RunReaches
  <2>2. k \in at(a)
    BY <1>1, <2>1 DEF InMemory
  <2> HIDE DEF at
  <2>3. data[runs[k].f + a - runs[k].m + 1] \in memory[a]
    BY <1>2, <2>2
  <2> QED BY <2>3
<1>6. 1 .. 0 = {}
  OBVIOUS
<1> QED BY <1>2, <1>4, <1>5, <1>6 DEF Holding, memory, runs

\* Another copy.
LEMMA CopyHolds ==
  ASSUME NEW R, NEW size \in Nat, NEW data, NEW T, Holds(R, size, data, T),
         NEW runs, NEW copies \in Seq(Copies), NEW j \in Nat, j + 1 \in 1 .. Len(copies),
         Carrying(R, runs, copies[j + 1]),
         NEW memory, Holding(size, T, runs, copies, j, memory)
  PROVE  Holding(size, T, runs, copies, j + 1, Copied(memory, copies[j + 1]))
<1> DEFINE c == copies[j + 1]
           dst == c.dst
           src == c.src
           len == c.size
           after == Copied(memory, c)
           D == 0 .. size - 1
<1>1. dst \in Int /\ src \in Int /\ len \in Int
  <2>1. c \in Copies
    BY LenProperties
  <2> QED BY <2>1 DEF Copies
<1>2. DOMAIN memory = D
  BY DEF Holding
<1>3. /\ DOMAIN after = D
      /\ \A a \in D : after[a] = IF dst <= a /\ a < dst + len THEN memory[src + a - dst] ELSE memory[a]
  BY <1>2 DEF Copied
<1>4. \A t \in Nat : t < len => SameByte(R, src + t, dst + t) /\ RunReaches(runs, src + t)
  BY DEF Carrying
<1>5. \A a \in D : /\ memory[a] \subseteq T[a]
                   /\ RunReaches(runs, a) => memory[a] # {}
                   /\ \A i \in 1 .. j : copies[i].dst <= a /\ a < copies[i].dst + copies[i].size => memory[a] # {}
  BY DEF Holding
<1> HIDE DEF dst, src, len, after
<1>6. ASSUME NEW a \in D, dst <= a, a < dst + len
      PROVE  after[a] \subseteq T[a] /\ after[a] # {}
  <2> DEFINE t == a - dst
             b == src + t
  <2>1. t \in Nat /\ t < len /\ dst + t = a /\ src + a - dst = b
    BY <1>1, <1>6
  <2>2. SameByte(R, b, a) /\ RunReaches(runs, b)
    BY <1>4, <2>1
  <2> HIDE DEF b, D
  <2>3. PICK x : <<x, b>> \in R /\ <<x, a>> \in R
    BY <2>2 DEF SameByte
  <2>4. b \in D /\ T[b] = T[a]
    BY <2>3 DEF Holds, D
  <2>5. after[a] = memory[b]
    BY <1>3, <1>6, <2>1
  <2> QED BY <1>5, <2>2, <2>4, <2>5
<1>7. ASSUME NEW a \in D
      PROVE  /\ after[a] \subseteq T[a]
             /\ RunReaches(runs, a) => after[a] # {}
             /\ \A i \in 1 .. j + 1 :
                  copies[i].dst <= a /\ a < copies[i].dst + copies[i].size => after[a] # {}
  <2>1. CASE dst <= a /\ a < dst + len
    BY <1>6, <2>1
  <2>2. CASE ~(dst <= a /\ a < dst + len)
    <3>1. after[a] = memory[a]
      BY <1>3, <2>2
    <3>2. ASSUME NEW i \in 1 .. j + 1, copies[i].dst <= a, a < copies[i].dst + copies[i].size
          PROVE  after[a] # {}
      <4>1. CASE i = j + 1
        BY <2>2, <3>2, <4>1 DEF dst, len
      <4>2. CASE i # j + 1
        <5>1. i \in 1 .. j
          BY <4>2
        <5> QED BY <1>5, <3>1, <3>2, <5>1
      <4> QED BY <4>1, <4>2
    <3> QED BY <1>5, <3>1, <3>2
  <2> QED BY <2>1, <2>2
<1> QED BY <1>3, <1>7 DEF Holding, after

\* The memory after a read: only what may be there, and something wherever the plan
\* reaches.
LEMMA MemoryDelivered ==
  ASSUME NEW R, NEW size \in Nat, NEW data, NEW T, Holds(R, size, data, T),
         NEW plan, Delivers(R, plan)
  PROVE  \A a \in 0 .. size - 1 :
           /\ MemoryAfter(plan, data, size)[a] \subseteq T[a]
           /\ Reaches(plan, a) => MemoryAfter(plan, data, size)[a] # {}
<1> DEFINE D == 0 .. size - 1
           U == UNION {T[a] : a \in D}
           W == [D -> SUBSET U]
           memory == MemoryRead(plan.runs, data, size)
           runs == plan.runs
           copies == plan.copies
           P == Len(copies)
<1>1. copies \in Seq(Copies) /\ P \in Nat /\ \A c \in 1 .. P : Carrying(R, runs, copies[c])
  BY LenProperties DEF Delivers
<1>2. Holding(size, T, runs, copies, 0, memory)
  <2> HIDE DEF memory
  <2> QED BY ReadDelivered DEF memory
<1>3. memory = [a \in D |-> memory[a]]
  BY DEF MemoryRead
<1>4. MemoryAfter(plan, data, size) = FoldLeft(Copied, memory, copies)
  BY DEF MemoryAfter
<1> HIDE DEF memory, runs, copies, P
<1>5. \A a \in D : T[a] \subseteq U
  OBVIOUS
<1> HIDE DEF U
<1>6. memory \in W
  BY <1>2, <1>3, <1>5 DEF Holding
<1>7. ASSUME NEW j \in 1 .. P, NEW w \in W PROVE Copied(w, copies[j]) \in W
  <2> DEFINE c == copies[j]
             dst == c.dst
             src == c.src
             len == c.size
  <2>1. dst \in Int /\ src \in Int /\ len \in Int
    <3>1. c \in Copies
      BY <1>1, LenProperties DEF P
    <3> QED BY <3>1 DEF Copies
  <2>2. \A t \in Nat : t < len => SameByte(R, src + t, dst + t)
    BY <1>1 DEF Carrying
  <2>3. Copied(w, c) = [a \in D |-> IF dst <= a /\ a < dst + len THEN w[src + a - dst] ELSE w[a]]
    BY DEF Copied
  <2> HIDE DEF dst, src, len, W
  <2>4. ASSUME NEW a \in D, dst <= a, a < dst + len PROVE src + a - dst \in D
    <3>1. a - dst \in Nat /\ a - dst < len /\ dst + (a - dst) = a /\ src + a - dst = src + (a - dst)
      BY <2>1, <2>4
    <3>2. SameByte(R, src + (a - dst), a)
      BY <2>2, <3>1
    <3>3. PICK x : <<x, src + (a - dst)>> \in R
      BY <3>2 DEF SameByte
    <3> QED BY <3>1, <3>3 DEF Holds
  <2>5. \A a \in D : w[a] \subseteq U
    BY DEF W
  <2> HIDE DEF D
  <2>6. \A a \in D : (IF dst <= a /\ a < dst + len THEN w[src + a - dst] ELSE w[a]) \in SUBSET U
    BY <2>4, <2>5
  <2> QED BY <2>3, <2>6 DEF W
<1>8. PICK after : CopiesBy(W, memory, copies, after)
  <2> HIDE DEF W
  <2> QED BY <1>1, <1>6, <1>7, CopySteps DEF P
<1> HIDE DEF W
<1> DEFINE H(j) == Holding(size, T, runs, copies, j, after[j])
           S == {j \in Nat : j <= P => H(j)}
<1>9. /\ after[0] = memory /\ after[P] = MemoryAfter(plan, data, size)
      /\ \A j \in 1 .. P : after[j] = Copied(after[j - 1], copies[j])
  BY <1>4, <1>8 DEF CopiesBy, P
<1>10. 0 \in S
  <2>1. H(0)
    BY <1>2, <1>9
  <2> HIDE DEF H
  <2> QED BY <2>1
<1>11. ASSUME NEW j \in S PROVE j + 1 \in S
  <2> SUFFICES ASSUME j + 1 <= P PROVE H(j + 1)
    BY <1>11
  <2>1. j \in Nat /\ j + 1 \in 1 .. P /\ (j + 1) - 1 = j /\ H(j)
    BY <1>1, <1>11
  <2>2. after[j + 1] = Copied(after[j], copies[j + 1])
    BY <1>9, <2>1
  <2>3. Carrying(R, runs, copies[j + 1])
    BY <1>1, <2>1
  <2> QED BY <1>1, <2>1, <2>2, <2>3, CopyHolds DEF P
<1>12. S = Nat
  <2>1. S \in SUBSET Nat
    OBVIOUS
  <2> HIDE DEF S
  <2> QED BY <1>10, <1>11, <2>1, AllNat
<1>13. H(P)
  <2>1. P \in S
    <3> HIDE DEF S
    <3> QED BY <1>1, <1>12
  <2> QED BY <1>1, <2>1
<1> HIDE DEF H
<1>14. Holding(size, T, runs, copies, P, MemoryAfter(plan, data, size))
  BY <1>9, <1>13 DEF H
<1>15. \A a : Filling(copies, a) <=> \E c \in 1 .. P : copies[c].dst <= a /\ a < copies[c].dst + copies[c].size
  BY DEF Filling, P
<1> QED BY <1>14, <1>15 DEF Holding, Reaches, runs, copies

-----------------------------------------------------------------------------
(* The search: every selection meets every entry *)

\* What the search finds of one selection of the read in one entry.
HitsFrom(ent, rsel, xbuf) ==
  LET msels == Intersecting(ent.sels, rsel)
  IN  [k \in DOMAIN msels |-> Hit(ent, msels[k], rsel, xbuf)]

\* In an entry of one block it is one hit or nothing.
LEMMA OneIntersecting ==
  ASSUME NEW n \in Nat, NEW sels \in Seq(Sels(n)), Len(sels) = 1, NEW rsel
  PROVE  /\ DOMAIN Intersecting(sels, rsel) = IF Intersect(sels[1], rsel) THEN {1} ELSE {}
         /\ Intersect(sels[1], rsel) => Intersecting(sels, rsel)[1] = sels[1]
<1> DEFINE S == {k \in DOMAIN sels : Intersect(sels[k], rsel)}
           at == InOrder(S, <)
           N == Cardinality(S)
<1>1. DOMAIN sels = {1}
  BY LenProperties
<1>2. S = IF Intersect(sels[1], rsel) THEN {1} ELSE {}
  BY <1>1
<1>3. Intersecting(sels, rsel) = [k \in DOMAIN at |-> sels[at[k]]]
  BY DEF Intersecting
<1> HIDE DEF S
<1>4. IsFiniteSet(S) /\ S \in SUBSET Int
  <2>1. S = {1} \/ S = {}
    BY <1>2
  <2>2. IsFiniteSet({1}) /\ IsFiniteSet({})
    BY FS_EmptySet, FS_Singleton
  <2>3. S \in SUBSET Int
    BY <2>1
  <2>4. IsFiniteSet(S)
    BY <2>1, <2>2, Zenon
  <2> QED BY <2>3, <2>4
<1>5. N = IF Intersect(sels[1], rsel) THEN 1 ELSE 0
  BY <1>2, FS_EmptySet, FS_Singleton
<1>6. Lists(at, S, Less(S))
  BY <1>4, NumbersInOrder
<1>7. at \in [1 .. N -> S]
  BY <1>6 DEF Lists
<1> HIDE DEF at, N
<1>8. CASE Intersect(sels[1], rsel)
  <2>1. DOMAIN at = {1} /\ at[1] = 1
    BY <1>2, <1>5, <1>7, <1>8
  <2> QED BY <1>3, <1>8, <2>1
<1>9. CASE ~Intersect(sels[1], rsel)
  <2>1. DOMAIN at = {}
    BY <1>5, <1>7, <1>9
  <2> QED BY <1>3, <1>9, <2>1
<1> QED BY <1>8, <1>9

\* The same as a list of hits.
AtMostOne(n, entries, e, rsel, xbuf, hits) ==
  /\ hits \in Seq(Found(n, entries)) /\ Len(hits) \in {0, 1}
  /\ Len(hits) = 1 <=> Intersect(entries[e].sels[1], rsel)
  /\ \A k \in 1 .. Len(hits) : hits[k] = Hit(entries[e], entries[e].sels[1], rsel, xbuf)

\* An entry of one block has one hit if the block meets the selection, and none
\* otherwise.
LEMMA OneHit ==
  ASSUME NEW n \in Nat, NEW entries \in Seq(Entries(n)), NEW e \in 1 .. Len(entries),
         Len(entries[e].sels) = 1, NEW rsel \in Sels(n), NEW xbuf \in Nat,
         NEW hits, hits = HitsFrom(entries[e], rsel, xbuf)
  PROVE  AtMostOne(n, entries, e, rsel, xbuf, hits)
<1> DEFINE sels == entries[e].sels
           F == Found(n, entries)
           h == Hit(entries[e], sels[1], rsel, xbuf)
           I == Intersecting(sels, rsel)
<1>1. sels \in Seq(Sels(n)) /\ 1 \in 1 .. Len(sels)
  <2>1. entries[e] \in Entries(n)
    BY ElementOfSeq
  <2> QED BY <2>1 DEF Entries
<1>2. hits = [k \in DOMAIN I |-> Hit(entries[e], I[k], rsel, xbuf)]
  BY DEF HitsFrom
<1>3. /\ DOMAIN I = IF Intersect(sels[1], rsel) THEN {1} ELSE {}
      /\ Intersect(sels[1], rsel) => I[1] = sels[1]
  BY <1>1, OneIntersecting
<1>4. Intersect(sels[1], rsel) => h \in F
  BY <1>1, HitFound
<1> DEFINE N == IF Intersect(sels[1], rsel) THEN 1 ELSE 0
<1>5. hits \in [1 .. N -> F] /\ \A k \in 1 .. N : hits[k] = h
  <2> HIDE DEF I, F, h
  <2>1. CASE Intersect(sels[1], rsel)
    <3>1. DOMAIN hits = {1} /\ hits[1] = Hit(entries[e], sels[1], rsel, xbuf)
      BY <1>2, <1>3, <2>1
    <3>2. hits = [k \in {1} |-> h]
      BY <1>2, <1>3, <2>1, <3>1 DEF h
    <3>3. N = 1 /\ 1 .. N = {1}
      BY <2>1
    <3> HIDE DEF N
    <3> QED BY <1>4, <2>1, <3>2, <3>3
  <2>2. CASE ~Intersect(sels[1], rsel)
    <3>1. N = 0 /\ 1 .. N = {} /\ DOMAIN I = {}
      BY <1>3, <2>2
    <3> HIDE DEF N
    <3> QED BY <1>2, <3>1
  <2> QED BY <2>1, <2>2
<1>6. N \in {0, 1} /\ N \in Nat /\ (N = 1 <=> Intersect(sels[1], rsel))
  OBVIOUS
<1> HIDE DEF N, F, h
<1>7. hits \in Seq(F) /\ Len(hits) = N
  BY <1>5, <1>6, LenProperties
<1> QED BY <1>5, <1>6, <1>7 DEF AtMostOne, F, h

\* The hit of a selection of the read in an entry of one block.
HitOf(entries, rsels, e, i) ==
  Hit(entries[e], entries[e].sels[1], rsels[i], MemoryOf(rsels, i))
Meets(entries, rsels, e, i) == Intersect(entries[e].sels[1], rsels[i])

\* The hits are those of the selections and entries that meet.
FoundBy(entries, rsels, hits) ==
  /\ \A j \in 1 .. Len(hits) : \E i \in 1 .. Len(rsels) : \E e \in 1 .. Len(entries) :
       Meets(entries, rsels, e, i) /\ hits[j] = HitOf(entries, rsels, e, i)
  /\ \A i \in 1 .. Len(rsels) : \A e \in 1 .. Len(entries) :
       Meets(entries, rsels, e, i) => \E j \in 1 .. Len(hits) : hits[j] = HitOf(entries, rsels, e, i)

\* The hits of one selection of the read.
HitsOfSel(entries, rsels, i) ==
  [e \in 1 .. Len(entries) |-> HitsFrom(entries[e], rsels[i], MemoryOf(rsels, i))]
SelFound(entries, rsels, i, hits) ==
  /\ \A j \in 1 .. Len(hits) : \E e \in 1 .. Len(entries) :
       Meets(entries, rsels, e, i) /\ hits[j] = HitOf(entries, rsels, e, i)
  /\ \A e \in 1 .. Len(entries) :
       Meets(entries, rsels, e, i) => \E j \in 1 .. Len(hits) : hits[j] = HitOf(entries, rsels, e, i)
OneBlockEach(entries) == \A e \in 1 .. Len(entries) : Len(entries[e].sels) = 1

\* In each entry there is one of them or none.
SelHits(n, entries, rsels, i, p) ==
  /\ p \in [1 .. Len(entries) -> Seq(Found(n, entries))]
  /\ \A e \in 1 .. Len(entries) :
       /\ Len(p[e]) \in {0, 1} /\ (Len(p[e]) = 1 <=> Meets(entries, rsels, e, i))
       /\ \A k \in 1 .. Len(p[e]) : p[e][k] = HitOf(entries, rsels, e, i)

\* That is what the search finds for a selection of the read.
LEMMA OneSelHits ==
  ASSUME NEW n \in Nat, NEW entries \in Seq(Entries(n)), OneBlockEach(entries),
         NEW rsels \in Seq(Sels(n)), NEW i \in 1 .. Len(rsels)
  PROVE  SelHits(n, entries, rsels, i, HitsOfSel(entries, rsels, i))
<1> DEFINE E == Len(entries)
           p == HitsOfSel(entries, rsels, i)
           W == Seq(Found(n, entries))
           hits(e) == HitsFrom(entries[e], rsels[i], MemoryOf(rsels, i))
<1>1. rsels[i] \in Sels(n) /\ MemoryOf(rsels, i) \in Nat
  BY MemoryPlace, ElementOfSeq
<1>2. p = [e \in 1 .. E |-> hits(e)]
  BY DEF HitsOfSel
<1> HIDE DEF hits, p
<1>3. ASSUME NEW e \in 1 .. E
      PROVE  /\ hits(e) \in W /\ Len(hits(e)) \in {0, 1}
             /\ Len(hits(e)) = 1 <=> Intersect(entries[e].sels[1], rsels[i])
             /\ \A k \in 1 .. Len(hits(e)) :
                  hits(e)[k] = Hit(entries[e], entries[e].sels[1], rsels[i], MemoryOf(rsels, i))
  <2> DEFINE rsel == rsels[i]
             xbuf == MemoryOf(rsels, i)
             found == hits(e)
  <2>1. found = HitsFrom(entries[e], rsel, xbuf) /\ Len(entries[e].sels) = 1
    BY DEF hits, OneBlockEach
  <2>2. rsel \in Sels(n) /\ xbuf \in Nat
    BY <1>1
  <2> HIDE DEF found, rsel, xbuf
  <2>3. AtMostOne(n, entries, e, rsel, xbuf, found)
    BY <2>1, <2>2, OneHit
  <2> QED BY <2>3 DEF AtMostOne, found, rsel, xbuf
<1>4. p \in [1 .. E -> W] /\ \A e \in 1 .. E : p[e] = hits(e)
  <2> HIDE DEF W
  <2>1. \A e \in 1 .. E : hits(e) \in W
    BY <1>3
  <2> HIDE DEF E
  <2> QED BY <1>2, <2>1
<1> QED BY <1>3, <1>4 DEF SelHits, HitOf, Meets, p

\* The hits of one selection of the read are those of the entries it meets.
LEMMA SelSearched ==
  ASSUME NEW n \in Nat, NEW entries \in Seq(Entries(n)),
         NEW rsels, NEW i, NEW p, SelHits(n, entries, rsels, i, p)
  PROVE  /\ FlattenSeq(p) \in Seq(Found(n, entries))
         /\ SelFound(entries, rsels, i, FlattenSeq(p))
<1> DEFINE E == Len(entries)
           flat == FlattenSeq(p)
           F == Found(n, entries)
<1>1. E \in Nat /\ p \in [1 .. E -> Seq(F)]
  BY LenProperties DEF SelHits
<1> HIDE DEF F
<1>2. flat \in Seq(F) /\ Merged(E, p, flat)
  BY <1>1, WholeHas
<1>3. ASSUME NEW j \in 1 .. Len(flat)
      PROVE  \E e \in 1 .. E : Meets(entries, rsels, e, i) /\ flat[j] = HitOf(entries, rsels, e, i)
  <2>1. PICK e \in 1 .. E : \E k \in 1 .. Len(p[e]) : flat[j] = p[e][k]
    BY <1>2 DEF Merged
  <2>2. PICK k \in 1 .. Len(p[e]) : flat[j] = p[e][k]
    BY <2>1
  <2>3. Len(p[e]) \in {0, 1} /\ (Len(p[e]) = 1 <=> Meets(entries, rsels, e, i))
        /\ p[e][k] = HitOf(entries, rsels, e, i)
    BY <2>2 DEF SelHits
  <2>4. Len(p[e]) = 1
    BY <2>3
  <2> QED BY <2>2, <2>3, <2>4
<1>4. ASSUME NEW e \in 1 .. E, Meets(entries, rsels, e, i)
      PROVE  \E j \in 1 .. Len(flat) : flat[j] = HitOf(entries, rsels, e, i)
  <2>1. Len(p[e]) = 1
    BY <1>4 DEF SelHits
  <2>2. 1 \in 1 .. Len(p[e])
    BY <2>1
  <2>3. p[e][1] = HitOf(entries, rsels, e, i)
    BY <2>2 DEF SelHits
  <2>4. \E j \in 1 .. Len(flat) : flat[j] = p[e][1]
    BY <1>2, <2>2 DEF Merged
  <2> QED BY <2>3, <2>4
<1> QED BY <1>2, <1>3, <1>4 DEF SelFound, F

\* The whole search.
LEMMA Searched ==
  ASSUME NEW n \in Nat, NEW entries \in Seq(Entries(n)), OneBlockEach(entries),
         NEW rsels \in Seq(Sels(n))
  PROVE  FoundBy(entries, rsels, Search(entries, rsels))
<1> DEFINE F == Found(n, entries)
           R == Len(rsels)
           E == Len(entries)
           all(i) == FlattenSeq(HitsOfSel(entries, rsels, i))
           outer == [i \in 1 .. R |-> all(i)]
<1>1. DOMAIN entries = 1 .. E /\ DOMAIN rsels = 1 .. R /\ R \in Nat
  BY LenProperties
<1>2. Search(entries, rsels) = FlattenSeq(outer)
  BY <1>1 DEF Search, HitsOfSel, HitsFrom
<1>3. ASSUME NEW i \in 1 .. R
      PROVE  all(i) \in Seq(F) /\ SelFound(entries, rsels, i, all(i))
  BY OneSelHits, SelSearched
<1> HIDE DEF all
<1>4. outer \in [1 .. R -> Seq(F)] /\ \A i \in 1 .. R : outer[i] = all(i)
  <2> DEFINE W == Seq(F)
  <2>1. \A i \in 1 .. R : all(i) \in W
    BY <1>3
  <2> HIDE DEF W, R
  <2>2. outer \in [1 .. R -> W] /\ \A i \in 1 .. R : outer[i] = all(i)
    BY <2>1
  <2> QED BY <2>2 DEF W
<1> DEFINE flat == FlattenSeq(outer)
<1> HIDE DEF outer, F
<1>5. Merged(R, outer, flat)
  BY <1>1, <1>4, WholeHas
<1> HIDE DEF flat
<1>6. ASSUME NEW j \in 1 .. Len(flat)
      PROVE  \E i \in 1 .. R : \E e \in 1 .. E :
               Meets(entries, rsels, e, i) /\ flat[j] = HitOf(entries, rsels, e, i)
  <2>1. PICK i \in 1 .. R : \E k \in 1 .. Len(outer[i]) : flat[j] = outer[i][k]
    BY <1>5 DEF Merged
  <2>2. PICK k \in 1 .. Len(outer[i]) : flat[j] = outer[i][k]
    BY <2>1
  <2>3. k \in 1 .. Len(all(i)) /\ flat[j] = all(i)[k]
    BY <1>4, <2>2
  <2> QED BY <1>3, <2>3 DEF SelFound
<1>7. ASSUME NEW i \in 1 .. R, NEW e \in 1 .. E, Meets(entries, rsels, e, i)
      PROVE  \E j \in 1 .. Len(flat) : flat[j] = HitOf(entries, rsels, e, i)
  <2>1. PICK k \in 1 .. Len(all(i)) : all(i)[k] = HitOf(entries, rsels, e, i)
    BY <1>3, <1>7 DEF SelFound
  <2>2. k \in 1 .. Len(outer[i]) /\ outer[i][k] = HitOf(entries, rsels, e, i)
    BY <1>4, <2>1
  <2>3. \E j \in 1 .. Len(flat) : flat[j] = outer[i][k]
    BY <1>5, <2>2 DEF Merged
  <2> QED BY <2>2, <2>3
<1> QED BY <1>2, <1>6, <1>7 DEF FoundBy, flat

\* Of a read of one block no two hits are in one data block.
LEMMA OneHitEach ==
  ASSUME NEW n \in Nat, NEW entries \in Seq(Entries(n)), OneBlockEach(entries),
         NEW rsels \in Seq(Sels(n)), Len(rsels) = 1,
         \A e, g \in 1 .. Len(entries) :
           /\ Meets(entries, rsels, e, 1) /\ Meets(entries, rsels, g, 1)
           /\ entries[e].foff = entries[g].foff
           => e = g,
         NEW hits, hits = Search(entries, rsels),
         NEW j \in 1 .. Len(hits), NEW l \in 1 .. Len(hits), hits[j].foff = hits[l].foff
  PROVE  j = l
<1> DEFINE F == Found(n, entries)
           E == Len(entries)
           p == HitsOfSel(entries, rsels, 1)
           flat == FlattenSeq(p)
<1>1. DOMAIN entries = 1 .. E /\ E \in Nat /\ DOMAIN rsels = {1} /\ 1 \in 1 .. Len(rsels)
  BY LenProperties
<1>2. SelHits(n, entries, rsels, 1, p)
  BY <1>1, OneSelHits
<1>3. p \in [1 .. E -> Seq(F)] /\ flat \in Seq(F)
  <2>1. p \in [1 .. E -> Seq(F)]
    BY <1>2 DEF SelHits
  <2> HIDE DEF p
  <2>2. flat \in Seq(F)
    BY <1>2, SelSearched
  <2> QED BY <2>1, <2>2 DEF p
<1>4. hits = flat
  <2>1. Search(entries, rsels) = FlattenSeq([i \in {1} |-> FlattenSeq(HitsOfSel(entries, rsels, i))])
    BY <1>1 DEF Search, HitsOfSel, HitsFrom
  <2>2. [i \in {1} |-> FlattenSeq(HitsOfSel(entries, rsels, i))] = <<flat>>
    OBVIOUS
  <2> HIDE DEF flat, F
  <2>3. FlattenSeq(<<flat>>) = flat
    BY <1>3, FlattenOne
  <2> QED BY <2>1, <2>2, <2>3
<1> HIDE DEF p, F
<1>5. p \in Seq(Seq(F)) /\ Len(p) = E
  BY <1>1, <1>3, LenProperties
<1>6. /\ Len(flat) = EndOf(p, Len(p))
      /\ \A g \in 1 .. Len(p) : \A k \in 1 .. Len(p[g]) : flat[EndOf(p, g - 1) + k] = p[g][k]
  BY <1>5, Flatten
<1>7. ASSUME NEW x \in 1 .. Len(flat)
      PROVE  \E g \in 1 .. E : /\ x = EndOf(p, g - 1) + 1 /\ flat[x].foff = entries[g].foff
                              /\ Meets(entries, rsels, g, 1)
  <2>1. PICK g \in 1 .. Len(p) : \E k \in 1 .. Len(p[g]) : x = EndOf(p, g - 1) + k
    BY <1>5, <1>6, PieceOf
  <2>2. PICK k \in 1 .. Len(p[g]) : x = EndOf(p, g - 1) + k
    BY <2>1
  <2>3. Len(p[g]) \in {0, 1} /\ p[g][k] = HitOf(entries, rsels, g, 1)
    BY <1>2, <1>5, <2>2 DEF SelHits
  <2>4. k = 1 /\ Meets(entries, rsels, g, 1)
    <3>1. Len(p[g]) = 1 <=> Meets(entries, rsels, g, 1)
      BY <1>2 DEF SelHits
    <3> QED BY <2>3, <3>1
  <2>5. flat[x] = HitOf(entries, rsels, g, 1)
    BY <1>6, <2>2, <2>3
  <2>6. flat[x].foff = entries[g].foff
    <3>1. \A ent, s, r, m : Hit(ent, s, r, m).foff = ent.foff
      BY DEF Hit
    <3>2. HitOf(entries, rsels, g, 1).foff = entries[g].foff
      BY <3>1 DEF HitOf
    <3> HIDE DEF flat
    <3> QED BY <2>5, <3>2
  <2> QED BY <1>5, <2>2, <2>4, <2>6
<1>8. j \in 1 .. Len(flat) /\ l \in 1 .. Len(flat) /\ flat[j].foff = flat[l].foff
  BY <1>4
<1> HIDE DEF flat
<1>9. PICK g \in 1 .. E : /\ j = EndOf(p, g - 1) + 1 /\ flat[j].foff = entries[g].foff
                          /\ Meets(entries, rsels, g, 1)
  BY <1>7, <1>8
<1>10. PICK h \in 1 .. E : /\ l = EndOf(p, h - 1) + 1 /\ flat[l].foff = entries[h].foff
                           /\ Meets(entries, rsels, h, 1)
  BY <1>7, <1>8
<1>11. g = h
  BY <1>8, <1>9, <1>10
<1> QED BY <1>9, <1>10, <1>11

-----------------------------------------------------------------------------
(* The elements that a hit is of *)

\* An element of a hit: where it is in the hit, in the data block, and in the read.
IsCell(n, s, r, h, at, c) ==
  /\ at \in InHit(n, h) /\ c \in BoxOfSel(n, s) /\ c \in BoxOfSel(n, r)
  /\ Shifted(h.dstart, at) = Offset(s, c) /\ Shifted(h.mstart, at) = Offset(r, c)

\* One dimension of two selections: what they share.
Share(s, r, i, from, size) ==
  /\ s.start[i] \in Nat /\ r.start[i] \in Nat /\ s.count[i] \in Nat /\ r.count[i] \in Nat
  /\ from \in Nat /\ size \in Int
  /\ s.start[i] <= from /\ r.start[i] <= from
  /\ from = s.start[i] \/ from = r.start[i]
  /\ \A x \in Int : x < from + size <=> /\ x < s.start[i] + s.count[i]
                                        /\ x < r.start[i] + r.count[i]

\* Where the later of the two starts, up to where the one that ends first does.
LEMMA Shared ==
  ASSUME NEW n \in Nat, NEW s \in Sels(n), NEW r \in Sels(n), NEW i \in 1 .. n,
         NEW from, from = IF s.start[i] < r.start[i] THEN r.start[i] ELSE s.start[i]
  PROVE  Share(s, r, i, from, Overlap(s, r, i))
<1> DEFINE a == s.start[i]
           b == r.start[i]
           p == s.count[i]
           q == r.count[i]
<1>1. a \in Nat /\ b \in Nat /\ p \in Nat /\ q \in Nat
  BY LenProperties DEF Sels, Coordinates
<1>2. Overlap(s, r, i) = (IF a + p < b + q THEN a + p ELSE b + q) - (IF a < b THEN b ELSE a)
  BY DEF Overlap
<1>3. from = IF a < b THEN b ELSE a
  OBVIOUS
<1> DEFINE size == Overlap(s, r, i)
<1> HIDE DEF a, b, p, q, size
<1>4. from \in Nat /\ size \in Int /\ a <= from /\ b <= from /\ (from = a \/ from = b)
  BY <1>1, <1>2, <1>3 DEF size
<1>5. from + size = IF a + p < b + q THEN a + p ELSE b + q
  BY <1>1, <1>2, <1>3 DEF size
<1>6. \A x \in Int : x < from + size <=> x < a + p /\ x < b + q
  BY <1>1, <1>5
<1> QED BY <1>1, <1>4, <1>6 DEF Share, a, b, p, q, size

\* The fields of a hit, which starts where the later of the two does.
StartsAt(n, s, r, h, from) ==
  /\ from \in [1 .. n -> Nat]
  /\ \A i \in 1 .. n : Share(s, r, i, from[i], h.count[i])
  /\ h.dstart = [i \in 1 .. n |-> from[i] - s.start[i]]
  /\ h.mstart = [i \in 1 .. n |-> from[i] - r.start[i]]

\* So are the fields of the hit that H5VL_logi_array_idx_t::search makes.
LEMMA HitFields ==
  ASSUME NEW n \in Nat, NEW s \in Sels(n), NEW r \in Sels(n), NEW ent, NEW xbuf,
         NEW h, h = Hit(ent, s, r, xbuf)
  PROVE  \E from : StartsAt(n, s, r, h, from)
<1> DEFINE from == [i \in 1 .. n |-> IF s.start[i] < r.start[i] THEN r.start[i] ELSE s.start[i]]
<1>1. DOMAIN r.start = 1 .. n
  BY LenProperties DEF Sels, Coordinates
<1>2. /\ h.dstart = [i \in 1 .. n |-> from[i] - s.start[i]]
      /\ h.mstart = [i \in 1 .. n |-> from[i] - r.start[i]]
      /\ h.count = [i \in 1 .. n |-> Overlap(s, r, i)]
  BY <1>1 DEF Hit
<1>3. ASSUME NEW i \in 1 .. n PROVE Share(s, r, i, from[i], h.count[i]) /\ from[i] \in Nat
  <2>1. Share(s, r, i, from[i], Overlap(s, r, i))
    BY Shared
  <2>2. h.count[i] = Overlap(s, r, i)
    BY <1>2
  <2> HIDE DEF from
  <2> QED BY <2>1, <2>2 DEF Share
<1>4. from \in [1 .. n -> Nat]
  <2>1. from = [i \in 1 .. n |-> from[i]]
    OBVIOUS
  <2> HIDE DEF from
  <2> QED BY <1>3, <2>1
<1> HIDE DEF from
<1> QED BY <1>2, <1>3, <1>4 DEF StartsAt

\* Every place in a hit is one of an element.
LEMMA HitCell ==
  ASSUME NEW n \in Nat \ {0}, NEW s \in Sels(n), NEW r \in Sels(n), NEW ent, NEW xbuf,
         NEW h, h = Hit(ent, s, r, xbuf), NEW at \in InHit(n, h)
  PROVE  \E c : IsCell(n, s, r, h, at, c)
<1>0. PICK from : StartsAt(n, s, r, h, from)
  BY HitFields
<1>1. /\ from \in [1 .. n -> Nat]
      /\ \A i \in 1 .. n : Share(s, r, i, from[i], h.count[i])
      /\ h.dstart = [i \in 1 .. n |-> from[i] - s.start[i]]
      /\ h.mstart = [i \in 1 .. n |-> from[i] - r.start[i]]
  BY <1>0 DEF StartsAt
<1>2. at \in [1 .. n -> Nat] /\ \A i \in 1 .. n : at[i] < h.count[i]
  BY DEF InHit
<1> DEFINE c == [i \in 1 .. n |-> from[i] + at[i]]
<1>3. ASSUME NEW i \in 1 .. n
      PROVE  /\ c[i] \in Int /\ s.start[i] <= c[i] /\ c[i] < s.start[i] + s.count[i]
             /\ r.start[i] <= c[i] /\ c[i] < r.start[i] + r.count[i]
             /\ h.dstart[i] + at[i] = c[i] - s.start[i]
             /\ h.mstart[i] + at[i] = c[i] - r.start[i]
  <2> DEFINE f == from[i]
             t == at[i]
             k == h.count[i]
             x == s.start[i]
             y == r.start[i]
  <2>1. /\ x \in Nat /\ y \in Nat /\ f \in Nat /\ k \in Int /\ x <= f /\ y <= f
        /\ \A z \in Int : z < f + k <=> z < x + s.count[i] /\ z < y + r.count[i]
    BY <1>1 DEF Share
  <2>2. t \in Nat /\ t < k
    BY <1>2
  <2>3. c[i] = f + t /\ h.dstart[i] = f - x /\ h.mstart[i] = f - y
    BY <1>1
  <2> HIDE DEF f, t, k, x, y, c
  <2>4. f + t \in Int /\ f + t < f + k /\ x <= f + t /\ y <= f + t
    BY <2>1, <2>2
  <2>5. f + t < x + s.count[i] /\ f + t < y + r.count[i]
    BY <2>1, <2>4
  <2>6. (f - x) + t = (f + t) - x /\ (f - y) + t = (f + t) - y
    BY <2>1, <2>2
  <2>7. h.dstart[i] + t = c[i] - x /\ h.mstart[i] + t = c[i] - y
    BY <2>3, <2>6
  <2> QED BY <2>3, <2>4, <2>5, <2>7 DEF t, x, y
<1>4. DOMAIN c = 1 .. n /\ DOMAIN h.dstart = 1 .. n /\ DOMAIN h.mstart = 1 .. n
  BY <1>1
<1>5. c \in Vectors(n)
  <2>1. c = [i \in 1 .. n |-> c[i]]
    OBVIOUS
  <2> HIDE DEF c
  <2> QED BY <1>3, <2>1 DEF Vectors
<1> HIDE DEF c
<1>6. c \in BoxOfSel(n, s) /\ c \in BoxOfSel(n, r)
  BY <1>3, <1>5 DEF BoxOfSel, Cuboid
<1>7. Shifted(h.dstart, at) = Offset(s, c) /\ Shifted(h.mstart, at) = Offset(r, c)
  BY <1>3, <1>4 DEF Shifted, Offset
<1> QED BY <1>6, <1>7 DEF IsCell

\* An element of both selections is at a place of their hit.
LEMMA CellHit ==
  ASSUME NEW n \in Nat \ {0}, NEW s \in Sels(n), NEW r \in Sels(n), NEW ent, NEW xbuf,
         NEW h, h = Hit(ent, s, r, xbuf), NEW c, c \in BoxOfSel(n, s), c \in BoxOfSel(n, r)
  PROVE  Intersect(s, r) /\ \E at : IsCell(n, s, r, h, at, c)
<1>0. PICK from : StartsAt(n, s, r, h, from)
  BY HitFields
<1>1. /\ from \in [1 .. n -> Nat]
      /\ \A i \in 1 .. n : Share(s, r, i, from[i], h.count[i])
      /\ h.dstart = [i \in 1 .. n |-> from[i] - s.start[i]]
      /\ h.mstart = [i \in 1 .. n |-> from[i] - r.start[i]]
  BY <1>0 DEF StartsAt
<1>2. /\ c \in [1 .. n -> Int]
      /\ \A i \in 1 .. n : /\ s.start[i] <= c[i] /\ c[i] < s.start[i] + s.count[i]
                           /\ r.start[i] <= c[i] /\ c[i] < r.start[i] + r.count[i]
  BY DEF BoxOfSel, Cuboid, Vectors
<1> DEFINE at == [i \in 1 .. n |-> c[i] - from[i]]
<1>3. ASSUME NEW i \in 1 .. n
      PROVE  /\ at[i] \in Nat /\ at[i] < h.count[i] /\ h.count[i] # 0
             /\ h.dstart[i] + at[i] = c[i] - s.start[i]
             /\ h.mstart[i] + at[i] = c[i] - r.start[i]
  <2> DEFINE f == from[i]
             v == c[i]
             k == h.count[i]
             x == s.start[i]
             y == r.start[i]
  <2>1. /\ x \in Nat /\ y \in Nat /\ f \in Nat /\ k \in Int /\ (f = x \/ f = y)
        /\ \A z \in Int : z < f + k <=> z < x + s.count[i] /\ z < y + r.count[i]
    BY <1>1 DEF Share
  <2>2. v \in Int /\ x <= v /\ v < x + s.count[i] /\ y <= v /\ v < y + r.count[i]
    BY <1>2
  <2>3. at[i] = v - f /\ h.dstart[i] = f - x /\ h.mstart[i] = f - y
    BY <1>1
  <2> HIDE DEF f, v, k, x, y, at
  <2>4. v < f + k /\ f <= v
    BY <2>1, <2>2
  <2>5. v - f \in Nat /\ v - f < k /\ k # 0
    BY <2>1, <2>2, <2>4
  <2>6. (f - x) + (v - f) = v - x /\ (f - y) + (v - f) = v - y
    BY <2>1, <2>2
  <2> QED BY <2>3, <2>5, <2>6 DEF v, k, x, y
<1>4. DOMAIN c = 1 .. n /\ DOMAIN h.dstart = 1 .. n /\ DOMAIN h.mstart = 1 .. n
  BY <1>1, <1>2
<1>5. at \in [1 .. n -> Nat]
  <2>1. at = [i \in 1 .. n |-> at[i]]
    OBVIOUS
  <2> HIDE DEF at
  <2> QED BY <1>3, <2>1
<1> HIDE DEF at
<1>6. at \in InHit(n, h)
  BY <1>3, <1>5 DEF InHit
<1>7. Shifted(h.dstart, at) = Offset(s, c) /\ Shifted(h.mstart, at) = Offset(r, c)
  BY <1>3, <1>4 DEF Shifted, Offset
<1>8. Intersect(s, r)
  <2>1. DOMAIN s.start = 1 .. n /\ DOMAIN r.start = 1 .. n
    BY LenProperties DEF Sels, Coordinates
  <2>2. h.count = [i \in 1 .. n |-> Overlap(s, r, i)]
    BY <2>1 DEF Hit
  <2> QED BY <1>3, <2>1, <2>2 DEF Intersect
<1>9. IsCell(n, s, r, h, at, c)
  BY <1>6, <1>7 DEF IsCell
<1> QED BY <1>8, <1>9

\* The place of an element in a block.
PlaceIn(sel, c) == Linear(sel.count, Offset(sel, c))

\* Byte b of element c is byte x of the file, in the block of entry e, and byte a of
\* the memory of the read, which asks for it with selection i.
Links(n, width, entries, rsels, x, a, e, i, c, b) ==
  /\ e \in 1 .. Len(entries) /\ i \in 1 .. Len(rsels) /\ b \in 0 .. width - 1
  /\ c \in BoxOfSel(n, entries[e].sels[1]) /\ c \in BoxOfSel(n, rsels[i])
  /\ x = entries[e].foff + (width * PlaceIn(entries[e].sels[1], c) + b)
  /\ a = width * (Ahead(rsels, i) + PlaceIn(rsels[i], c)) + b
Link(n, width, entries, rsels) ==
  {p \in Nat \X Nat : \E e, i, c, b : Links(n, width, entries, rsels, p[1], p[2], e, i, c, b)}

\* A read of single bytes, or one whose memory starts at the only selection.
Bytewise(width, rsels) == width = 1 \/ Len(rsels) = 1

\* The selections of an entry and of the read, and their places.
LEMMA LinkedParts ==
  ASSUME NEW n \in Nat \ {0}, NEW width \in Nat \ {0},
         NEW entries \in Seq(Entries(n)), OneBlockEach(entries), NEW rsels \in Seq(Sels(n)),
         Bytewise(width, rsels), NEW e \in 1 .. Len(entries), NEW i \in 1 .. Len(rsels)
  PROVE  /\ entries[e].sels[1] \in Sels(n) /\ rsels[i] \in Sels(n)
         /\ entries[e].foff \in Nat /\ Ahead(rsels, i) \in Nat
         /\ width * Ahead(rsels, i) = Ahead(rsels, i)
<1>1. entries[e] \in Entries(n) /\ Len(entries[e].sels) = 1 /\ rsels[i] \in Sels(n)
  BY ElementOfSeq DEF OneBlockEach
<1>2. entries[e].foff \in Nat /\ entries[e].sels \in Seq(Sels(n))
  BY <1>1 DEF Entries
<1>3. entries[e].sels[1] \in Sels(n)
  <2>1. 1 \in 1 .. Len(entries[e].sels)
    BY <1>1
  <2> QED BY <1>2, <2>1, ElementOfSeq
<1>4. MemoryOf(rsels, i) = Ahead(rsels, i)
  BY DEF MemoryOf, Ahead
<1>5. Ahead(rsels, i) \in Nat
  BY <1>4, MemoryPlace
<1>6. CASE width = 1
  BY <1>1, <1>2, <1>3, <1>5, <1>6
<1>7. CASE width # 1
  <2>1. Len(rsels) = 1
    BY <1>7 DEF Bytewise
  <2>2. i = 1
    BY <2>1
  <2>3. SubSeq(rsels, 1, 0) = <<>>
    BY EmptySeq
  <2>4. Ahead(rsels, i) = SelSize(<<>>)
    <3>1. 1 - 1 = 0
      OBVIOUS
    <3> QED BY <2>2, <2>3, <3>1 DEF Ahead
  <2>5. SelSize(<<>>) = 0
    <3> DEFINE f == [j \in DOMAIN <<>> |-> Volume(<<>>[j].count)]
    <3>1. DOMAIN f = {} /\ SelSize(<<>>) = SumFunctionOnSet(f, DOMAIN f)
      BY DEF SelSize, SumFunction
    <3> HIDE DEF f
    <3> QED BY <3>1, SumEmpty
  <2> QED BY <1>1, <1>2, <1>3, <2>4, <2>5
<1> QED BY <1>6, <1>7

\* The bytes of an element of a hit.
LEMMA CellBytes ==
  ASSUME NEW n \in Nat \ {0}, NEW width \in Nat \ {0},
         NEW entries \in Seq(Entries(n)), OneBlockEach(entries), NEW rsels \in Seq(Sels(n)),
         Bytewise(width, rsels), NEW e \in 1 .. Len(entries), NEW i \in 1 .. Len(rsels),
         NEW h, h = HitOf(entries, rsels, e, i), NEW at, NEW c,
         IsCell(n, entries[e].sels[1], rsels[i], h, at, c), NEW b \in 0 .. width - 1
  PROVE  /\ FileAt(h, width, at) + b \in Nat /\ MemoryAt(h, width, at) + b \in Nat
         /\ Links(n, width, entries, rsels,
                  FileAt(h, width, at) + b, MemoryAt(h, width, at) + b, e, i, c, b)
<1> DEFINE s == entries[e].sels[1]
           r == rsels[i]
           p == PlaceIn(s, c)
           q == PlaceIn(r, c)
           foff == entries[e].foff
           ahead == Ahead(rsels, i)
<1>1. s \in Sels(n) /\ r \in Sels(n) /\ foff \in Nat /\ ahead \in Nat /\ width * ahead = ahead
  BY LinkedParts
<1>2. /\ c \in BoxOfSel(n, s) /\ c \in BoxOfSel(n, r)
      /\ Shifted(h.dstart, at) = Offset(s, c) /\ Shifted(h.mstart, at) = Offset(r, c)
  BY DEF IsCell
<1>3. h.dsize = s.count /\ h.msize = r.count /\ h.foff = foff /\ h.xbuf = ahead
  BY DEF HitOf, Hit, MemoryOf, Ahead
<1>4. p \in Nat /\ q \in Nat
  BY <1>1, <1>2, OffsetInside DEF PlaceIn
<1>5. FileAt(h, width, at) = foff + width * p /\ MemoryAt(h, width, at) = ahead + width * q
  BY <1>2, <1>3 DEF FileAt, MemoryAt, PlaceIn
<1>6. width * (ahead + q) = width * ahead + width * q /\ width * p \in Nat /\ width * q \in Nat
  <2>1. \A x, y, z \in Nat : x * (y + z) = x * y + x * z /\ x * y \in Nat
    OBVIOUS
  <2> HIDE DEF ahead, q, p
  <2> QED BY <1>1, <1>4, <2>1
<1> DEFINE P == width * p
           Q == width * q
           A == width * (ahead + q)
<1>7. P \in Nat /\ Q \in Nat /\ A = ahead + Q /\ b \in Nat
  BY <1>1, <1>6
<1>8. FileAt(h, width, at) = foff + P /\ MemoryAt(h, width, at) = ahead + Q
  BY <1>5
<1> HIDE DEF P, Q, A, s, r, p, q, foff, ahead
<1>9. /\ FileAt(h, width, at) + b = foff + (P + b) /\ MemoryAt(h, width, at) + b = A + b
      /\ FileAt(h, width, at) + b \in Nat /\ MemoryAt(h, width, at) + b \in Nat
  BY <1>1, <1>7, <1>8
<1> QED BY <1>2, <1>9 DEF Links, P, A, s, r, p, q, foff, ahead

\* A hit carries the bytes the link relates.
LEMMA HitCarries ==
  ASSUME NEW n \in Nat \ {0}, NEW width \in Nat \ {0},
         NEW entries \in Seq(Entries(n)), OneBlockEach(entries), NEW rsels \in Seq(Sels(n)),
         Bytewise(width, rsels), NEW e \in 1 .. Len(entries), NEW i \in 1 .. Len(rsels),
         NEW h, h = HitOf(entries, rsels, e, i)
  PROVE  Carries(n, width, h, Link(n, width, entries, rsels))
<1>1. SUFFICES ASSUME NEW at \in InHit(n, h), NEW b \in 0 .. width - 1
               PROVE  <<FileAt(h, width, at) + b, MemoryAt(h, width, at) + b>>
                        \in Link(n, width, entries, rsels)
  BY DEF Carries
<1>2. entries[e].sels[1] \in Sels(n) /\ rsels[i] \in Sels(n)
  BY LinkedParts
<1>3. h = Hit(entries[e], entries[e].sels[1], rsels[i], MemoryOf(rsels, i))
  BY DEF HitOf
<1>4. PICK c : IsCell(n, entries[e].sels[1], rsels[i], h, at, c)
  BY <1>2, <1>3, HitCell
<1>5. /\ FileAt(h, width, at) + b \in Nat /\ MemoryAt(h, width, at) + b \in Nat
      /\ Links(n, width, entries, rsels,
               FileAt(h, width, at) + b, MemoryAt(h, width, at) + b, e, i, c, b)
  BY <1>4, CellBytes
<1> DEFINE x == FileAt(h, width, at) + b
           a == MemoryAt(h, width, at) + b
<1>6. x \in Nat /\ a \in Nat /\ Links(n, width, entries, rsels, x, a, e, i, c, b)
  BY <1>5
<1> HIDE DEF x, a
<1>7. <<x, a>> \in Link(n, width, entries, rsels)
  BY <1>6 DEF Link
<1> QED BY <1>7 DEF x, a

\* What the link relates is in a hit.
LEMMA LinkInHit ==
  ASSUME NEW n \in Nat \ {0}, NEW width \in Nat \ {0},
         NEW entries \in Seq(Entries(n)), OneBlockEach(entries), NEW rsels \in Seq(Sels(n)),
         Bytewise(width, rsels),
         NEW x, NEW a, NEW e, NEW i, NEW c, NEW b, Links(n, width, entries, rsels, x, a, e, i, c, b)
  PROVE  /\ Meets(entries, rsels, e, i)
         /\ \E at \in InHit(n, HitOf(entries, rsels, e, i)) :
              a = MemoryAt(HitOf(entries, rsels, e, i), width, at) + b
<1> DEFINE h == HitOf(entries, rsels, e, i)
<1>1. /\ e \in 1 .. Len(entries) /\ i \in 1 .. Len(rsels) /\ b \in 0 .. width - 1
      /\ c \in BoxOfSel(n, entries[e].sels[1]) /\ c \in BoxOfSel(n, rsels[i])
      /\ a = width * (Ahead(rsels, i) + PlaceIn(rsels[i], c)) + b
  BY DEF Links
<1>2. entries[e].sels[1] \in Sels(n) /\ rsels[i] \in Sels(n)
  BY <1>1, LinkedParts
<1>3. h = Hit(entries[e], entries[e].sels[1], rsels[i], MemoryOf(rsels, i))
  BY DEF HitOf
<1>4. /\ Intersect(entries[e].sels[1], rsels[i])
      /\ \E at : IsCell(n, entries[e].sels[1], rsels[i], h, at, c)
  BY <1>1, <1>2, <1>3, CellHit
<1>5. PICK at : IsCell(n, entries[e].sels[1], rsels[i], h, at, c)
  BY <1>4
<1>6. Links(n, width, entries, rsels,
            FileAt(h, width, at) + b, MemoryAt(h, width, at) + b, e, i, c, b)
  BY <1>1, <1>5, CellBytes
<1>7. MemoryAt(h, width, at) + b = width * (Ahead(rsels, i) + PlaceIn(rsels[i], c)) + b
  BY <1>6 DEF Links
<1>8. at \in InHit(n, h)
  BY <1>5 DEF IsCell
<1> QED BY <1>1, <1>4, <1>7, <1>8 DEF Meets

-----------------------------------------------------------------------------
(* The link of the bytes of the file and of memory *)

\* The element of which a byte of the memory of the read is.
CellAt(width, rsels, a) == FlattenSeq(Pieces(rsels))[a \div width + 1]

\* Where what the link relates is in memory and in the file.
LEMMA LinkedMemory ==
  ASSUME NEW n \in Nat \ {0}, NEW width \in Nat \ {0}, NEW entries, NEW rsels \in Seq(Sels(n)),
         NEW x, NEW a, NEW e, NEW i, NEW c, NEW b, Links(n, width, entries, rsels, x, a, e, i, c, b)
  PROVE  /\ SelSize(rsels) \in Nat /\ a \in 0 .. SelSize(rsels) * width - 1
         /\ CellAt(width, rsels, a) = c /\ a % width = b
<1> DEFINE k == Ahead(rsels, i) + PlaceIn(rsels[i], c)
           N == SelSize(rsels)
<1>1. /\ i \in 1 .. Len(rsels) /\ b \in 0 .. width - 1 /\ c \in BoxOfSel(n, rsels[i])
      /\ a = width * k + b
  BY DEF Links
<1>2. N \in Nat /\ k \in 0 .. N - 1 /\ FlattenSeq(Pieces(rsels))[k + 1] = c
  <2> DEFINE j == Ahead(rsels, i) + Linear(rsels[i].count, Offset(rsels[i], c))
  <2>1. N \in Nat /\ j \in 0 .. N - 1 /\ FlattenSeq(Pieces(rsels))[j + 1] = c
    <3>1. n \in Nat \ {0} /\ rsels \in Seq(Sels(n)) /\ i \in 1 .. Len(rsels)
          /\ c \in BoxOfSel(n, rsels[i])
      BY <1>1
    <3>2. /\ SelSize(rsels) \in Nat
          /\ \A y \in 1 .. Len(rsels) : \A d \in BoxOfSel(n, rsels[y]) :
               LET z == Ahead(rsels, y) + Linear(rsels[y].count, Offset(rsels[y], d))
               IN  /\ z \in 0 .. SelSize(rsels) - 1
                   /\ FlattenSeq(Pieces(rsels))[z + 1] = d
      BY ElementPlaces
    <3> QED BY <3>1, <3>2
  <2>2. j = k
    BY DEF PlaceIn
  <2> HIDE DEF j, k
  <2> QED BY <2>1, <2>2
<1> HIDE DEF k, N
<1>3. k \in Nat /\ width * k = k * width
  BY <1>2
<1>4. a = k * width + b
  BY <1>1, <1>3
<1>5. a \div width = k /\ a % width = b
  <2>1. (k * width + b) \div width = k /\ (k * width + b) % width = b
    BY <1>1, <1>3, DivMod
  <2> QED BY <1>4, <2>1
<1>6. a \in 0 .. N * width - 1
  BY <1>1, <1>2, <1>4, ByteInside
<1> QED BY <1>2, <1>5, <1>6 DEF CellAt, N

\* A linked byte of the file is in the data block of its entry.
LEMMA LinkedFile ==
  ASSUME NEW n \in Nat \ {0}, NEW width \in Nat \ {0},
         NEW entries \in Seq(Entries(n)), OneBlockEach(entries), NEW rsels,
         NEW x, NEW a, NEW e, NEW i, NEW c, NEW b, Links(n, width, entries, rsels, x, a, e, i, c, b)
  PROVE  /\ entries[e].foff \in Nat /\ entries[e].sels[1] \in Sels(n)
         /\ PlaceIn(entries[e].sels[1], c) \in 0 .. SelSize(entries[e].sels) - 1
         /\ x = entries[e].foff + (PlaceIn(entries[e].sels[1], c) * width + b)
         /\ PlaceIn(entries[e].sels[1], c) * width + b \in 0 .. width * SelSize(entries[e].sels) - 1
         /\ width * SelSize(entries[e].sels) \in Nat
<1> DEFINE s == entries[e].sels[1]
           p == PlaceIn(s, c)
           N == SelSize(entries[e].sels)
<1>1. /\ e \in 1 .. Len(entries) /\ b \in 0 .. width - 1 /\ c \in BoxOfSel(n, s)
      /\ x = entries[e].foff + (width * p + b)
  BY DEF Links
<1>2. entries[e].foff \in Nat /\ s \in Sels(n) /\ N = Volume(s.count)
  <2>1. entries[e] \in Entries(n) /\ Len(entries[e].sels) = 1
    BY <1>1, ElementOfSeq DEF OneBlockEach
  <2>2. entries[e].foff \in Nat /\ entries[e].sels \in Seq(Sels(n)) /\ 1 \in 1 .. Len(entries[e].sels)
    BY <2>1 DEF Entries
  <2>3. s \in Sels(n)
    BY <2>2, ElementOfSeq
  <2> QED BY <2>1, <2>2, <2>3, SizeOfOne
<1>3. N \in Nat /\ p \in 0 .. N - 1
  BY <1>1, <1>2, OffsetInside DEF PlaceIn
<1> HIDE DEF s, p, N
<1>4. p * width + b \in 0 .. N * width - 1 /\ N * width = width * N /\ width * N \in Nat
      /\ width * p = p * width
  BY <1>1, <1>3, ByteInside
<1> QED BY <1>1, <1>2, <1>3, <1>4 DEF s, p, N

\* A byte of the file is one byte of one element of one entry.
LEMMA LinkOneByte ==
  ASSUME NEW n \in Nat \ {0}, NEW width \in Nat \ {0}, NEW entries, Chained(n, entries, width),
         OneBlockEach(entries), NEW rsels, NEW x,
         NEW a, NEW e, NEW i, NEW c, NEW b, Links(n, width, entries, rsels, x, a, e, i, c, b),
         NEW aa, NEW ee, NEW ii, NEW cc, NEW bb,
         Links(n, width, entries, rsels, x, aa, ee, ii, cc, bb)
  PROVE  e = ee /\ c = cc /\ b = bb
<1> DEFINE foff(g) == entries[g].foff
           size(g) == width * SelSize(entries[g].sels)
           p == PlaceIn(entries[e].sels[1], c)
           q == PlaceIn(entries[ee].sels[1], cc)
           P == p * width + b
           Q == q * width + bb
<1>0. entries \in Seq(Entries(n)) /\ e \in 1 .. Len(entries) /\ ee \in 1 .. Len(entries)
      /\ b \in 0 .. width - 1 /\ bb \in 0 .. width - 1
  BY DEF Chained, Links
<1>1. foff(e) \in Nat /\ size(e) \in Nat /\ P \in 0 .. size(e) - 1 /\ x = foff(e) + P
  BY <1>0, LinkedFile
<1>2. foff(ee) \in Nat /\ size(ee) \in Nat /\ Q \in 0 .. size(ee) - 1 /\ x = foff(ee) + Q
  BY <1>0, LinkedFile
<1>3. \A g, h \in 1 .. Len(entries) : g < h => foff(g) + size(g) <= foff(h)
  BY EntriesApart
<1>4. p \in Nat /\ q \in Nat
  <2>1. /\ p \in 0 .. SelSize(entries[e].sels) - 1
        /\ q \in 0 .. SelSize(entries[ee].sels) - 1
    BY <1>0, LinkedFile
  <2> HIDE DEF p, q
  <2> QED BY <2>1
<1>5. e = ee
  <2> HIDE DEF foff, size, P, Q
  <2>1. e < ee => foff(e) + size(e) <= foff(ee)
    BY <1>0, <1>3
  <2>2. ee < e => foff(ee) + size(ee) <= foff(e)
    BY <1>0, <1>3
  <2>3. ~(e < ee)
    BY <1>1, <1>2, <2>1
  <2>4. ~(ee < e)
    BY <1>1, <1>2, <2>2
  <2> QED BY <1>0, <2>3, <2>4
<1>6. P = Q
  <2> HIDE DEF P, Q
  <2>1. foff(e) = foff(ee)
    BY <1>5
  <2> HIDE DEF foff, size
  <2> QED BY <1>1, <1>2, <2>1
<1>7. p = q /\ b = bb
  <2>1. P \div width = p /\ P % width = b
    BY <1>0, <1>4, DivMod
  <2>2. Q \div width = q /\ Q % width = bb
    BY <1>0, <1>4, DivMod
  <2> HIDE DEF P, Q, p, q
  <2> QED BY <1>6, <2>1, <2>2
<1>8. c = cc
  <2> DEFINE s == entries[e].sels[1]
  <2>1. s \in Sels(n)
    BY <1>0, LinkedFile
  <2>2. c \in BoxOfSel(n, s) /\ cc \in BoxOfSel(n, s)
    BY <1>5 DEF Links
  <2>3. p = Linear(s.count, Offset(s, c)) /\ q = Linear(s.count, Offset(s, cc))
    BY <1>5 DEF PlaceIn
  <2>4. CellsOf(s)[p + 1] = c /\ CellsOf(s)[q + 1] = cc
    <3> HIDE DEF p, q, s
    <3>1. CellsOf(s)[Linear(s.count, Offset(s, c)) + 1] = c
      BY <2>1, <2>2, CellPlaces
    <3>2. CellsOf(s)[Linear(s.count, Offset(s, cc)) + 1] = cc
      BY <2>1, <2>2, CellPlaces
    <3> QED BY <2>3, <3>1, <3>2
  <2> HIDE DEF p, q, s
  <2> QED BY <1>7, <2>4
<1> QED BY <1>5, <1>7, <1>8

\* The elements of the writes, and the bytes put at a byte of an element.
ElemsOf == [e \in DOMAIN written |-> Elements(written[e].space, dims)]
StoredAs(c, b) ==
  {[write |-> p[1], elem |-> p[2], byte |-> b] :
     p \in UNION {{e} \X {k \in DOMAIN ElemsOf[e] : ElemsOf[e][k] = c} : e \in DOMAIN ElemsOf}}

\* These are the bytes of the writes of that element, if there is one.
LEMMA StoredHas ==
  ASSUME NEW c, NEW b
  PROVE  /\ \A e \in DOMAIN written : \A k \in DOMAIN ElemsOf[e] :
              ElemsOf[e][k] = c => ByteOf(e, k, b) \in StoredAs(c, b)
         /\ StoredAs(c, b) # {} =>
              \E e \in DOMAIN written : \E k \in DOMAIN ElemsOf[e] : ElemsOf[e][k] = c
<1> DEFINE P(e) == {e} \X {k \in DOMAIN ElemsOf[e] : ElemsOf[e][k] = c}
           U == UNION {P(e) : e \in DOMAIN ElemsOf}
<1>1. DOMAIN ElemsOf = DOMAIN written
  BY DEF ElemsOf
<1>2. StoredAs(c, b) = {[write |-> p[1], elem |-> p[2], byte |-> b] : p \in U}
  BY DEF StoredAs
<1>3. ASSUME NEW e \in DOMAIN written, NEW k \in DOMAIN ElemsOf[e], ElemsOf[e][k] = c
      PROVE  ByteOf(e, k, b) \in StoredAs(c, b)
  <2>1. <<e, k>> \in P(e)
    BY <1>3
  <2>2. <<e, k>> \in U
    <3> HIDE DEF P
    <3> QED BY <1>1, <2>1
  <2> HIDE DEF U
  <2>3. [write |-> e, elem |-> k, byte |-> b] \in StoredAs(c, b)
    BY <1>2, <2>2
  <2> QED BY <2>3 DEF ByteOf
<1>4. ASSUME StoredAs(c, b) # {}
      PROVE  \E e \in DOMAIN written : \E k \in DOMAIN ElemsOf[e] : ElemsOf[e][k] = c
  <2>1. PICK p : p \in U
    <3> HIDE DEF U
    <3> QED BY <1>2, <1>4
  <2>2. PICK e \in DOMAIN ElemsOf : p \in P(e)
    <3> HIDE DEF P
    <3> QED BY <2>1
  <2>3. p[2] \in DOMAIN ElemsOf[e] /\ ElemsOf[e][p[2]] = c
    BY <2>2
  <2> QED BY <1>1, <2>2, <2>3
<1> QED BY <1>3, <1>4

\* The elements of a write of one block are the elements of its entry.
LEMMA EntryElements ==
  ASSUME Data, NEW e \in DOMAIN index, OneBlock(written[e].space)
  PROVE  /\ Len(dims) \in Nat \ {0} /\ e \in 1 .. Len(index) /\ e \in DOMAIN written
         /\ Len(index[e].sels) = 1 /\ index[e].sels[1] \in Sels(Len(dims))
         /\ ElemsOf[e] = CellsOf(index[e].sels[1])
         /\ DOMAIN ElemsOf[e] = 1 .. SelSize(index[e].sels)
         /\ SelSize(index[e].sels) = Volume(index[e].sels[1].count)
<1> DEFINE n == Len(dims)
           ds == written[e].space
           sels == index[e].sels
           s == sels[1]
<1>1. /\ IInv /\ ds \in Of(Spaces) /\ sels = ArraysOf(ds, dims) /\ Len(sels) = 1
  BY DEF Data, Recorded, IInv, Singles
<1>2. /\ dims \in Extents /\ Len(written) = Len(index) /\ written \in Seq(Range(written))
      /\ index \in Seq(Entries(n))
  BY <1>1 DEF IInv, TypeOK
<1>3. Fits(ds, dims) /\ dims \in Seq(Nat \ {0}) /\ n \in Nat /\ dims # <<>>
  BY <1>1, <1>2, SpacesFit, Parameters
<1>4. n \in Nat \ {0}
  BY <1>3, EmptySeq
<1>5. e \in 1 .. Len(index) /\ e \in DOMAIN written
  BY <1>2, LenProperties
<1>6. sels \in Seq(Sels(n)) /\ s \in Sels(n)
  <2>1. sels \in Seq(Sels(n))
    BY <1>1, <1>3, ArraysShape
  <2>2. 1 \in 1 .. Len(sels)
    BY <1>1
  <2> HIDE DEF sels
  <2> QED BY <2>1, <2>2, ElementOfSeq
<1>7. ElemsOf[e] = Elements(ds, dims)
  BY <1>5 DEF ElemsOf
<1>8. Elements(ds, dims) = FlattenSeq(Pieces(sels))
  <2>1. Plain(ds)
    BY OneBlockIsPlain
  <2>2. Elements(ds, dims) = FlattenSeq(Pieces(ArraysOf(ds, dims)))
    BY <1>3, <1>4, <2>1, ElementsAreCells
  <2> QED BY <1>1, <2>2
<1>9. Pieces(sels) = <<CellsOf(s)>>
  <2>1. DOMAIN sels = {1}
    BY <1>1, <1>6, LenProperties
  <2>2. Pieces(sels) = [i \in {1} |-> CellsOf(sels[i])]
    BY <2>1 DEF Pieces
  <2>3. [i \in {1} |-> CellsOf(sels[i])] = <<CellsOf(s)>>
    OBVIOUS
  <2> QED BY <2>2, <2>3
<1>10. CellsOf(s) \in [1 .. Volume(s.count) -> BoxOfSel(n, s)] /\ Volume(s.count) \in Nat
  BY <1>4, <1>6, CellPlaces
<1>11. FlattenSeq(<<CellsOf(s)>>) = CellsOf(s)
  <2> DEFINE cells == CellsOf(s)
             V == BoxOfSel(n, s)
  <2>1. cells \in Seq(V)
    BY <1>10, LenProperties
  <2> HIDE DEF cells, V
  <2>2. FlattenSeq(<<cells>>) = cells
    BY <2>1, FlattenOne
  <2> QED BY <2>2 DEF cells
<1>12. SelSize(sels) = Volume(s.count)
  BY <1>1, <1>4, <1>6, SizeOfOne
<1>13. ElemsOf[e] = CellsOf(s) /\ DOMAIN ElemsOf[e] = 1 .. SelSize(sels)
  <2>1. ElemsOf[e] = CellsOf(s)
    BY <1>7, <1>8, <1>9, <1>11
  <2>2. DOMAIN CellsOf(s) = 1 .. Volume(s.count)
    BY <1>10
  <2> QED BY <1>12, <2>1, <2>2
<1> QED BY <1>1, <1>4, <1>5, <1>6, <1>12, <1>13

\* Entries of which hits lie inside are different ones if they start apart.
LEMMA MeetingApart ==
  ASSUME NEW n \in Nat \ {0}, NEW width \in Nat \ {0}, NEW entries, Chained(n, entries, width),
         OneBlockEach(entries), NEW rsels,
         NEW e \in 1 .. Len(entries), NEW i, Inside(n, HitOf(entries, rsels, e, i)),
         NEW g \in 1 .. Len(entries), NEW j, Inside(n, HitOf(entries, rsels, g, j)),
         entries[e].foff = entries[g].foff
  PROVE  e = g
<1> DEFINE foff(k) == entries[k].foff
           size(k) == width * SelSize(entries[k].sels)
<1>1. ASSUME NEW k \in 1 .. Len(entries), NEW l, Inside(n, HitOf(entries, rsels, k, l))
      PROVE  foff(k) \in Nat /\ size(k) \in Nat \ {0}
  <2>1. entries[k] \in Entries(n) /\ Len(entries[k].sels) = 1
    BY ElementOfSeq DEF Chained, OneBlockEach
  <2>2. entries[k].sels \in Seq(Sels(n)) /\ foff(k) \in Nat
    BY <2>1 DEF Entries
  <2>3. SelSize(entries[k].sels) = Volume(entries[k].sels[1].count)
    BY <2>1, <2>2, SizeOfOne
  <2>4. HitOf(entries, rsels, k, l).dsize = entries[k].sels[1].count
    BY DEF HitOf, Hit
  <2>5. width * Volume(HitOf(entries, rsels, k, l).dsize) \in Nat \ {0}
    BY <1>1, BlockHasBytes
  <2> QED BY <2>2, <2>3, <2>4, <2>5
<1>2. foff(e) \in Nat /\ size(e) \in Nat \ {0} /\ foff(g) \in Nat /\ size(g) \in Nat \ {0}
  BY <1>1
<1>3. \A k, l \in 1 .. Len(entries) : k < l => foff(k) + size(k) <= foff(l)
  BY EntriesApart
<1>4. foff(e) = foff(g)
  OBVIOUS
<1> HIDE DEF foff, size
<1>5. ~(e < g) /\ ~(g < e)
  <2>1. e < g => foff(e) + size(e) <= foff(g)
    BY <1>3
  <2>2. g < e => foff(g) + size(g) <= foff(e)
    BY <1>3
  <2> QED BY <1>2, <1>4, <2>1, <2>2
<1> QED BY <1>5

\* Hits in one data block of which neither is nested in the other are in step.
LEMMA NotNested ==
  ASSUME NEW g, NEW h, Len(dims) \in Nat \ {0}, Inside(Len(dims), g), Inside(Len(dims), h),
         g.foff = h.foff, g.dsize = h.dsize, ~Nested(g, h)
  PROVE  InStep(Len(dims), g, h)
<1> DEFINE n == Len(dims)
<1>1. SUFFICES ASSUME NEW at \in InHit(n, g), NEW bt \in InHit(n, h),
                      \A i \in 1 .. n - 1 : g.dstart[i] + at[i] = h.dstart[i] + bt[i],
                      g.dstart[n] <= h.dstart[n], h.dstart[n] < g.dstart[n] + g.count[n]
               PROVE  g.dstart[n] + g.count[n] <= h.dstart[n] + h.count[n]
  BY DEF InStep
<1>2. ASSUME NEW k, Inside(n, k)
      PROVE  /\ k.dstart \in [1 .. n -> Nat] /\ k.count \in [1 .. n -> Nat] /\ k.count[n] # 0
  <2>1. /\ k.dstart \in [1 .. n -> Int] /\ k.count \in [1 .. n -> Int]
        /\ \A i \in 1 .. n : 0 <= k.dstart[i] /\ 0 < k.count[i]
    BY <1>2 DEF Inside, Hits
  <2>2. k.dstart = [i \in 1 .. n |-> k.dstart[i]] /\ k.count = [i \in 1 .. n |-> k.count[i]]
    BY <2>1
  <2>3. \A i \in 1 .. n : k.dstart[i] \in Nat /\ k.count[i] \in Nat
    BY <2>1
  <2>4. n \in 1 .. n
    OBVIOUS
  <2> HIDE DEF n
  <2> QED BY <2>1, <2>2, <2>3, <2>4
<1>3. RowsIn(g.dstart, g.count) = Cuboid(n - 1, g.dstart, g.count)
  BY <1>2, RowsInIs
<1>4. RowsIn(h.dstart, h.count) = Cuboid(n - 1, h.dstart, h.count)
  BY <1>2, RowsInIs
<1> DEFINE row == [i \in 1 .. n - 1 |-> g.dstart[i] + at[i]]
<1>5. ASSUME NEW i \in 1 .. n - 1
      PROVE  /\ row[i] \in Int /\ g.dstart[i] <= row[i] /\ row[i] < g.dstart[i] + g.count[i]
             /\ h.dstart[i] <= row[i] /\ row[i] < h.dstart[i] + h.count[i]
  <2>1. i \in 1 .. n
    OBVIOUS
  <2>2. g.dstart[i] \in Nat /\ g.count[i] \in Nat /\ h.dstart[i] \in Nat /\ h.count[i] \in Nat
    BY <1>2, <2>1
  <2>3. at[i] \in Nat /\ at[i] < g.count[i] /\ bt[i] \in Nat /\ bt[i] < h.count[i]
    BY <2>1 DEF InHit
  <2>4. row[i] = g.dstart[i] + at[i] /\ row[i] = h.dstart[i] + bt[i]
    BY <1>1
  <2> DEFINE gd == g.dstart[i]
             gc == g.count[i]
             hd == h.dstart[i]
             hc == h.count[i]
             x == at[i]
             y == bt[i]
             z == row[i]
  <2>5. /\ gd \in Nat /\ gc \in Nat /\ hd \in Nat /\ hc \in Nat
        /\ x \in Nat /\ x < gc /\ y \in Nat /\ y < hc
        /\ z = gd + x /\ z = hd + y
    BY <2>2, <2>3, <2>4
  <2> HIDE DEF gd, gc, hd, hc, x, y, z
  <2>6. z \in Int /\ gd <= z /\ z < gd + gc /\ hd <= z /\ z < hd + hc
    BY <2>5
  <2> QED BY <2>6 DEF gd, gc, hd, hc, z
<1>6. row \in Vectors(n - 1)
  <2>1. row = [i \in 1 .. n - 1 |-> row[i]]
    OBVIOUS
  <2> HIDE DEF row
  <2> QED BY <1>5, <2>1 DEF Vectors
<1> HIDE DEF row
<1>7. row \in RowsIn(g.dstart, g.count) \cap RowsIn(h.dstart, h.count)
  BY <1>3, <1>4, <1>5, <1>6 DEF Cuboid
<1>8. ~(h.dstart[n] + h.count[n] < g.dstart[n] + g.count[n])
  BY <1>1, <1>7 DEF Nested
<1>9. h.dstart[n] + h.count[n] \in Int /\ g.dstart[n] + g.count[n] \in Int
  <2>1. n \in 1 .. n
    OBVIOUS
  <2> QED BY <1>2, <2>1
<1> QED BY <1>8, <1>9

AllFaithful == \A w \in ToSet(written) : Faithful(w)

\* The index after faithful writes.
LEMMA FaithfulIndex ==
  ASSUME Data, AllFaithful
  PROVE  /\ Len(dims) \in Nat \ {0} /\ esize \in Nat \ {0} /\ dims \in Extents
         /\ dims \in Seq(Nat \ {0})
         /\ index \in Seq(Entries(Len(dims))) /\ Chained(Len(dims), index, esize) /\ OneBlockEach(index)
         /\ DOMAIN index = 1 .. Len(index) /\ DOMAIN written = DOMAIN index
         /\ \A e \in DOMAIN index : Faithful(written[e]) /\ OneBlock(written[e].space)
<1>1. /\ dims \in Extents /\ esize \in ESizes /\ Len(written) = Len(index)
      /\ written \in Seq(Range(written)) /\ index \in Seq(Entries(Len(dims))) /\ Singles
      /\ \A g \in DOMAIN index : index[g].foff + esize * SelSize(index[g].sels)
                             = IF g = Len(index) THEN Len(bytes) ELSE index[g + 1].foff
  BY DEF Data, IInv, TypeOK
<1>2. esize \in Nat \ {0} /\ dims \in Seq(Nat \ {0}) /\ dims # <<>>
  BY <1>1, Parameters
<1>3. Len(dims) \in Nat \ {0}
  BY <1>2, EmptySeq, LenProperties
<1>4. DOMAIN index = 1 .. Len(index) /\ DOMAIN written = DOMAIN index
  BY <1>1, LenProperties
<1>5. \A e \in DOMAIN index : Faithful(written[e])
  BY <1>4 DEF AllFaithful, ToSet
<1>6. \A e \in DOMAIN index : OneBlock(written[e].space)
  BY <1>5 DEF Faithful
<1>7. OneBlockEach(index)
  BY <1>1, <1>4, <1>6 DEF OneBlockEach, Singles
<1>8. Chained(Len(dims), index, esize)
  BY <1>1, <1>4 DEF Chained
<1> QED BY <1>1, <1>2, <1>3, <1>4, <1>5, <1>6, <1>7, <1>8

\* What a byte of memory may hold after a read.
MayHold(rsels) ==
  [a \in 0 .. SelSize(rsels) * esize - 1 |-> StoredAs(CellAt(esize, rsels, a), a % esize)]

\* The byte of the file to which a byte of memory is linked has been put there for it.
LEMMA LinkStored ==
  ASSUME Data, AllFaithful, NEW rsels \in Seq(Sels(Len(dims))), NEW x \in Nat, NEW a, NEW e, NEW i,
         NEW c, NEW b, Links(Len(dims), esize, index, rsels, x, a, e, i, c, b)
  PROVE  /\ a \in 0 .. SelSize(rsels) * esize - 1
         /\ MayHold(rsels)[a] = StoredAs(c, b) /\ bytes[x + 1] \in StoredAs(c, b)
<1> DEFINE n == Len(dims)
           s == index[e].sels[1]
           p == PlaceIn(s, c)
           N == SelSize(index[e].sels)
<1>1. /\ n \in Nat \ {0} /\ esize \in Nat \ {0} /\ index \in Seq(Entries(n)) /\ OneBlockEach(index)
      /\ DOMAIN index = 1 .. Len(index)
      /\ \A g \in DOMAIN index : Faithful(written[g]) /\ OneBlock(written[g].space)
  BY FaithfulIndex
<1>2. /\ a \in 0 .. SelSize(rsels) * esize - 1 /\ CellAt(esize, rsels, a) = c /\ a % esize = b
  BY <1>1, LinkedMemory
<1>3. MayHold(rsels)[a] = StoredAs(c, b)
  BY <1>2 DEF MayHold
<1>4. /\ e \in DOMAIN index /\ b \in 0 .. esize - 1 /\ c \in BoxOfSel(n, s)
  BY <1>1 DEF Links
<1>5. p \in 0 .. N - 1 /\ x = index[e].foff + (p * esize + b) /\ index[e].foff \in Nat
  BY <1>1, LinkedFile
<1>6. /\ e \in DOMAIN written /\ s \in Sels(n) /\ ElemsOf[e] = CellsOf(s)
      /\ DOMAIN ElemsOf[e] = 1 .. N /\ N = Volume(s.count)
  BY <1>1, <1>4, EntryElements
<1>7. N \in Nat
  BY <1>1, <1>6, CellPlaces
<1>8. CellsOf(s)[p + 1] = c
  BY <1>1, <1>4, <1>6, CellPlaces DEF PlaceIn
<1> HIDE DEF p, N, s
<1>9. p + 1 \in 1 .. N /\ (p + 1) - 1 = p
  BY <1>5, <1>7
<1>10. ByteOf(e, p + 1, b) \in StoredAs(c, b)
  BY <1>6, <1>8, <1>9, StoredHas
<1>11. bytes[index[e].foff + (((p + 1) - 1) * esize + b) + 1] = ByteOf(e, p + 1, b)
  <2> DEFINE k == p + 1
  <2>1. Stored /\ Faithful(written[e])
    BY <1>1, <1>4 DEF Data
  <2>2. k \in 1 .. SelSize(index[e].sels)
    BY <1>9 DEF N
  <2> HIDE DEF k
  <2>3. bytes[index[e].foff + ((k - 1) * esize + b) + 1] = ByteOf(e, k, b)
    BY <1>4, <2>1, <2>2 DEF Stored
  <2> QED BY <2>3 DEF k
<1>12. bytes[x + 1] = ByteOf(e, p + 1, b)
  BY <1>5, <1>9, <1>11
<1> QED BY <1>2, <1>3, <1>10, <1>12

\* A link holds what was put there.
LEMMA LinkHolds ==
  ASSUME Data, AllFaithful, NEW rsels \in Seq(Sels(Len(dims)))
  PROVE  Holds(Link(Len(dims), esize, index, rsels), SelSize(rsels) * esize, bytes, MayHold(rsels))
<1> DEFINE n == Len(dims)
           R == Link(n, esize, index, rsels)
           size == SelSize(rsels) * esize
           T == MayHold(rsels)
<1>1. n \in Nat \ {0} /\ esize \in Nat \ {0} /\ Chained(n, index, esize) /\ OneBlockEach(index)
  BY FaithfulIndex
<1>2. ASSUME NEW x, NEW a, <<x, a>> \in R
      PROVE  /\ x \in Nat
             /\ \E e, i, c, b : Links(n, esize, index, rsels, x, a, e, i, c, b)
  BY <1>2 DEF Link
<1> HIDE DEF R
<1>3. ASSUME NEW x, NEW a, <<x, a>> \in R
      PROVE  a \in 0 .. size - 1 /\ x \in Nat /\ bytes[x + 1] \in T[a]
  <2>1. PICK e, i, c, b : Links(n, esize, index, rsels, x, a, e, i, c, b)
    BY <1>2, <1>3
  <2>2. x \in Nat
    BY <1>2, <1>3
  <2>3. a \in 0 .. size - 1 /\ T[a] = StoredAs(c, b) /\ bytes[x + 1] \in StoredAs(c, b)
    BY <2>1, <2>2, LinkStored
  <2> QED BY <2>2, <2>3
<1>4. ASSUME NEW x, NEW a, NEW aa, <<x, a>> \in R, <<x, aa>> \in R
      PROVE  T[a] = T[aa]
  <2>1. PICK e, i, c, b : Links(n, esize, index, rsels, x, a, e, i, c, b)
    BY <1>2, <1>4
  <2>2. PICK ee, ii, cc, bb : Links(n, esize, index, rsels, x, aa, ee, ii, cc, bb)
    BY <1>2, <1>4
  <2>3. x \in Nat
    BY <1>2, <1>4
  <2>4. c = cc /\ b = bb
    BY <1>1, <2>1, <2>2, LinkOneByte
  <2>5. T[a] = StoredAs(c, b) /\ T[aa] = StoredAs(cc, bb)
    BY <2>1, <2>2, <2>3, LinkStored
  <2> QED BY <2>4, <2>5
<1> QED BY <1>3, <1>4 DEF Holds, R

-----------------------------------------------------------------------------
(* Reading what was written *)

\* A read of which the property speaks.
Reading ==
  /\ call.op = "read" /\ call.plan.outcome = "ok" /\ Readable(call.space)
  /\ \A g, h \in ToSet(call.hits) : ~Nested(g, h)

\* What it asks for.
LEMMA ReadingIs ==
  ASSUME Data, AllFaithful, Reading
  PROVE  /\ call.sels \in Seq(Sels(Len(dims))) /\ Bytewise(esize, call.sels)
         /\ call.hits = Search(index, call.sels) /\ call.plan = PlanOf(call.hits, esize)
         /\ call.memory = MemoryAfter(call.plan, bytes, esize * SelSize(call.sels))
         /\ Elements(call.space, dims) = FlattenSeq(Pieces(call.sels))
<1> DEFINE n == Len(dims)
           ds == call.space
<1>1. /\ ds \in Of(Spaces)
      /\ \E nsel \in NselOf(ds, dims) : call.sels = Translate(ds, dims, nsel)
      /\ call.hits = Search(index, call.sels)
      /\ call.plan = IF call.sels = <<>> THEN NoPlan ELSE PlanOf(call.hits, esize)
      /\ call.memory = IF call.plan.outcome # "ok" THEN <<>>
                       ELSE MemoryAfter(call.plan, bytes, esize * SelSize(call.sels))
  BY DEF Data, Fetched, Reading
<1>2. call.plan.outcome = "ok" /\ Readable(ds)
  BY DEF Reading
<1>3. call.sels # <<>> /\ call.plan = PlanOf(call.hits, esize)
  BY <1>1, <1>2 DEF NoPlan
<1>4. /\ n \in Nat \ {0} /\ esize \in Nat \ {0} /\ dims \in Extents /\ dims \in Seq(Nat \ {0})
  BY FaithfulIndex
<1>5. PICK nsel \in NselOf(ds, dims) : call.sels = Translate(ds, dims, nsel)
  BY <1>1
<1>6. Plain(ds) /\ ~Multiple(ds)
  <2>1. CASE OneBlock(ds)
    BY <2>1, OneBlockIsPlain
  <2>2. CASE ~OneBlock(ds)
    BY <1>2, <2>2 DEF Readable, Plain, Multiple
  <2> QED BY <2>1, <2>2
<1>7. Fits(ds, dims) /\ ArraysOf(ds, dims) \in Seq(Sels(n))
  <2>1. Fits(ds, dims)
    BY <1>1, <1>4, SpacesFit
  <2> QED BY <1>4, <2>1, ArraysShape
<1>8. call.sels = ArraysOf(ds, dims)
  <2>1. nsel = Len(ArraysOf(ds, dims))
    BY <1>6 DEF NselOf
  <2>2. Translate(ds, dims, nsel) = ArraysOf(ds, dims)
    BY <1>4, <1>6, <1>7, <2>1, WholeTranslated
  <2> QED BY <1>5, <2>2
<1>9. Bytewise(esize, call.sels)
  <2>1. CASE OneBlock(ds)
    <3>1. Len(Translate(ds, dims, nsel)) = 1
      BY <1>1, <1>4, <2>1, OneTranslated
    <3> QED BY <1>5, <3>1 DEF Bytewise
  <2>2. CASE ~OneBlock(ds)
    BY <1>2, <2>2 DEF Readable, Bytewise
  <2> QED BY <2>1, <2>2
<1>10. Elements(ds, dims) = FlattenSeq(Pieces(call.sels))
  <2>1. Elements(ds, dims) = FlattenSeq(Pieces(ArraysOf(ds, dims)))
    BY <1>4, <1>6, <1>7, ElementsAreCells
  <2> QED BY <1>8, <2>1
<1>11. call.memory = MemoryAfter(call.plan, bytes, esize * SelSize(call.sels))
  BY <1>1, <1>2
<1> QED BY <1>1, <1>3, <1>7, <1>8, <1>9, <1>10, <1>11

\* The data block of a hit.
LEMMA HitBlock ==
  ASSUME NEW entries, NEW rsels, NEW e, NEW i
  PROVE  /\ HitOf(entries, rsels, e, i).foff = entries[e].foff
         /\ HitOf(entries, rsels, e, i).dsize = entries[e].sels[1].count
BY DEF HitOf, Hit

\* Its hits.
LEMMA ReadingHits ==
  ASSUME Data, AllFaithful, Reading
  PROVE  /\ Len(call.hits) \in Nat /\ call.hits \in [1 .. Len(call.hits) -> Hits(Len(dims))]
         /\ \A j \in 1 .. Len(call.hits) : Inside(Len(dims), call.hits[j])
         /\ FoundBy(index, call.sels, call.hits)
         /\ Tame(Len(dims), esize, Len(call.hits), call.hits)
<1> DEFINE n == Len(dims)
           rsels == call.sels
           hits == call.hits
           N == Len(hits)
<1>1. /\ n \in Nat \ {0} /\ esize \in Nat \ {0} /\ index \in Seq(Entries(n))
      /\ Chained(n, index, esize) /\ OneBlockEach(index)
  BY FaithfulIndex
<1>2. /\ rsels \in Seq(Sels(n)) /\ Bytewise(esize, rsels)
      /\ hits = Search(index, rsels) /\ call.plan = PlanOf(hits, esize)
  BY ReadingIs
<1>3. FoundBy(index, rsels, hits)
  BY <1>1, <1>2, Searched
<1>4. N \in Nat /\ hits \in [1 .. N -> Found(n, index)]
  <2>1. hits \in Seq(Found(n, index))
    BY <1>1, <1>2, SearchFinds
  <2> QED BY <2>1, LenProperties
<1>5. hits \in [1 .. N -> Hits(n)]
  <2>1. Found(n, index) \subseteq Hits(n)
    BY DEF Found
  <2> HIDE DEF hits, N
  <2> QED BY <1>4, <2>1
<1>6. PlanOutcome(HitGroups(SortHits(hits))) = "ok"
  <2>1. PlanOf(hits, esize).outcome = "ok"
    BY <1>2 DEF Reading
  <2> HIDE DEF hits
  <2> QED BY <2>1 DEF PlanOf
<1>7. ASSUME NEW j \in 1 .. N PROVE Inside(n, hits[j])
  <2>1. ~Gap(hits[j])
    BY <1>1, <1>4, <1>5, <1>6, NoGaps
  <2>2. hits[j] \in Found(n, index)
    BY <1>4
  <2> HIDE DEF hits
  <2> QED BY <1>1, <2>1, <2>2, FoundInside
<1>8. ASSUME NEW j \in 1 .. N, NEW e \in 1 .. Len(index), NEW i, hits[j] = HitOf(index, rsels, e, i),
             NEW l \in 1 .. N, NEW g \in 1 .. Len(index), NEW k, hits[l] = HitOf(index, rsels, g, k),
             hits[j].foff = hits[l].foff
      PROVE  e = g
  <2>1. hits[j].foff = index[e].foff /\ hits[l].foff = index[g].foff
    BY <1>8, HitBlock
  <2>2. Inside(n, HitOf(index, rsels, e, i)) /\ Inside(n, HitOf(index, rsels, g, k))
    BY <1>7, <1>8
  <2>3. index[e].foff = index[g].foff
    BY <1>8, <2>1
  <2> QED BY <1>1, <2>2, <2>3, MeetingApart
<1>9. ASSUME esize = 1 PROVE Tame(n, esize, N, hits)
  <2>1. ASSUME NEW j \in 1 .. N, NEW l \in 1 .. N, hits[j].foff = hits[l].foff
        PROVE  InStep(n, hits[j], hits[l])
    <3>1. PICK i \in 1 .. Len(rsels), e \in 1 .. Len(index) : hits[j] = HitOf(index, rsels, e, i)
      BY <1>3 DEF FoundBy
    <3>2. PICK k \in 1 .. Len(rsels), g \in 1 .. Len(index) : hits[l] = HitOf(index, rsels, g, k)
      BY <1>3 DEF FoundBy
    <3>3. e = g
      BY <1>8, <2>1, <3>1, <3>2
    <3>4. hits[j].dsize = index[e].sels[1].count /\ hits[l].dsize = index[g].sels[1].count
      BY <3>1, <3>2, HitBlock
    <3>5. hits[j] \in ToSet(hits) /\ hits[l] \in ToSet(hits)
      BY <1>4 DEF ToSet
    <3>6. ~Nested(hits[j], hits[l])
      BY <3>5 DEF Reading
    <3>7. hits[j].dsize = hits[l].dsize
      BY <3>3, <3>4
    <3>8. Inside(n, hits[j]) /\ Inside(n, hits[l])
      BY <1>7
    <3> QED BY <1>1, <2>1, <3>6, <3>7, <3>8, NotNested
  <2>2. \A j, l \in 1 .. N : hits[j].foff = hits[l].foff => InStep(n, hits[j], hits[l])
    BY <2>1
  <2> HIDE DEF hits, N, n
  <2> QED BY <1>9, <2>2 DEF Tame
<1>10. ASSUME esize # 1 PROVE Tame(n, esize, N, hits)
  <2>1. Len(rsels) = 1
    BY <1>2, <1>10 DEF Bytewise
  <2>2. ASSUME NEW e \in 1 .. Len(index), NEW g \in 1 .. Len(index),
               Meets(index, rsels, e, 1), Meets(index, rsels, g, 1), index[e].foff = index[g].foff
        PROVE  e = g
    <3>1. 1 \in 1 .. Len(rsels)
      BY <2>1
    <3>2. PICK j \in 1 .. N : hits[j] = HitOf(index, rsels, e, 1)
      BY <1>3, <2>2, <3>1 DEF FoundBy
    <3>3. PICK l \in 1 .. N : hits[l] = HitOf(index, rsels, g, 1)
      BY <1>3, <2>2, <3>1 DEF FoundBy
    <3>4. hits[j].foff = hits[l].foff
      BY <2>2, <3>2, <3>3, HitBlock
    <3> QED BY <1>8, <3>2, <3>3, <3>4
  <2>3. \A j, l \in 1 .. N : hits[j].foff = hits[l].foff => j = l
    BY <1>1, <1>2, <2>1, <2>2, OneHitEach
  <2> HIDE DEF hits, N, n
  <2> QED BY <2>3 DEF Tame
<1> QED BY <1>3, <1>4, <1>5, <1>7, <1>9, <1>10

\* The plan of a read brings what the link relates, all of it.
LEMMA ReadingDelivers ==
  ASSUME Data, AllFaithful, Reading
  PROVE  LET R == Link(Len(dims), esize, index, call.sels)
         IN  /\ Delivers(R, call.plan)
             /\ \A x, a, e, i, c, b :
                  Links(Len(dims), esize, index, call.sels, x, a, e, i, c, b) => Reaches(call.plan, a)
<1> DEFINE n == Len(dims)
           rsels == call.sels
           hits == call.hits
           plan == call.plan
           N == Len(hits)
           R == Link(n, esize, index, rsels)
<1>1. /\ n \in Nat \ {0} /\ esize \in Nat \ {0} /\ index \in Seq(Entries(n)) /\ OneBlockEach(index)
  BY FaithfulIndex
<1>2. /\ rsels \in Seq(Sels(n)) /\ Bytewise(esize, rsels) /\ plan = PlanOf(hits, esize)
  BY ReadingIs
<1>3. /\ N \in Nat /\ hits \in [1 .. N -> Hits(n)] /\ \A j \in 1 .. N : Inside(n, hits[j])
      /\ FoundBy(index, rsels, hits) /\ Tame(n, esize, N, hits)
  BY ReadingHits
<1>4. PlanOf(hits, esize).outcome = "ok"
  BY <1>2 DEF Reading
<1>5. ASSUME NEW j \in 1 .. N PROVE Carries(n, esize, hits[j], R)
  <2>1. PICK i \in 1 .. Len(rsels), e \in 1 .. Len(index) : hits[j] = HitOf(index, rsels, e, i)
    BY <1>3 DEF FoundBy
  <2> QED BY <1>1, <1>2, <2>1, HitCarries
<1> HIDE DEF n, rsels, hits, plan, N, R
<1>6. /\ Delivers(R, PlanOf(hits, esize))
      /\ \A j \in 1 .. N : \A at \in InHit(n, hits[j]), b \in 0 .. esize - 1 :
           Reaches(PlanOf(hits, esize), MemoryAt(hits[j], esize, at) + b)
  BY <1>1, <1>3, <1>4, <1>5, PlanDelivers
<1>7. ASSUME NEW x, NEW a, NEW e, NEW i, NEW c, NEW b, Links(n, esize, index, rsels, x, a, e, i, c, b)
      PROVE  Reaches(plan, a)
  <2>1. /\ Meets(index, rsels, e, i)
        /\ \E at \in InHit(n, HitOf(index, rsels, e, i)) :
             a = MemoryAt(HitOf(index, rsels, e, i), esize, at) + b
    BY <1>1, <1>2, <1>7, LinkInHit
  <2>2. e \in 1 .. Len(index) /\ i \in 1 .. Len(rsels) /\ b \in 0 .. esize - 1
    BY <1>7 DEF Links
  <2>3. PICK j \in 1 .. N : hits[j] = HitOf(index, rsels, e, i)
    BY <1>3, <2>1, <2>2 DEF FoundBy, N
  <2>4. PICK at \in InHit(n, hits[j]) : a = MemoryAt(hits[j], esize, at) + b
    BY <2>1, <2>3
  <2> QED BY <1>2, <1>6, <2>2, <2>4
<1> QED BY <1>2, <1>6, <1>7 DEF n, rsels, plan, R

\* The memory after a read.
LEMMA ReadingMemory ==
  ASSUME Data, AllFaithful, Reading, NEW a \in 0 .. SelSize(call.sels) * esize - 1
  PROVE  /\ call.memory[a] \subseteq MayHold(call.sels)[a]
         /\ \A x, e, i, c, b :
              Links(Len(dims), esize, index, call.sels, x, a, e, i, c, b) => call.memory[a] # {}
<1> DEFINE n == Len(dims)
           rsels == call.sels
           plan == call.plan
           size == SelSize(rsels) * esize
           R == Link(n, esize, index, rsels)
           T == MayHold(rsels)
<1>1. n \in Nat \ {0} /\ esize \in Nat \ {0}
  BY FaithfulIndex
<1>2. rsels \in Seq(Sels(n)) /\ call.memory = MemoryAfter(plan, bytes, esize * SelSize(rsels))
  BY ReadingIs
<1>3. SelSize(rsels) \in Nat
  BY <1>1, <1>2, SelSizeType
<1>4. size \in Nat /\ size = esize * SelSize(rsels)
  BY <1>1, <1>3
<1>5. Delivers(R, plan)
  BY ReadingDelivers
<1>6. \A x, e, i, c, b : Links(n, esize, index, rsels, x, a, e, i, c, b) => Reaches(plan, a)
  BY ReadingDelivers
<1>7. Holds(R, size, bytes, T)
  BY <1>2, LinkHolds
<1>8. a \in 0 .. size - 1 /\ call.memory = MemoryAfter(plan, bytes, size)
  BY <1>2, <1>4
<1> HIDE DEF n, rsels, plan, size, R, T
<1>9. /\ MemoryAfter(plan, bytes, size)[a] \subseteq T[a]
      /\ Reaches(plan, a) => MemoryAfter(plan, bytes, size)[a] # {}
  <2>1. size \in Nat
    BY <1>4
  <2>2. \A d \in 0 .. size - 1 :
          /\ MemoryAfter(plan, bytes, size)[d] \subseteq T[d]
          /\ Reaches(plan, d) => MemoryAfter(plan, bytes, size)[d] # {}
    BY <1>5, <1>7, <2>1, MemoryDelivered
  <2> QED BY <1>8, <2>2
<1> QED BY <1>6, <1>8, <1>9 DEF n, rsels, T

\* An element that has been written and is read is linked.
LEMMA WrittenLinked ==
  ASSUME Data, AllFaithful, Reading, NEW k \in 1 .. SelSize(call.sels), NEW b \in 0 .. esize - 1,
         StoredAs(FlattenSeq(Pieces(call.sels))[k], b) # {}
  PROVE  \E x, e, i, c : Links(Len(dims), esize, index, call.sels, x, (k - 1) * esize + b, e, i, c, b)
<1> DEFINE n == Len(dims)
           rsels == call.sels
           c == FlattenSeq(Pieces(rsels))[k]
<1>1. /\ n \in Nat \ {0} /\ esize \in Nat \ {0}
      /\ DOMAIN index = 1 .. Len(index) /\ DOMAIN written = DOMAIN index
      /\ \A e \in DOMAIN index : OneBlock(written[e].space)
  BY FaithfulIndex
<1>2. rsels \in Seq(Sels(n))
  BY ReadingIs
<1>3. PICK e \in DOMAIN written : \E j \in DOMAIN ElemsOf[e] : ElemsOf[e][j] = c
  BY StoredHas
<1>4. PICK j \in DOMAIN ElemsOf[e] : ElemsOf[e][j] = c
  BY <1>3
<1> DEFINE s == index[e].sels[1]
<1>5. /\ e \in DOMAIN index /\ s \in Sels(n) /\ ElemsOf[e] = CellsOf(s)
      /\ DOMAIN ElemsOf[e] = 1 .. SelSize(index[e].sels)
      /\ SelSize(index[e].sels) = Volume(s.count)
  BY <1>1, EntryElements
<1>6. c \in BoxOfSel(n, s)
  <2>1. CellsOf(s) \in [1 .. Volume(s.count) -> BoxOfSel(n, s)]
    BY <1>1, <1>5, CellPlaces
  <2> HIDE DEF c, s
  <2> QED BY <1>4, <1>5, <2>1
<1>7. PICK i \in 1 .. Len(rsels) :
        /\ c \in BoxOfSel(n, rsels[i])
        /\ k - 1 = Ahead(rsels, i) + Linear(rsels[i].count, Offset(rsels[i], c))
  <2>1. \A a \in 1 .. SelSize(rsels) : \E i \in 1 .. Len(rsels) :
          /\ FlattenSeq(Pieces(rsels))[a] \in BoxOfSel(n, rsels[i])
          /\ a - 1 = Ahead(rsels, i)
                       + Linear(rsels[i].count, Offset(rsels[i], FlattenSeq(Pieces(rsels))[a]))
    <3> HIDE DEF n, rsels
    <3> QED BY <1>1, <1>2, ElementPlaces
  <2>2. k \in 1 .. SelSize(rsels) /\ c = FlattenSeq(Pieces(rsels))[k]
    OBVIOUS
  <2> HIDE DEF c, n, rsels
  <2> QED BY <2>1, <2>2
<1> HIDE DEF c
<1> DEFINE x == index[e].foff + (esize * PlaceIn(s, c) + b)
           t == k - 1
<1>8. t = Ahead(rsels, i) + PlaceIn(rsels[i], c)
  BY <1>7 DEF PlaceIn
<1>9. t * esize + b = esize * (Ahead(rsels, i) + PlaceIn(rsels[i], c)) + b
  <2>1. SelSize(rsels) \in Nat
    BY <1>1, <1>2, SelSizeType
  <2>2. t \in Int /\ esize \in Int
    BY <1>1, <2>1
  <2> HIDE DEF t
  <2>3. t * esize = esize * t
    BY <2>2
  <2> QED BY <1>8, <2>3
<1>10. e \in 1 .. Len(index)
  BY <1>1, <1>5
<1> HIDE DEF x, t
<1>11. Links(n, esize, index, rsels, x, t * esize + b, e, i, c, b)
  BY <1>6, <1>7, <1>9, <1>10 DEF Links, x
<1> QED BY <1>11 DEF t

\* What a read returns, from what is stored.
LEMMA DataReadBack == Data => ReadsReturnWritten
<1> SUFFICES ASSUME Data, AllFaithful, Reading,
                    NEW k \in DOMAIN Elements(call.space, dims), NEW b \in 0 .. esize - 1
             PROVE  /\ call.memory[(k - 1) * esize + b] \subseteq StoredAs(Elements(call.space, dims)[k], b)
                    /\ call.memory[(k - 1) * esize + b] = {}
                         => StoredAs(Elements(call.space, dims)[k], b) = {}
  BY DEF ReadsReturnWritten, AllFaithful, Reading, StoredAs, ElemsOf
<1> DEFINE n == Len(dims)
           rsels == call.sels
           N == SelSize(rsels)
           cells == FlattenSeq(Pieces(rsels))
           t == k - 1
           a == t * esize + b
<1>1. n \in Nat \ {0} /\ esize \in Nat \ {0}
  BY FaithfulIndex
<1>2. rsels \in Seq(Sels(n)) /\ Elements(call.space, dims) = cells
  BY ReadingIs
<1>3. cells \in Seq(Vectors(n)) /\ Len(cells) = N /\ N \in Nat
  BY <1>1, <1>2, ElementPlaces
<1>4. k \in 1 .. N
  <2> HIDE DEF cells, N
  <2> QED BY <1>2, <1>3, LenProperties
<1>5. t \in 0 .. N - 1 /\ t + 1 = k
  <2> HIDE DEF N
  <2> QED BY <1>3, <1>4
<1> HIDE DEF t, cells
<1>6. a \in 0 .. N * esize - 1
  BY <1>1, <1>3, <1>5, ByteInside
<1>7. a \div esize = t /\ a % esize = b
  <2>1. t \in Nat
    BY <1>3, <1>5
  <2> QED BY <1>1, <2>1, DivMod
<1> HIDE DEF a
<1>8. MayHold(rsels)[a] = StoredAs(cells[k], b)
  BY <1>5, <1>6, <1>7 DEF MayHold, CellAt, cells
<1>9. /\ call.memory[a] \subseteq MayHold(rsels)[a]
      /\ \A x, e, i, c, d : Links(n, esize, index, rsels, x, a, e, i, c, d) => call.memory[a] # {}
  BY <1>6, ReadingMemory
<1>10. ASSUME StoredAs(cells[k], b) # {} PROVE call.memory[a] # {}
  <2>1. PICK x, e, i, c : Links(n, esize, index, rsels, x, (k - 1) * esize + b, e, i, c, b)
    BY <1>4, <1>10, WrittenLinked DEF cells
  <2>2. Links(n, esize, index, rsels, x, a, e, i, c, b)
    BY <2>1 DEF a, t
  <2> QED BY <1>9, <2>2
<1>11. a = (k - 1) * esize + b
  BY DEF a, t
<1> HIDE DEF rsels, n, N
<1> QED BY <1>2, <1>8, <1>9, <1>10, <1>11

\* If all writes were faithful, a read of one block, or of single bytes, brings to
\* every element of its memory bytes that some write put in that element, byte for
\* byte, if there was such a write, and touches the memory of no other element:
\* H5VL_log_dataseti_readi after H5VL_log_dataseti_writei, however many writes and
\* hits there are.  That the runs ascend is not needed for it.
THEOREM ReadsBack == Spec => []ReadsReturnWritten
BY DataInvariance, DataReadBack, PTL
=============================================================================
