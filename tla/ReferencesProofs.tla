--------------------------- MODULE ReferencesProofs ---------------------------
(***************************************************************************)
(* Theorems about References: for any number of files and objects and any  *)
(* number of failures, whatever order the program opens and closes in.     *)
(*                                                                         *)
(* What the counters hold is inductive once two more facts are kept: an    *)
(* open file has at least one reference and a file whose close has failed  *)
(* none, so that the count reaches zero once per file; and the dataspace   *)
(* has at least one reference for every open file.                         *)
(***************************************************************************)
EXTENDS References, FiniteSetTheorems, TLAPS

Existing == {o \in Objs : Exists(o)}
OpenFiles == {f \in Files : state[f] = "open"}

CountedOnce ==
  \A f \in Files : /\ state[f] = "open" => refcnt[f] >= 1
                   /\ state[f] = "broken" => refcnt[f] <= 0

Spaces ==
  /\ contig >= Cardinality(OpenFiles)
  /\ sid <=> contig > 0
  /\ fails = 0 => contig = Cardinality(OpenFiles) /\ OpenFiles = Present

IInv ==
  /\ TypeOK /\ RefcntCountsHolders /\ FileOutlivesObjects /\ ConnectorHeld
  /\ CountedOnce /\ Spaces
-----------------------------------------------------------------------------
(* Sets of files and objects *)

\* The sets that the counters are compared with are finite.
LEMMA Finite ==
  /\ \A f \in Files : IsFiniteSet(Holders(f)) /\ Cardinality(Holders(f)) \in Nat
  /\ IsFiniteSet(Existing) /\ Cardinality(Existing) \in Nat
  /\ IsFiniteSet(Present) /\ Cardinality(Present) \in Nat
  /\ IsFiniteSet(OpenFiles) /\ Cardinality(OpenFiles) \in Nat
<1>1. \A f \in Files : Holders(f) \in SUBSET Objs
  BY DEF Holders
<1>2. Existing \in SUBSET Objs /\ Present \in SUBSET Files /\ OpenFiles \in SUBSET Files
  BY DEF Existing, Present, OpenFiles
<1> QED BY <1>1, <1>2, Parameters, FS_Subset, FS_CardinalityType

\* A new object is one more holder of its file and of no other.
LEMMA AddedObject ==
  ASSUME TypeOK, NEW f \in Files, NEW o \in Objs, ~Exists(o),
         NEW type \in Kinds \cup {"CTX", "LOST"},
         obj' = [obj EXCEPT ![o] = [fp |-> f, type |-> type]]
  PROVE  /\ obj' \in [Objs -> Objects \cup {None}]
         /\ Holders(f)' # {}
         /\ Cardinality(Holders(f)') = Cardinality(Holders(f)) + 1
         /\ \A g \in Files \ {f} : Holders(g)' = Holders(g)
         /\ Cardinality(Existing') = Cardinality(Existing) + 1
<1>1. obj'[o] \in Objects /\ obj'[o] # None /\ obj'[o].fp = f
  BY Parameters DEF Objects, TypeOK
<1>2. \A q \in Objs \ {o} : obj'[q] = obj[q]
  BY DEF TypeOK
<1>3. Holders(f)' = Holders(f) \cup {o} /\ o \notin Holders(f)
  BY <1>1, <1>2 DEF Holders, Exists
<1>4. Existing' = Existing \cup {o} /\ o \notin Existing
  BY <1>1, <1>2 DEF Existing, Exists
<1>5. \A g \in Files \ {f} : Holders(g)' = Holders(g)
  BY <1>1, <1>2 DEF Holders, Exists
<1>6. obj' \in [Objs -> Objects \cup {None}]
  BY <1>1 DEF TypeOK
<1>7. /\ Cardinality(Holders(f)') = Cardinality(Holders(f)) + 1
      /\ Cardinality(Existing') = Cardinality(Existing) + 1
  BY <1>3, <1>4, Finite, FS_AddElement
<1> QED BY <1>3, <1>5, <1>6, <1>7

\* A deleted object is one holder less of its file and of no other.
LEMMA RemovedObject ==
  ASSUME TypeOK, NEW o \in Objs, Exists(o), NEW f, f = obj[o].fp,
         obj' = [obj EXCEPT ![o] = None]
  PROVE  /\ obj' \in [Objs -> Objects \cup {None}]
         /\ f \in Files
         /\ o \in Holders(f)
         /\ Cardinality(Holders(f)') = Cardinality(Holders(f)) - 1
         /\ \A g \in Files \ {f} : Holders(g)' = Holders(g)
         /\ Cardinality(Existing') = Cardinality(Existing) - 1
<1>1. obj[o] \in Objects /\ f \in Files
  BY DEF Objects, TypeOK, Exists
<1>2. obj'[o] = None /\ \A q \in Objs \ {o} : obj'[q] = obj[q]
  BY DEF TypeOK
<1>3. Holders(f)' = Holders(f) \ {o} /\ o \in Holders(f)
  BY <1>1, <1>2 DEF Holders, Exists
<1>4. Existing' = Existing \ {o} /\ o \in Existing
  BY <1>1, <1>2 DEF Existing, Exists
<1>5. \A g \in Files \ {f} : Holders(g)' = Holders(g)
  BY <1>1, <1>2 DEF Holders, Exists
<1>6. obj' \in [Objs -> Objects \cup {None}]
  BY <1>1 DEF TypeOK
<1>7. Cardinality(Holders(f)') = Cardinality(Holders(f)) - 1
  <2> DEFINE H == Holders(f)
  <2>1. IsFiniteSet(H) /\ o \in H
    BY <1>1, <1>3, Finite
  <2> HIDE DEF H
  <2>2. Cardinality(H \ {o}) = Cardinality(H) - 1
    BY <2>1, FS_RemoveElement
  <2> QED BY <1>3, <2>2 DEF H
<1>8. Cardinality(Existing') = Cardinality(Existing) - 1
  BY <1>4, Finite, FS_RemoveElement
<1> QED BY <1>1, <1>3, <1>5, <1>6, <1>7, <1>8

\* Dropping a reference changes at most the file's state and the dataspace, and
\* closes the file only with its last reference.
LEMMA DecRefKeeps ==
  ASSUME IInv, NEW f \in Files, state[f] # "none",
         NEW outcome \in Outcomes, DecRef(f, outcome), CountFails(outcome)
  PROVE  /\ state' \in [Files -> {"none", "open", "broken"}]
         /\ refcnt' = [refcnt EXCEPT ![f] = @ - 1]
         /\ refcnt' \in [Files -> Int]
         /\ contig' \in Nat /\ sid' \in BOOLEAN /\ fails' \in 0 .. MaxFails
         /\ CountedOnce' /\ Spaces'
         /\ Cardinality(Present') = Cardinality(Present) - Freed(outcome)
         /\ \A g \in Files \ {f} : state'[g] = state[g]
         /\ state'[f] = "open" => state[f] = "open"
         /\ state[f] = "open" /\ state'[f] # "open" => refcnt[f] = 1
<1> USE DEF IInv, TypeOK
<1>1. refcnt' = [refcnt EXCEPT ![f] = @ - 1] /\ refcnt' \in [Files -> Int]
  BY DEF DecRef
<1>2. fails' \in 0 .. MaxFails /\ (fails' = 0 => fails = 0 /\ ~Failed(outcome))
  BY Parameters DEF CountFails
<1>3. CASE refcnt[f] # 1
  <2>1. outcome = "held" /\ UNCHANGED filevars
    BY <1>3 DEF DecRef
  <2>2. CountedOnce'
    BY <1>1, <1>3, <2>1 DEF CountedOnce, filevars
  <2>3. Spaces'
    BY <1>2, <2>1 DEF Spaces, OpenFiles, Present, filevars
  <2>4. Cardinality(Present') = Cardinality(Present) - Freed(outcome)
    BY <2>1, Finite DEF Present, Freed, filevars
  <2> QED BY <1>1, <1>2, <2>1, <2>2, <2>3, <2>4 DEF filevars
<1>4. CASE refcnt[f] = 1
  <2>1. outcome \in {"done", "early", "late"} /\ FileiClose(f, outcome)
    BY <1>4 DEF DecRef
  <2>2. state[f] = "open"
    BY <1>4 DEF CountedOnce
  <2>3. /\ state' \in [Files -> {"none", "open", "broken"}]
        /\ state'[f] = IF outcome = "done" THEN "none" ELSE "broken"
        /\ \A g \in Files \ {f} : state'[g] = state[g]
    BY <2>1 DEF FileiClose
  <2>4. OpenFiles' = OpenFiles \ {f} /\ f \in OpenFiles
    BY <2>2, <2>3 DEF OpenFiles
  <2>5. Cardinality(OpenFiles') = Cardinality(OpenFiles) - 1
    BY <2>4, Finite, FS_RemoveElement
  <2>6. IF outcome = "early" THEN UNCHANGED <<contig, sid>>
                             ELSE contig' = contig - 1 /\ sid' = (contig # 1)
    BY <2>1 DEF FileiClose
  <2>7. contig \in Nat /\ contig >= 1 /\ Cardinality(OpenFiles) \in Nat
    <3>1. Cardinality(OpenFiles) # 0 /\ Cardinality(OpenFiles) \in Nat
      BY <2>4, Finite, FS_EmptySet
    <3> QED BY <3>1 DEF Spaces
  <2>8. Present' = (IF outcome = "done" THEN Present \ {f} ELSE Present) /\ f \in Present
    BY <2>2, <2>3 DEF Present
  <2>9. Cardinality(Present') = Cardinality(Present) - Freed(outcome)
    <3>1. Cardinality(Present \ {f}) = Cardinality(Present) - 1
      BY <2>8, Finite, FS_RemoveElement
    <3> QED BY <3>1, <2>8, Finite DEF Freed
  <2>10. contig' \in Nat /\ contig' >= Cardinality(OpenFiles')
    BY <2>5, <2>6, <2>7 DEF Spaces
  <2>11. sid' \in BOOLEAN /\ (sid' <=> contig' > 0)
    <3>1. CASE outcome = "early"
      BY <2>6, <3>1 DEF Spaces
    <3>2. CASE outcome # "early"
      <4>1. contig' > 0 <=> contig # 1
        BY <2>6, <2>7, <3>2
      <4> QED BY <2>6, <3>2, <4>1
    <3> QED BY <3>1, <3>2
  <2>12. fails' = 0 => contig' = Cardinality(OpenFiles') /\ OpenFiles' = Present'
    <3>1. fails' = 0 => fails = 0 /\ outcome = "done"
      BY <1>2, <2>1 DEF Failed
    <3> QED BY <3>1, <2>4, <2>5, <2>6, <2>8 DEF Spaces
  <2>13. CountedOnce'
    BY <1>1, <1>4, <2>3 DEF CountedOnce
  <2> QED
    BY <1>1, <1>2, <1>4, <2>2, <2>3, <2>9, <2>10, <2>11, <2>12, <2>13 DEF Spaces
<1> QED BY <1>3, <1>4
-----------------------------------------------------------------------------
(* The invariant is inductive *)

\* It holds before anything is opened.
LEMMA InitInv == Init => IInv
<1> SUFFICES ASSUME Init PROVE IInv
  OBVIOUS
<1>1. TypeOK
  <2>1. /\ state \in [Files -> {"none", "open", "broken"}] /\ refcnt \in [Files -> Int]
        /\ fileid \in [Files -> BOOLEAN] /\ wrapped \in [Files -> Nat]
        /\ obj \in [Objs -> Objects \cup {None}]
    BY DEF Init
  <2>2. connector \in Nat /\ contig \in Nat /\ fails \in 0 .. MaxFails
    BY Parameters DEF Init
  <2>3. sid \in BOOLEAN /\ crashed \in BOOLEAN
    BY DEF Init
  <2> QED BY <2>1, <2>2, <2>3 DEF TypeOK
<1>2. Present = {} /\ OpenFiles = {} /\ {o \in Objs : Exists(o)} = {}
  BY DEF Init, Present, OpenFiles, Exists
<1>3. ConnectorHeld /\ Spaces
  BY <1>2, FS_EmptySet DEF Init, ConnectorHeld, Spaces
<1>4. RefcntCountsHolders /\ FileOutlivesObjects /\ CountedOnce
  BY DEF Init, RefcntCountsHolders, FileOutlivesObjects, CountedOnce, Holders, Exists
<1> QED BY <1>1, <1>3, <1>4 DEF IInv

\* A file opened in a free slot.
LEMMA OpenKeeps ==
  ASSUME IInv, NEW f \in Files, H5Fopen(f)
  PROVE  IInv'
<1> USE DEF IInv, TypeOK
<1>1. /\ state[f] = "none" /\ Holders(f) = {}
      /\ state' = [state EXCEPT ![f] = "open"] /\ refcnt' = [refcnt EXCEPT ![f] = 1]
      /\ fileid' = [fileid EXCEPT ![f] = TRUE] /\ wrapped' = [wrapped EXCEPT ![f] = 0]
      /\ connector' = connector + 1 /\ contig' = contig + 1
      /\ sid' = (sid \/ contig = 0)
      /\ UNCHANGED <<obj, crashed, fails>>
  BY DEF H5Fopen, PostOpen
<1>2. /\ OpenFiles' = OpenFiles \cup {f} /\ f \notin OpenFiles
      /\ Present' = Present \cup {f} /\ f \notin Present
  BY <1>1 DEF OpenFiles, Present
<1>3. /\ Cardinality(OpenFiles') = Cardinality(OpenFiles) + 1
      /\ Cardinality(Present') = Cardinality(Present) + 1
  BY <1>2, Finite, FS_AddElement
<1>4. \A g \in Files : Holders(g)' = Holders(g)
  BY <1>1 DEF Holders, Exists
<1>5. TypeOK'
  BY <1>1
<1>6. ConnectorHeld'
  <2>1. {o \in Objs : Exists(o)}' = {o \in Objs : Exists(o)}
    BY <1>1 DEF Exists
  <2> QED BY <1>1, <1>3, <2>1, Finite DEF ConnectorHeld, Existing
<1>7. Spaces'
  <2>1. contig' >= Cardinality(OpenFiles') /\ contig' > 0
    BY <1>1, <1>3, Finite DEF Spaces
  <2>2. sid'
    <3>1. contig > 0 \/ contig = 0
      OBVIOUS
    <3>2. sid \/ contig = 0
      BY <3>1 DEF Spaces
    <3> QED BY <1>1, <3>2
  <2>3. fails' = 0 => contig' = Cardinality(OpenFiles') /\ OpenFiles' = Present'
    BY <1>1, <1>2, <1>3, Finite DEF Spaces
  <2> QED BY <2>1, <2>2, <2>3 DEF Spaces
<1>8. CountedOnce'
  BY <1>1 DEF CountedOnce
<1>9. RefcntCountsHolders' /\ FileOutlivesObjects'
  <2>1. Cardinality(Holders(f)) = 0
    BY <1>1, FS_EmptySet
  <2>2. ASSUME NEW g \in Files, state'[g] = "open"
        PROVE  refcnt'[g] = (IF fileid'[g] THEN 1 ELSE 0) + Cardinality(Holders(g)') - wrapped'[g]
    <3>1. CASE g = f
      BY <1>1, <1>4, <2>1, <3>1
    <3>2. CASE g # f
      BY <1>1, <1>4, <2>2, <3>2 DEF RefcntCountsHolders
    <3> QED BY <3>1, <3>2
  <2>3. FileOutlivesObjects'
    BY <1>1, <1>4 DEF FileOutlivesObjects
  <2> QED BY <2>2, <2>3 DEF RefcntCountsHolders
<1> QED BY <1>5, <1>6, <1>7, <1>8, <1>9

\* Closing a file ID, and retrying a close that failed.
LEMMA CloseKeeps ==
  ASSUME IInv, NEW f \in Files, H5Fclose(f)
  PROVE  IInv'
<1> USE DEF IInv, TypeOK
<1>1. PICK outcome \in Outcomes :
        /\ DecRef(f, outcome) /\ CountFails(outcome)
        /\ fileid' = [fileid EXCEPT ![f] = Failed(outcome)]
        /\ connector' = connector - Freed(outcome)
  BY DEF H5Fclose, FileClose
<1>2. fileid[f] /\ state[f] # "none" /\ UNCHANGED <<obj, crashed, wrapped>>
  BY DEF H5Fclose
<1>3. /\ state' \in [Files -> {"none", "open", "broken"}]
      /\ refcnt' = [refcnt EXCEPT ![f] = @ - 1]
      /\ refcnt' \in [Files -> Int]
      /\ contig' \in Nat /\ sid' \in BOOLEAN /\ fails' \in 0 .. MaxFails
      /\ CountedOnce' /\ Spaces'
      /\ Cardinality(Present') = Cardinality(Present) - Freed(outcome)
      /\ \A g \in Files \ {f} : state'[g] = state[g]
      /\ state'[f] = "open" => state[f] = "open"
      /\ state[f] = "open" /\ state'[f] # "open" => refcnt[f] = 1
  BY <1>1, <1>2, DecRefKeeps
<1>4. fileid' \in [Files -> BOOLEAN]
  BY <1>1 DEF Failed
<1>5. \A g \in Files : Holders(g)' = Holders(g)
  BY <1>2 DEF Holders, Exists
<1>6. ConnectorHeld' /\ connector' \in Nat
  <2>1. {o \in Objs : Exists(o)}' = {o \in Objs : Exists(o)}
    BY <1>2 DEF Exists
  <2>2. Freed(outcome) \in Nat /\ Cardinality(Present) \in Nat /\ Cardinality(Present') \in Nat
    <3>1. Present' \in SUBSET Files
      BY DEF Present
    <3> QED BY <3>1, Parameters, Finite, FS_Subset, FS_CardinalityType DEF Freed
  <2> QED BY <1>1, <1>3, <2>1, <2>2, Finite DEF ConnectorHeld, Existing
<1>7. RefcntCountsHolders'
  <2> SUFFICES ASSUME NEW g \in Files, state'[g] = "open"
               PROVE  refcnt'[g] = (IF fileid'[g] THEN 1 ELSE 0)
                                   + Cardinality(Holders(g)') - wrapped'[g]
    BY DEF RefcntCountsHolders
  <2>1. CASE g = f
    <3>1. refcnt[f] # 1
      BY <1>1, <2>1 DEF DecRef, FileiClose
    <3>2. ~Failed(outcome)
      BY <1>1, <3>1 DEF DecRef, Failed
    <3> QED BY <1>1, <1>2, <1>3, <1>5, <2>1, <3>2, Finite DEF RefcntCountsHolders
  <2>2. CASE g # f
    BY <1>1, <1>2, <1>3, <1>5, <2>2 DEF RefcntCountsHolders
  <2> QED BY <2>1, <2>2
<1>8. FileOutlivesObjects'
  <2> SUFFICES ASSUME NEW g \in Files, wrapped[g] = 0, Holders(g) # {}
               PROVE  state'[g] = "open"
    BY <1>2, <1>5 DEF FileOutlivesObjects
  <2>1. state[g] = "open"
    BY DEF FileOutlivesObjects
  <2>2. Cardinality(Holders(g)) \in Nat /\ Cardinality(Holders(g)) # 0
    BY Finite, FS_EmptySet
  <2>3. g = f => refcnt[g] # 1
    BY <1>2, <2>1, <2>2 DEF RefcntCountsHolders
  <2> QED BY <1>3, <2>1, <2>3
<1>9. TypeOK'
  BY <1>2, <1>3, <1>4, <1>6
<1> QED BY <1>3, <1>6, <1>7, <1>8, <1>9
\* Callbacks that make an object or a context, in a file that is open.
LEMMA ConstructorKeeps ==
  ASSUME IInv, NEW f \in Files, state[f] = "open", NEW o \in Objs,
         NEW type \in Kinds \cup {"CTX", "LOST"}, Constructor(f, o, type),
         fails' \in 0 .. MaxFails, fails' = 0 => fails = 0
  PROVE  IInv'
<1> USE DEF IInv, TypeOK
<1>1. /\ ~Exists(o) /\ obj' = [obj EXCEPT ![o] = [fp |-> f, type |-> type]]
      /\ refcnt' = [refcnt EXCEPT ![f] = @ + 1] /\ connector' = connector + 1
      /\ UNCHANGED <<state, contig, sid, fileid, crashed, wrapped>>
  BY DEF Constructor, filevars
<1>2. /\ obj' \in [Objs -> Objects \cup {None}]
      /\ Holders(f)' # {}
      /\ Cardinality(Holders(f)') = Cardinality(Holders(f)) + 1
      /\ \A g \in Files \ {f} : Holders(g)' = Holders(g)
      /\ Cardinality(Existing') = Cardinality(Existing) + 1
  BY <1>1, AddedObject
<1>3. TypeOK'
  BY <1>1, <1>2
<1>4. Present' = Present /\ OpenFiles' = OpenFiles
  BY <1>1 DEF Present, OpenFiles
<1>5. ConnectorHeld'
  BY <1>1, <1>2, <1>4, Finite DEF ConnectorHeld, Existing
<1>6. Spaces'
  BY <1>1, <1>4 DEF Spaces
<1>7. CountedOnce'
  BY <1>1 DEF CountedOnce
<1>8. RefcntCountsHolders'
  <2> SUFFICES ASSUME NEW g \in Files, state'[g] = "open"
               PROVE  refcnt'[g] = (IF fileid'[g] THEN 1 ELSE 0)
                                   + Cardinality(Holders(g)') - wrapped'[g]
    BY DEF RefcntCountsHolders
  <2>1. CASE g = f
    BY <1>1, <1>2, <2>1, Finite DEF RefcntCountsHolders
  <2>2. CASE g # f
    BY <1>1, <1>2, <2>2 DEF RefcntCountsHolders
  <2> QED BY <2>1, <2>2
<1>9. FileOutlivesObjects'
  BY <1>1, <1>2 DEF FileOutlivesObjects
<1> QED BY <1>3, <1>5, <1>6, <1>7, <1>8, <1>9

\* Callbacks that delete one, whatever has become of its file.
LEMMA DestructorKeeps ==
  ASSUME IInv, NEW o \in Objs, Exists(o), Destructor(o)
  PROVE  IInv'
<1> USE DEF IInv, TypeOK
<1>1. obj' = [obj EXCEPT ![o] = None] /\ UNCHANGED <<fileid, wrapped>>
  BY DEF Destructor
<1>2. obj[o].fp \in Files
  BY <1>1, RemovedObject
<1>3. PICK f \in Files : f = obj[o].fp
  BY <1>2
<1>4. /\ obj' \in [Objs -> Objects \cup {None}]
      /\ o \in Holders(f)
      /\ Cardinality(Holders(f)') = Cardinality(Holders(f)) - 1
      /\ \A g \in Files \ {f} : Holders(g)' = Holders(g)
      /\ Cardinality(Existing') = Cardinality(Existing) - 1
  BY <1>1, <1>3, RemovedObject
<1>5. CASE state[f] # "none"
  <2>1. PICK outcome \in Outcomes :
          /\ DecRef(f, outcome) /\ CountFails(outcome)
          /\ connector' = connector - 1 - Freed(outcome)
    BY <1>3, <1>5 DEF Destructor
  <2>2. UNCHANGED crashed
    BY <1>3, <1>5 DEF Destructor
  <2>3. /\ state' \in [Files -> {"none", "open", "broken"}]
        /\ refcnt' = [refcnt EXCEPT ![f] = @ - 1]
        /\ refcnt' \in [Files -> Int]
        /\ contig' \in Nat /\ sid' \in BOOLEAN /\ fails' \in 0 .. MaxFails
        /\ CountedOnce' /\ Spaces'
        /\ Cardinality(Present') = Cardinality(Present) - Freed(outcome)
        /\ \A g \in Files \ {f} : state'[g] = state[g]
        /\ state'[f] = "open" => state[f] = "open"
        /\ state[f] = "open" /\ state'[f] # "open" => refcnt[f] = 1
    BY <1>2, <1>5, <2>1, DecRefKeeps
  <2>4. ConnectorHeld' /\ connector' \in Nat
    <3>1. Freed(outcome) \in Nat /\ Cardinality(Present) \in Nat /\ Cardinality(Present') \in Nat
      <4>1. Present' \in SUBSET Files
        BY DEF Present
      <4> QED BY <4>1, Parameters, Finite, FS_Subset, FS_CardinalityType DEF Freed
    <3>2. Cardinality(Existing) \in Nat /\ Cardinality(Existing') \in Nat
      <4>1. Existing' \in SUBSET Objs
        BY DEF Existing
      <4> QED BY <4>1, Parameters, Finite, FS_Subset, FS_CardinalityType
    <3> QED BY <1>4, <2>1, <2>3, <3>1, <3>2 DEF ConnectorHeld, Existing
  <2>5. RefcntCountsHolders'
    <3> SUFFICES ASSUME NEW g \in Files, state'[g] = "open"
                 PROVE  refcnt'[g] = (IF fileid'[g] THEN 1 ELSE 0)
                                     + Cardinality(Holders(g)') - wrapped'[g]
      BY DEF RefcntCountsHolders
    <3>1. CASE g = f
      BY <1>1, <1>4, <2>3, <3>1, Finite DEF RefcntCountsHolders
    <3>2. CASE g # f
      BY <1>1, <1>4, <2>3, <3>2 DEF RefcntCountsHolders
    <3> QED BY <3>1, <3>2
  <2>6. FileOutlivesObjects'
    <3> SUFFICES ASSUME NEW g \in Files, wrapped[g] = 0, Holders(g)' # {}
                 PROVE  state'[g] = "open"
      BY <1>1 DEF FileOutlivesObjects
    <3>1. CASE g # f
      BY <1>4, <2>3, <3>1 DEF FileOutlivesObjects
    <3>2. CASE g = f
      <4>1. state[f] = "open"
        BY <1>2, <1>4, <3>2 DEF FileOutlivesObjects
      <4>2. Cardinality(Holders(f)') \in Nat /\ Cardinality(Holders(f)') # 0
        <5>1. Holders(f)' \in SUBSET Objs
          BY DEF Holders
        <5> QED BY <3>2, <5>1, Parameters, FS_Subset, FS_CardinalityType, FS_EmptySet
      <4>3. refcnt[f] # 1
        BY <1>2, <1>4, <3>2, <4>1, <4>2, Finite DEF RefcntCountsHolders
      <4> QED BY <2>3, <3>2, <4>1, <4>3
    <3> QED BY <3>1, <3>2
  <2>7. TypeOK'
    BY <1>1, <1>4, <2>2, <2>3, <2>4
  <2> QED BY <2>3, <2>4, <2>5, <2>6, <2>7
<1>6. CASE state[f] = "none"
  <2>1. /\ crashed' \in BOOLEAN /\ connector' = connector - 1
        /\ UNCHANGED <<state, contig, sid, refcnt, fails>>
    BY <1>3, <1>6 DEF Destructor, filevars
  <2>2. Present' = Present /\ OpenFiles' = OpenFiles
    BY <2>1 DEF Present, OpenFiles
  <2>3. ConnectorHeld' /\ connector' \in Nat
    <3>1. Cardinality(Existing) \in Nat /\ Cardinality(Existing') \in Nat
      <4>1. Existing' \in SUBSET Objs
        BY DEF Existing
      <4> QED BY <4>1, Parameters, Finite, FS_Subset, FS_CardinalityType
    <3> QED BY <1>4, <2>1, <2>2, <3>1, Finite DEF ConnectorHeld, Existing
  <2>4. CountedOnce' /\ Spaces'
    BY <2>1, <2>2 DEF CountedOnce, Spaces
  <2>5. RefcntCountsHolders'
    BY <1>1, <1>4, <1>6, <2>1 DEF RefcntCountsHolders
  <2>6. FileOutlivesObjects'
    <3>1. wrapped[f] # 0
      BY <1>2, <1>4, <1>6 DEF FileOutlivesObjects
    <3> QED BY <1>1, <1>4, <2>1, <3>1 DEF FileOutlivesObjects
  <2>7. TypeOK'
    BY <1>1, <1>4, <2>1, <2>3
  <2> QED BY <2>3, <2>4, <2>5, <2>6, <2>7
<1> QED BY <1>5, <1>6
\* Closing the ID of a file object that was freed.
LEMMA CloseFreedKeeps ==
  ASSUME IInv, NEW f \in Files, H5FcloseFreed(f)
  PROVE  IInv'
<1> USE DEF IInv, TypeOK
<1>1. /\ state[f] = "none" /\ fileid' = [fileid EXCEPT ![f] = FALSE]
      /\ crashed' \in BOOLEAN
      /\ UNCHANGED <<state, contig, sid, refcnt, obj, connector, fails, wrapped>>
  BY DEF H5FcloseFreed, filevars
<1>2. /\ Present' = Present /\ OpenFiles' = OpenFiles /\ \A g \in Files : Holders(g)' = Holders(g)
      /\ {o \in Objs : Exists(o)}' = {o \in Objs : Exists(o)}
  BY <1>1 DEF Present, OpenFiles, Holders, Exists
<1>3. TypeOK'
  BY <1>1
<1>4. ConnectorHeld' /\ CountedOnce' /\ Spaces' /\ FileOutlivesObjects'
  BY <1>1, <1>2 DEF ConnectorHeld, CountedOnce, Spaces, FileOutlivesObjects
<1>5. RefcntCountsHolders'
  BY <1>1, <1>2 DEF RefcntCountsHolders
<1> QED BY <1>3, <1>4, <1>5

\* A context that cannot be freed is lost and still holds its file.
LEMMA LostKeeps ==
  ASSUME IInv, NEW o \in Objs, Exists(o), obj' = [obj EXCEPT ![o].type = "LOST"],
         CountFails("early"),
         UNCHANGED <<filevars, refcnt, fileid, connector, crashed, wrapped>>
  PROVE  IInv'
<1> USE DEF IInv, TypeOK
<1>1. UNCHANGED <<state, contig, sid, refcnt, fileid, connector, crashed, wrapped>>
  BY DEF filevars
<1>2. fails' \in 0 .. MaxFails /\ fails' # 0
  BY Parameters DEF CountFails, Failed
<1>3. /\ obj[o] \in Objects
      /\ obj'[o] \in Objects /\ obj'[o].fp = obj[o].fp
      /\ \A q \in Objs \ {o} : obj'[q] = obj[q]
  BY DEF Objects, Exists
<1>4. obj' \in [Objs -> Objects \cup {None}] /\ obj'[o] # None
  BY <1>3, Parameters
<1>5. /\ Present' = Present /\ OpenFiles' = OpenFiles /\ \A g \in Files : Holders(g)' = Holders(g)
      /\ {q \in Objs : Exists(q)}' = {q \in Objs : Exists(q)}
  BY <1>1, <1>3, <1>4 DEF Present, OpenFiles, Holders, Exists
<1>6. TypeOK'
  BY <1>1, <1>2, <1>4
<1>7. ConnectorHeld' /\ CountedOnce' /\ Spaces' /\ FileOutlivesObjects'
  BY <1>1, <1>2, <1>5 DEF ConnectorHeld, CountedOnce, Spaces, FileOutlivesObjects
<1>8. RefcntCountsHolders'
  BY <1>1, <1>5 DEF RefcntCountsHolders
<1> QED BY <1>6, <1>7, <1>8

\* The uncounted file ID of a wrapped file.
LEMMA WrapFileKeeps ==
  ASSUME IInv, NEW f \in Files, WrapFile(f)
  PROVE  IInv'
<1> USE DEF IInv, TypeOK
<1>1. /\ ~fileid[f] /\ wrapped[f] = 0
      /\ fileid' = [fileid EXCEPT ![f] = TRUE]
      /\ wrapped' = [wrapped EXCEPT ![f] = @ + 1]
      /\ UNCHANGED <<state, contig, sid, refcnt, obj, connector, crashed, fails>>
  BY DEF WrapFile, filevars
<1>2. /\ Present' = Present /\ OpenFiles' = OpenFiles /\ \A g \in Files : Holders(g)' = Holders(g)
      /\ {o \in Objs : Exists(o)}' = {o \in Objs : Exists(o)}
  BY <1>1 DEF Present, OpenFiles, Holders, Exists
<1>3. TypeOK'
  BY <1>1
<1>4. ConnectorHeld' /\ CountedOnce' /\ Spaces' /\ FileOutlivesObjects'
  BY <1>1, <1>2 DEF ConnectorHeld, CountedOnce, Spaces, FileOutlivesObjects
<1>5. RefcntCountsHolders'
  BY <1>1, <1>2, Finite DEF RefcntCountsHolders
<1> QED BY <1>3, <1>4, <1>5

\* A step that ends the process.
LEMMA CrashKeeps ==
  ASSUME IInv, crashed' = TRUE,
         UNCHANGED <<filevars, refcnt, fileid, obj, connector, fails, wrapped>>
  PROVE  IInv'
<1> USE DEF IInv, TypeOK
<1>1. UNCHANGED <<state, contig, sid, refcnt, fileid, obj, connector, fails, wrapped>>
  BY DEF filevars
<1>2. /\ Present' = Present /\ OpenFiles' = OpenFiles /\ \A g \in Files : Holders(g)' = Holders(g)
      /\ {o \in Objs : Exists(o)}' = {o \in Objs : Exists(o)}
  BY <1>1 DEF Present, OpenFiles, Holders, Exists
<1> QED
  BY <1>1, <1>2 DEF ConnectorHeld, CountedOnce, Spaces, FileOutlivesObjects, RefcntCountsHolders

\* Every step keeps it.
LEMMA NextInv == IInv /\ [Next]_vars => IInv'
<1> SUFFICES ASSUME IInv, [Next]_vars PROVE IInv'
  OBVIOUS
<1>1. CASE UNCHANGED vars
  <2>1. UNCHANGED <<state, contig, sid, refcnt, fileid, obj, connector, crashed, fails, wrapped>>
    BY <1>1 DEF vars, filevars
  <2>2. /\ Present' = Present /\ OpenFiles' = OpenFiles /\ \A g \in Files : Holders(g)' = Holders(g)
        /\ {o \in Objs : Exists(o)}' = {o \in Objs : Exists(o)}
    BY <2>1 DEF Present, OpenFiles, Holders, Exists
  <2> QED
    BY <2>1, <2>2 DEF IInv, TypeOK, ConnectorHeld, CountedOnce, Spaces, FileOutlivesObjects,
                      RefcntCountsHolders
<1>2. ASSUME NEW f \in Files, H5Fopen(f) \/ H5Fclose(f) \/ H5FcloseFreed(f) PROVE IInv'
  BY <1>2, OpenKeeps, CloseKeeps, CloseFreedKeeps
<1>3. ASSUME NEW f \in Files, NEW o \in Objs, NEW type \in Kinds, Created(f, o, type) PROVE IInv'
  <2>1. state[f] = "open" /\ Constructor(f, o, type) /\ fails' = fails
    BY <1>3 DEF Created, Reachable
  <2> QED BY <2>1, ConstructorKeeps DEF IInv, TypeOK
<1>4. ASSUME NEW f \in Files, NEW o \in Objs, H5VL_log_get_wrap_ctx(f, o) PROVE IInv'
  <2>1. /\ state[f] = "open"
        /\ \E type \in {"CTX", "LOST"} : Constructor(f, o, type)
        /\ fails' \in 0 .. MaxFails /\ (fails' = 0 => fails = 0)
    BY <1>4, Parameters
       DEF H5VL_log_get_wrap_ctx, Reachable, CountFails, Failed, IInv, TypeOK
  <2> QED BY <2>1, ConstructorKeeps
<1>5. ASSUME NEW o \in Objs, Exists(o), Destructor(o) PROVE IInv'
  BY <1>5, DestructorKeeps
<1>6. ASSUME NEW o \in Objs, H5VL_log_free_wrap_ctx(o) PROVE IInv'
  BY <1>6, DestructorKeeps, LostKeeps DEF H5VL_log_free_wrap_ctx
<1>7. ASSUME NEW c \in Objs, NEW o \in Objs, H5VL_log_wrap_object(c, o) PROVE IInv'
  <2>1. PICK f \in Files : f = obj[c].fp /\ state[f] = "open"
    BY <1>7 DEF H5VL_log_wrap_object, IInv, TypeOK, Exists, Objects
  <2>2. CASE \E type \in Kinds : Constructor(f, o, type) /\ UNCHANGED fails
    BY <2>1, <2>2, ConstructorKeeps DEF IInv, TypeOK
  <2>3. CASE WrapFile(f)
    BY <2>3, WrapFileKeeps
  <2> QED BY <1>7, <2>1, <2>2, <2>3 DEF H5VL_log_wrap_object
<1>8. CASE Next
  <2>1. CASE Finished
    BY <1>1, <2>1 DEF Finished
  <2>2. ASSUME NEW f \in Files, NEW o \in Objs,
               \/ H5Aopen(f, o) \/ H5Gopen(f, o) \/ H5Topen(f, o) \/ H5Dopen(f, o)
               \/ H5Oopen(f, o)
        PROVE  IInv'
    BY <1>3, <2>2 DEF H5Aopen, H5Gopen, H5Topen, H5Dopen, H5Oopen, Kinds
  <2>3. ASSUME NEW o \in Objs,
               \/ H5Aclose(o) \/ H5Gclose(o) \/ H5Tclose(o) \/ H5Dclose(o)
               \/ H5VL_log_unwrap_object(o)
        PROVE  IInv'
    BY <1>5, <2>3, CrashKeeps
       DEF H5Aclose, H5Gclose, H5Tclose, H5Dclose, Closes, H5VL_log_unwrap_object
  <2> QED BY <1>2, <1>4, <1>6, <1>7, <1>8, <2>1, <2>2, <2>3 DEF Next
<1> QED BY <1>1, <1>8

\* So it holds always.
LEMMA Inductive == Spec => []IInv
<1> QED BY InitInv, NextInv, PTL DEF Spec

-----------------------------------------------------------------------------
(* Theorems *)

\* Every reachable state has its types: no counter of the connector below or of
\* the dataspace is ever given back more often than it was taken.
THEOREM TypeCorrect == Spec => []TypeOK
<1>1. IInv => TypeOK
  BY DEF IInv
<1> QED BY <1>1, Inductive, PTL

\* fp->refcnt counts the VOL objects that hold an open file, less the uncounted
\* references of H5VL_log_filei_wrap.
THEOREM RefcntCounts == Spec => []RefcntCountsHolders
<1>1. IInv => RefcntCountsHolders
  BY DEF IInv
<1> QED BY <1>1, Inductive, PTL

\* No order of closes closes a file under an object of it, unless the file was
\* wrapped.
THEOREM FileOutlives == Spec => []FileOutlivesObjects
<1>1. IInv => FileOutlivesObjects
  BY DEF IInv
<1> QED BY <1>1, Inductive, PTL

\* The last holder to go closes the file.
THEOREM LastCloses == Spec => []ClosedAfterLast
<1>1. IInv => ClosedAfterLast
  <2> SUFFICES ASSUME IInv, NEW f \in Files, state[f] = "open", ~fileid[f], Holders(f) = {}
               PROVE  FALSE
    BY DEF ClosedAfterLast
  <2>1. Cardinality(Holders(f)) = 0
    BY FS_EmptySet
  <2>2. refcnt[f] = (IF fileid[f] THEN 1 ELSE 0) + Cardinality(Holders(f)) - wrapped[f]
    BY DEF IInv, RefcntCountsHolders
  <2>3. wrapped[f] \in Nat /\ refcnt[f] \in Int
    BY DEF IInv, TypeOK
  <2>4. (IF fileid[f] THEN 1 ELSE 0) = 0
    OBVIOUS
  <2>5. refcnt[f] = 0 - wrapped[f]
    BY <2>1, <2>2, <2>3, <2>4
  <2> QED BY <2>3, <2>5 DEF IInv, CountedOnce
<1> QED BY <1>1, Inductive, PTL

\* The shared dataspace is open while any file is, and no longer unless a close
\* has failed.
THEOREM DataspaceLives == Spec => []DataspaceShared
<1>1. IInv => DataspaceShared
  <2> SUFFICES ASSUME IInv PROVE DataspaceShared
    OBVIOUS
  <2>1. ASSUME NEW f \in Files, state[f] = "open" PROVE sid
    <3>1. OpenFiles # {}
      BY <2>1 DEF OpenFiles
    <3>2. Cardinality(OpenFiles) # 0
      BY <3>1, Finite, FS_EmptySet
    <3> QED BY <3>2, Finite DEF IInv, Spaces, TypeOK
  <2>2. ASSUME fails = 0, \A f \in Files : state[f] = "none" PROVE ~sid
    <3>1. OpenFiles = {}
      BY <2>2 DEF OpenFiles
    <3>2. contig = 0
      BY <2>2, <3>1, FS_EmptySet DEF IInv, Spaces
    <3> QED BY <3>2 DEF IInv, Spaces
  <2> QED BY <2>1, <2>2 DEF DataspaceShared
<1> QED BY <1>1, Inductive, PTL

\* The connector below is held once by every wrapper that exists.
THEOREM ConnectorCounted == Spec => []ConnectorHeld
<1>1. IInv => ConnectorHeld
  BY DEF IInv
<1> QED BY <1>1, Inductive, PTL
=============================================================================
