---------------------------- MODULE BuffersProofs ----------------------------
(***************************************************************************)
(* Theorems about Buffers: for any arrays, types, filters and number of    *)
(* calls, a request to be flushed has memory of its own and what reaches   *)
(* the log is what was promised.                                           *)
(*                                                                         *)
(* The promise about the log is kept by a flush because it is already kept *)
(* in memory: Promised says it of every request still to be written.  That *)
(* needs that blocks are not shared, and no request is at an index the     *)
(* flush has passed, which RequestsHaveMemory says.                        *)
(***************************************************************************)
EXTENDS Buffers, FoldLemmas

Promised ==
  \A i \in Unflushed :
    ~wreqs[i].failed => /\ Content(wreqs[i]).type = FileType
                        /\ Content(wreqs[i]).value \in wreqs[i].may

\* An array written in place is one the caller leaves alone.
InPlaceNonblocking == \A i \in DOMAIN wreqs : Own(wreqs[i]) \/ ~wreqs[i].blocking

IInv ==
  TypeOK /\ RequestsHaveMemory /\ InPlaceNonblocking /\ Promised /\ WrittenAsPromised

-----------------------------------------------------------------------------
(* Sizes and blocks *)

\* The larger of two sizes is one of them, and not below either.
LEMMA MaxOfTwo ==
  ASSUME NEW x \in Nat, NEW y \in Nat
  PROVE  Max({x, y}) \in Nat /\ Max({x, y}) >= x /\ Max({x, y}) >= y
<1>1. \E m \in {x, y} : \A z \in {x, y} : m >= z
  <2>1. CASE x >= y BY <2>1
  <2>2. CASE y >= x BY <2>2
  <2> QED BY <2>1, <2>2
<1> QED BY <1>1 DEF Max

\* A block has room for the elements in the type of the file.
LEMMA Room ==
  ASSUME NEW n \in Lengths, NEW t \in Types
  PROVE  /\ BlockSize(n, t) \in Nat
         /\ n * SizeOf[FileType] \in Nat
         /\ n * SizeOf[FileType] <= BlockSize(n, t)
<1> DEFINE s == SizeOf[FileType]
           m == Max({SizeOf[t], s})
<1>1. n \in Nat /\ SizeOf[t] \in Nat /\ s \in Nat
  BY Parameters
<1>2. m \in Nat /\ m >= s
  BY <1>1, MaxOfTwo
<1> HIDE DEF s, m
<1>3. n * m \in Nat /\ n * s \in Nat /\ n * s <= n * m
  <2>1. \E d \in Nat : m = s + d
    <3>1. m - s \in Nat /\ m = s + (m - s) BY <1>1, <1>2
    <3> QED BY <3>1
  <2>2. PICK d \in Nat : m = s + d BY <2>1
  <2>3. n * m = n * s + n * d BY <1>1, <2>2
  <2>4. n * s \in Nat /\ n * d \in Nat BY <1>1, <2>2
  <2> QED BY <2>3, <2>4
<1> QED BY <1>3 DEF BlockSize, m, s

\* A new block leaves the others as they are.
LEMMA NewBlock ==
  ASSUME TypeOK, NEW b \in Block, heap' = Append(heap, b)
  PROVE  /\ heap' \in Seq(Block)
         /\ DOMAIN heap' = DOMAIN heap \cup {Len(heap) + 1}
         /\ heap'[Len(heap) + 1] = b /\ Len(heap) + 1 \notin DOMAIN heap
         /\ \A k \in DOMAIN heap : heap'[k] = heap[k]
BY DEF TypeOK

-----------------------------------------------------------------------------
(* What the actions do to memory and queue *)

\* Nothing that is promised depends on the counters.
LEMMA Unmoved ==
  ASSUME IInv, UNCHANGED <<user, heap, wreqs, nflushed, file>>
  PROVE  RequestsHaveMemory' /\ InPlaceNonblocking' /\ Promised' /\ WrittenAsPromised'
BY DEF IInv, RequestsHaveMemory, InPlaceNonblocking, Promised, WrittenAsPromised, Unflushed,
       Content, Own

\* Nor on a block nobody has queued.
LEMMA StrayBlock ==
  ASSUME IInv, NEW b \in Block, heap' = Append(heap, b),
         UNCHANGED <<user, wreqs, nflushed, file>>
  PROVE  RequestsHaveMemory' /\ InPlaceNonblocking' /\ Promised' /\ WrittenAsPromised'
<1>1. \A k \in DOMAIN heap : heap'[k] = heap[k]
  BY NewBlock DEF IInv
<1>2. \A i \in DOMAIN wreqs : Own(wreqs[i]) => wreqs[i].xbuf \in DOMAIN heap
  BY DEF IInv, TypeOK, Own
<1>3. \A i \in DOMAIN wreqs : Content(wreqs[i])' = Content(wreqs[i])
  BY <1>1, <1>2 DEF Content, Own
<1>4. Unflushed' = Unflushed /\ Unflushed \subseteq DOMAIN wreqs
  BY DEF Unflushed
<1>5. RequestsHaveMemory'
  BY <1>1, <1>2, <1>4 DEF IInv, RequestsHaveMemory, Own
<1>6. Promised'
  BY <1>3, <1>4 DEF IInv, Promised
<1>7. WrittenAsPromised' /\ InPlaceNonblocking'
  BY DEF IInv, WrittenAsPromised, InPlaceNonblocking, Own
<1> QED BY <1>5, <1>6, <1>7

\* A request without a block, from an array of the type of the file.
LEMMA QueuedInPlace ==
  ASSUME IInv, NEW r \in Request, wreqs' = Append(wreqs, r),
         ~Own(r), ~r.blocking, r.type = FileType, user[r.array] \in r.may,
         UNCHANGED <<user, heap, nflushed, file>>
  PROVE  RequestsHaveMemory' /\ InPlaceNonblocking' /\ Promised' /\ WrittenAsPromised'
<1>0. PICK n : n = Len(wreqs) + 1
  OBVIOUS
<1>1. /\ DOMAIN wreqs' = DOMAIN wreqs \cup {n} /\ wreqs'[n] = r /\ n \notin DOMAIN wreqs
      /\ \A i \in DOMAIN wreqs : wreqs'[i] = wreqs[i]
  BY <1>0 DEF IInv, TypeOK
<1>2. Unflushed' \subseteq Unflushed \cup {n} /\ Unflushed \subseteq DOMAIN wreqs
  BY <1>1 DEF Unflushed
<1>3. RequestsHaveMemory'
  <2>1. ASSUME NEW i \in Unflushed, NEW j \in DOMAIN wreqs', Own(wreqs[i]),
               wreqs'[j].xbuf = wreqs[i].xbuf
        PROVE  j = i
    BY <2>1, <1>1, <1>2 DEF IInv, RequestsHaveMemory, Own
  <2> QED BY <2>1, <1>1, <1>2 DEF IInv, RequestsHaveMemory, Own
<1>4. Promised'
  BY <1>1, <1>2 DEF IInv, Promised, Content, Own
<1>5. WrittenAsPromised' /\ InPlaceNonblocking'
  BY <1>1 DEF IInv, WrittenAsPromised, InPlaceNonblocking, Own
<1> QED BY <1>3, <1>4, <1>5

\* A request with a new block that is large enough.
LEMMA QueuedCopy ==
  ASSUME IInv, NEW r \in Request, wreqs' = Append(wreqs, r),
         NEW b \in Block, heap' = Append(heap, b),
         r.xbuf = Len(heap) + 1, b.live, r.size <= b.size,
         ~r.failed => b.data.type = FileType /\ b.data.value \in r.may,
         UNCHANGED <<user, nflushed, file>>
  PROVE  RequestsHaveMemory' /\ InPlaceNonblocking' /\ Promised' /\ WrittenAsPromised'
<1>0. PICK n : n = Len(wreqs) + 1
  OBVIOUS
<1>1. /\ DOMAIN wreqs' = DOMAIN wreqs \cup {n} /\ wreqs'[n] = r /\ n \notin DOMAIN wreqs
      /\ \A i \in DOMAIN wreqs : wreqs'[i] = wreqs[i]
  BY <1>0 DEF IInv, TypeOK
<1>2. Unflushed' \subseteq Unflushed \cup {n} /\ Unflushed \subseteq DOMAIN wreqs
  BY <1>1 DEF Unflushed
<1>3. /\ heap'[r.xbuf] = b /\ r.xbuf \notin DOMAIN heap
      /\ \A k \in DOMAIN heap : heap'[k] = heap[k]
  BY NewBlock DEF IInv
<1>4. \A i \in DOMAIN wreqs : wreqs[i].xbuf \in {User} \cup DOMAIN heap
  BY DEF IInv, TypeOK
<1>5. r.xbuf # User /\ User \notin DOMAIN heap
  BY DEF IInv, TypeOK, User
<1>6. \A i \in DOMAIN wreqs : Content(wreqs[i])' = Content(wreqs[i])
  BY <1>1, <1>3, <1>4 DEF Content, Own
<1>7. RequestsHaveMemory'
  <2>1. ASSUME NEW i \in Unflushed, Own(wreqs[i])
        PROVE  /\ heap'[wreqs[i].xbuf].live /\ wreqs[i].size <= heap'[wreqs[i].xbuf].size
               /\ \A j \in DOMAIN wreqs' : wreqs'[j].xbuf = wreqs[i].xbuf => j = i
    <3>1. wreqs[i].xbuf \in DOMAIN heap BY <2>1, <1>2, <1>4 DEF Own
    <3>2. /\ heap[wreqs[i].xbuf].live /\ wreqs[i].size <= heap[wreqs[i].xbuf].size
          /\ \A j \in DOMAIN wreqs : wreqs[j].xbuf = wreqs[i].xbuf => j = i
      BY <2>1 DEF IInv, RequestsHaveMemory
    <3> QED BY <3>1, <3>2, <1>1, <1>3
  <2>2. \A j \in DOMAIN wreqs' : wreqs'[j].xbuf = r.xbuf => j = n
    BY <1>1, <1>3, <1>4, <1>5
  <2>3. ASSUME NEW i \in Unflushed, ~Own(wreqs[i]) PROVE wreqs[i].type = FileType
    BY <2>3 DEF IInv, RequestsHaveMemory
  <2>4. ASSUME NEW i \in Unflushed'
        PROVE  LET q == wreqs'[i]
               IN  IF Own(q) THEN /\ heap'[q.xbuf].live /\ q.size <= heap'[q.xbuf].size
                                  /\ \A j \in DOMAIN wreqs' : wreqs'[j].xbuf = q.xbuf => j = i
                   ELSE q.type = FileType
    <3>1. CASE i = n BY <3>1, <2>2, <1>1, <1>3, <1>5 DEF Own
    <3>2. CASE i # n
      <4>1. i \in Unflushed /\ wreqs'[i] = wreqs[i] BY <3>2, <1>1, <1>2
      <4> QED BY <4>1, <2>1, <2>3
    <3> QED BY <3>1, <3>2
  <2> QED BY <2>4 DEF RequestsHaveMemory, Own
<1>8. Promised'
  <2>1. Content(wreqs[n])' = b.data BY <1>1, <1>3, <1>5 DEF Content, Own
  <2>2. \A i \in Unflushed : Content(wreqs[i])' = Content(wreqs[i])
    BY <1>2, <1>6
  <2> QED BY <2>1, <2>2, <1>1, <1>2 DEF IInv, Promised
<1>9. WrittenAsPromised' /\ InPlaceNonblocking'
  BY <1>1, <1>5 DEF IInv, WrittenAsPromised, InPlaceNonblocking, Own
<1> QED BY <1>7, <1>8, <1>9

\* An array changes and requests may be dropped: what the array holds now is
\* added to what a nonblocking request may hold.
LEMMA Rewritten ==
  ASSUME IInv, NEW a \in Arrays, NEW v \in Values, NEW queue, queue = wreqs \/ queue = <<>>,
         user' = [user EXCEPT ![a] = v], wreqs' = Seen(a, v, queue),
         UNCHANGED <<heap, nflushed, file>>
  PROVE  /\ wreqs' \in Seq(Request) /\ Len(wreqs') \in {Len(wreqs), 0}
         /\ \A i \in DOMAIN wreqs' : wreqs'[i].xbuf \in {User} \cup DOMAIN heap
         /\ RequestsHaveMemory' /\ InPlaceNonblocking' /\ Promised' /\ WrittenAsPromised'
<1>1. queue \in Seq(Request) /\ Len(queue) \in {Len(wreqs), 0}
  <2>1. CASE queue = wreqs BY <2>1 DEF IInv, TypeOK
  <2>2. CASE queue = <<>> BY <2>2
  <2> QED BY <2>1, <2>2
<1>2. /\ wreqs' \in Seq(Request) /\ Len(wreqs') = Len(queue) /\ DOMAIN wreqs' = DOMAIN queue
      /\ \A i \in DOMAIN queue :
           /\ wreqs'[i].array = queue[i].array /\ wreqs'[i].xbuf = queue[i].xbuf
           /\ wreqs'[i].size = queue[i].size /\ wreqs'[i].type = queue[i].type
           /\ wreqs'[i].failed = queue[i].failed /\ wreqs'[i].blocking = queue[i].blocking
           /\ queue[i].may \subseteq wreqs'[i].may
           /\ ~queue[i].blocking /\ queue[i].array = a => v \in wreqs'[i].may
  <2>1. \A i \in DOMAIN queue : queue[i] \in Request BY <1>1
  <2> DEFINE new(q) == [q EXCEPT !.may = @ \cup {v}]
  <2>2. \A q \in Request :
          /\ new(q) \in Request /\ new(q).array = q.array /\ new(q).xbuf = q.xbuf
          /\ new(q).size = q.size /\ new(q).type = q.type /\ new(q).failed = q.failed
          /\ new(q).blocking = q.blocking /\ q.may \subseteq new(q).may /\ v \in new(q).may
    BY DEF Request
  <2>3. wreqs' = [i \in DOMAIN queue |->
          IF queue[i].array = a /\ ~queue[i].blocking THEN new(queue[i]) ELSE queue[i]]
    BY DEF Seen
  <2> HIDE DEF new
  <2>4. DOMAIN queue = 1 .. Len(queue) /\ Len(queue) \in Nat BY <1>1
  <2>5. \A i \in DOMAIN queue : wreqs'[i] \in Request BY <2>1, <2>2, <2>3
  <2>6. wreqs' \in Seq(Request) /\ Len(wreqs') = Len(queue) BY <2>3, <2>4, <2>5
  <2> QED BY <2>1, <2>2, <2>3, <2>6
<1>3. CASE queue = <<>>
  BY <1>1, <1>2, <1>3 DEF IInv, RequestsHaveMemory, InPlaceNonblocking, Promised,
     WrittenAsPromised, Unflushed
<1>4. CASE queue = wreqs
  <2>1. \A i \in DOMAIN wreqs : wreqs[i].xbuf \in {User} \cup DOMAIN heap
    BY DEF IInv, TypeOK
  <2>2. Unflushed' = Unflushed /\ Unflushed \subseteq DOMAIN wreqs
    BY <1>2, <1>4 DEF Unflushed
  <2>3. RequestsHaveMemory'
    <3>1. ASSUME NEW i \in Unflushed, Own(wreqs[i])
          PROVE  /\ heap[wreqs[i].xbuf].live /\ wreqs[i].size <= heap[wreqs[i].xbuf].size
                 /\ \A j \in DOMAIN wreqs : wreqs[j].xbuf = wreqs[i].xbuf => j = i
      BY <3>1 DEF IInv, RequestsHaveMemory
    <3>2. ASSUME NEW i \in Unflushed, ~Own(wreqs[i]) PROVE wreqs[i].type = FileType
      BY <3>2 DEF IInv, RequestsHaveMemory
    <3> QED BY <3>1, <3>2, <2>2, <1>2, <1>4 DEF RequestsHaveMemory, Own
  <2>4. Promised'
    <3>1. SUFFICES ASSUME NEW i \in Unflushed, ~wreqs[i].failed
                   PROVE  /\ Content(wreqs[i])'.type = FileType
                          /\ Content(wreqs[i])'.value \in wreqs'[i].may
      BY <2>2, <1>2, <1>4 DEF Promised
    <3>2. /\ Content(wreqs[i]).type = FileType /\ Content(wreqs[i]).value \in wreqs[i].may
      BY <3>1 DEF IInv, Promised
    <3>3. CASE Own(wreqs[i])
      BY <3>2, <3>3, <2>2, <1>2, <1>4 DEF Content, Own
    <3>4. CASE ~Own(wreqs[i]) /\ wreqs[i].array # a
      <4>1. user'[wreqs[i].array] = user[wreqs[i].array]
        BY <3>4, <2>2 DEF IInv, TypeOK, Request
      <4> QED BY <4>1, <3>2, <3>4, <2>2, <1>2, <1>4 DEF Content, Own
    <3>5. CASE ~Own(wreqs[i]) /\ wreqs[i].array = a
      <4>1. user'[a] = v BY DEF IInv, TypeOK
      <4>2. ~wreqs[i].blocking BY <3>5, <2>2 DEF IInv, InPlaceNonblocking
      <4> QED BY <4>1, <4>2, <3>2, <3>5, <2>2, <1>2, <1>4 DEF Content, Own
    <3> QED BY <3>3, <3>4, <3>5
  <2>5. WrittenAsPromised' /\ InPlaceNonblocking'
    BY <1>2, <1>4 DEF IInv, WrittenAsPromised, InPlaceNonblocking, Own
  <2> QED BY <1>1, <1>2, <1>4, <2>1, <2>3, <2>4, <2>5
<1> QED BY <1>3, <1>4

Entry == [data : Data, may : SUBSET Values, failed : BOOLEAN]
States == [now : {"open", "closed", "undefined"}, stray : BOOLEAN]

\* What memory and queue hold is data.
LEMMA ContentTyped ==
  ASSUME TypeOK, NEW i \in DOMAIN wreqs
  PROVE  Content(wreqs[i]) \in Data
<1>1. wreqs[i] \in Request /\ wreqs[i].xbuf \in {User} \cup DOMAIN heap
  BY DEF TypeOK
<1>2. CASE Own(wreqs[i])
  <2>1. heap[wreqs[i].xbuf] \in Block BY <1>1, <1>2 DEF TypeOK, Own
  <2> QED BY <2>1, <1>2 DEF Block, Content
<1>3. CASE ~Own(wreqs[i])
  BY <1>1, <1>3 DEF TypeOK, Content, Data, Request
<1> QED BY <1>2, <1>3

\* A flush writes what was promised and leaves nothing to be written.
LEMMA Flushed ==
  ASSUME IInv, FlushData, wreqs' = wreqs \/ wreqs' = <<>>, state' \in States,
         UNCHANGED <<filters, user, calls>>
  PROVE  IInv'
<1>1. CASE Unflushed = {}
  <2>1. UNCHANGED <<heap, nflushed, file, valid>> BY <1>1 DEF FlushData
  <2>2. CASE wreqs' = wreqs
    <3>1. TypeOK' BY <2>1, <2>2 DEF IInv, TypeOK, States
    <3> QED BY <3>1, <2>1, <2>2, Unmoved DEF IInv
  <2>3. CASE wreqs' = <<>>
    <3>1. TypeOK' BY <2>1, <2>3 DEF IInv, TypeOK, States
    <3> QED BY <3>1, <2>1, <2>3 DEF IInv, RequestsHaveMemory, InPlaceNonblocking, Promised,
                                    WrittenAsPromised, Unflushed
  <2> QED BY <2>2, <2>3
<1>2. CASE Unflushed # {}
  <2> DEFINE m == Len(wreqs) - nflushed
  <2>1. /\ file' = file \o Written /\ heap' = HeapWithout(Freed) /\ nflushed' = Len(wreqs)
        /\ valid' = [valid EXCEPT !.metadirty = TRUE]
    BY <1>2 DEF FlushData, NflushedAfter
  <2>2. m \in Nat /\ Len(wreqs) \in Nat /\ nflushed \in Nat /\ calls \in Nat /\ Len(wreqs) <= calls
    BY <1>2 DEF IInv, TypeOK, Unflushed
  <2>3. \A j \in 1 .. m : /\ nflushed + j \in Unflushed /\ nflushed + j \in DOMAIN wreqs
                          /\ Written[j].data = Content(wreqs[nflushed + j])
                          /\ Written[j].may = wreqs[nflushed + j].may
                          /\ Written[j].failed = wreqs[nflushed + j].failed
                          /\ Written[j] \in Entry
    <3>1. SUFFICES ASSUME NEW j \in 1 .. m
                   PROVE  /\ nflushed + j \in Unflushed /\ nflushed + j \in DOMAIN wreqs
                          /\ Written[j].data = Content(wreqs[nflushed + j])
                          /\ Written[j].may = wreqs[nflushed + j].may
                          /\ Written[j].failed = wreqs[nflushed + j].failed
                          /\ Written[j] \in Entry
      OBVIOUS
    <3>2. nflushed + j \in DOMAIN wreqs /\ nflushed + j \in Unflushed
      BY <2>2 DEF IInv, TypeOK, Unflushed
    <3>3. wreqs[nflushed + j] \in Request
      BY <3>2 DEF IInv, TypeOK
    <3>4. Content(wreqs[nflushed + j]) \in Data
      BY <3>2, ContentTyped DEF IInv
    <3> QED BY <3>2, <3>3, <3>4 DEF Written, Entry, Request
  <2>4. Written \in Seq(Entry) /\ Len(Written) = m
    <3>1. Written = [j \in 1 .. m |-> Written[j]] BY DEF Written
    <3> QED BY <3>1, <2>2, <2>3
  <2>5. file' \in Seq(Entry)
    BY <2>1, <2>4 DEF IInv, TypeOK, Entry
  <2>6. heap' \in Seq(Block) /\ DOMAIN heap' = DOMAIN heap
    <3>1. DOMAIN heap = 1 .. Len(heap) /\ Len(heap) \in Nat BY DEF IInv, TypeOK
    <3>2. ASSUME NEW k \in DOMAIN heap PROVE heap'[k] \in Block
      <4>1. heap[k] \in Block BY DEF IInv, TypeOK
      <4>2. heap'[k] = [heap[k] EXCEPT !.live = @ /\ k \notin Freed]
        BY <2>1 DEF HeapWithout
      <4> QED BY <4>1, <4>2 DEF Block
    <3>3. heap' = [k \in DOMAIN heap |-> heap'[k]] BY <2>1 DEF HeapWithout
    <3> QED BY <3>1, <3>2, <3>3
  <2>7. TypeOK'
    <3>1. wreqs' \in Seq(Request) /\ Len(wreqs') <= calls /\ nflushed' \in 0 .. calls
      <4>1. nflushed' \in 0 .. calls BY <2>1, <2>2
      <4>2. CASE wreqs' = wreqs BY <4>1, <4>2 DEF IInv, TypeOK
      <4>3. CASE wreqs' = <<>> BY <4>1, <4>3, <2>2
      <4> QED BY <4>1, <4>2, <4>3
    <3>2. \A i \in DOMAIN wreqs' : wreqs'[i].xbuf \in {User} \cup DOMAIN heap'
      BY <2>6 DEF IInv, TypeOK
    <3>3. valid' \in [metadirty : BOOLEAN, idxvalid : BOOLEAN]
      BY <2>1 DEF IInv, TypeOK
    <3> QED BY <2>5, <2>6, <3>1, <3>2, <3>3 DEF IInv, TypeOK, Entry, States
  <2>8. Unflushed' = {}
    <3>1. wreqs \in Seq(Request) BY DEF IInv, TypeOK
    <3>2. \A i \in DOMAIN wreqs' : i \in 1 .. Len(wreqs) BY <3>1
    <3> QED BY <3>2, <2>1, <2>2 DEF Unflushed
  <2>9. RequestsHaveMemory' /\ Promised'
    BY <2>8 DEF RequestsHaveMemory, Promised
  <2>10. InPlaceNonblocking'
    BY DEF IInv, InPlaceNonblocking, Own
  <2>11. WrittenAsPromised'
    <3>1. SUFFICES ASSUME NEW i \in DOMAIN file', ~file'[i].failed
                   PROVE  file'[i].data.type = FileType /\ file'[i].data.value \in file'[i].may
      BY DEF WrittenAsPromised
    <3>2. file \in Seq(Entry) BY DEF IInv, TypeOK, Entry
    <3>3. CASE i \in DOMAIN file
      <4>1. file'[i] = file[i] BY <3>2, <3>3, <2>1, <2>4
      <4> QED BY <3>1, <3>3, <4>1 DEF IInv, WrittenAsPromised
    <3>4. CASE i \notin DOMAIN file
      <4>1. PICK j \in 1 .. m : file'[i] = Written[j]
        <5>1. i - Len(file) \in 1 .. m /\ file'[i] = Written[i - Len(file)]
          BY <3>2, <3>4, <2>1, <2>2, <2>4
        <5> QED BY <5>1
      <4> QED BY <3>1, <4>1, <2>3 DEF IInv, Promised
    <3> QED BY <3>3, <3>4
  <2> QED BY <2>7, <2>9, <2>10, <2>11 DEF IInv
<1> QED BY <1>1, <1>2

-----------------------------------------------------------------------------
(* Initial states and steps *)

\* It holds when nothing has been opened.
LEMMA InitIInv == Init => IInv
<1> SUFFICES ASSUME Init PROVE IInv
  OBVIOUS
<1>1. TypeOK BY Parameters DEF Init, TypeOK
<1> QED BY <1>1 DEF Init, IInv, RequestsHaveMemory, InPlaceNonblocking, Promised,
                    WrittenAsPromised, Unflushed

\* A queued request keeps the bound and names a block there is.
LEMMA QueueTyped ==
  ASSUME TypeOK, Call, NEW r \in Request, wreqs' = Append(wreqs, r)
  PROVE  /\ wreqs' \in Seq(Request) /\ Len(wreqs') <= calls'
         /\ \A i \in DOMAIN wreqs' : wreqs'[i].xbuf \in {User, r.xbuf} \cup DOMAIN heap
<1>1. wreqs' \in Seq(Request) /\ Len(wreqs') <= calls'
  BY DEF TypeOK, Call
<1>2. \A i \in DOMAIN wreqs' : wreqs'[i].xbuf \in {User, r.xbuf} \cup DOMAIN heap
  BY DEF TypeOK
<1> QED BY <1>1, <1>2

\* Every step keeps it.
LEMMA StepIInv == IInv /\ [Next]_vars => IInv'
<1> SUFFICES ASSUME IInv, [Next]_vars PROVE IInv'
  OBVIOUS
<1>a. TypeOK /\ calls \in Nat /\ user \in [Arrays -> Values] /\ state \in States
  BY Parameters DEF IInv, TypeOK, States
<1>b. Call => calls' \in 0 .. MaxWrites /\ nflushed \in 0 .. calls' /\ Len(wreqs) <= calls'
  BY <1>a, Parameters DEF Call, TypeOK
<1>1. ASSUME NEW a \in Arrays, NEW v \in Values, Change(a, v) PROVE IInv'
  <2>1. user' = [user EXCEPT ![a] = v] /\ wreqs' = Seen(a, v, wreqs)
        /\ UNCHANGED <<filters, heap, bused, nflushed, valid, file, calls, state>>
    BY <1>1 DEF Change
  <2>2. /\ wreqs' \in Seq(Request) /\ Len(wreqs') \in {Len(wreqs), 0}
        /\ \A i \in DOMAIN wreqs' : wreqs'[i].xbuf \in {User} \cup DOMAIN heap
        /\ RequestsHaveMemory' /\ InPlaceNonblocking' /\ Promised' /\ WrittenAsPromised'
    BY <2>1, Rewritten
  <2>3. TypeOK' BY <1>a, <2>1, <2>2 DEF TypeOK
  <2> QED BY <2>2, <2>3 DEF IInv
<1>2. ASSUME NEW a \in Arrays, NEW n \in Lengths, NEW t \in Types, NEW blocking \in BOOLEAN,
             NEW contig \in BOOLEAN, H5DwriteInPlace(a, n, t, blocking, contig)
      PROVE  IInv'
  <2>1. /\ Call /\ ~blocking /\ t = FileType /\ Queue(a, User, n * SizeOf[FileType], t, blocking, FALSE)
        /\ UNCHANGED <<filters, user, heap, bused, nflushed, valid, file, state>>
    BY <1>2 DEF H5DwriteInPlace, Reuses
  <2> DEFINE r == [array |-> a, xbuf |-> User, size |-> n * SizeOf[FileType], type |-> t,
                   blocking |-> blocking, failed |-> FALSE, may |-> {user[a]}]
  <2>2. r \in Request BY <1>a, Room DEF Request, User
  <2>3. /\ wreqs' = Append(wreqs, r) /\ r.array = a /\ r.xbuf = User /\ r.type = t
        /\ r.blocking = blocking /\ r.may = {user[a]}
    BY <2>1 DEF Queue
  <2> HIDE DEF r
  <2>4. RequestsHaveMemory' /\ InPlaceNonblocking' /\ Promised' /\ WrittenAsPromised'
    BY <2>1, <2>2, <2>3, QueuedInPlace DEF Own
  <2>5. TypeOK' BY <1>a, <1>b, <2>1, <2>2, <2>3, QueueTyped DEF TypeOK
  <2> QED BY <2>4, <2>5 DEF IInv
<1>3. ASSUME NEW a \in Arrays, NEW n \in Lengths, NEW t \in Types, NEW blocking \in BOOLEAN,
             NEW contig \in BOOLEAN, H5DwriteCopy(a, n, t, blocking, contig)
      PROVE  IInv'
  <2>1. PICK converted \in {TRUE} \cup {t = FileType} :
          /\ Balloc(BlockSize(n, t),
               [type |-> IF converted THEN FileType ELSE t, value |-> user[a], deflated |-> 0])
          /\ Queue(a, Len(heap) + 1, n * SizeOf[FileType], t, blocking, ~converted)
    BY <1>3 DEF H5DwriteCopy
  <2>2. Call /\ UNCHANGED <<filters, user, nflushed, valid, file, state>>
    BY <1>3 DEF H5DwriteCopy
  <2> DEFINE d == [type |-> IF converted THEN FileType ELSE t, value |-> user[a], deflated |-> 0]
             b == [size |-> BlockSize(n, t), live |-> TRUE, header |-> TRUE, data |-> d]
  <2>3. d \in Data /\ b \in Block
    BY <1>a, Room, Parameters DEF Data, Block
  <2>4. heap' = Append(heap, b) BY <2>1 DEF Balloc
  <2>5. b.live /\ b.size = BlockSize(n, t) /\ b.data = d /\ d.value = user[a]
        /\ (converted => d.type = FileType)
    OBVIOUS
  <2>6. converted \in BOOLEAN BY <2>1
  <2> HIDE DEF b, d
  <2>7. Len(heap) + 1 \in Nat /\ n * SizeOf[FileType] \in Nat
        /\ n * SizeOf[FileType] <= BlockSize(n, t)
    BY <1>a, Room DEF TypeOK
  <2> DEFINE r == [array |-> a, xbuf |-> Len(heap) + 1, size |-> n * SizeOf[FileType],
                   type |-> t, blocking |-> blocking, failed |-> ~converted,
                   may |-> IF ~converted THEN Values ELSE {user[a]}]
  <2>8. r \in Request BY <1>a, <2>6, <2>7 DEF Request
  <2>11. /\ wreqs' = Append(wreqs, r) /\ r.xbuf = Len(heap) + 1
        /\ r.size = n * SizeOf[FileType] /\ r.failed = ~converted
        /\ r.may = IF ~converted THEN Values ELSE {user[a]}
    BY <2>1 DEF Queue
  <2> HIDE DEF r
  <2>9. RequestsHaveMemory' /\ InPlaceNonblocking' /\ Promised' /\ WrittenAsPromised'
    BY <2>2, <2>3, <2>4, <2>5, <2>6, <2>7, <2>8, <2>11, QueuedCopy
  <2>10. TypeOK'
    <3>1. heap' \in Seq(Block) /\ DOMAIN heap' = DOMAIN heap \cup {Len(heap) + 1}
      BY <1>a, <2>3, <2>4, NewBlock
    <3> QED BY <1>a, <1>b, <2>2, <2>8, <2>11, <3>1, QueueTyped DEF TypeOK
  <2> QED BY <2>9, <2>10 DEF IInv
\* A call that leaves a block behind, queues nothing and may fail.
<1>4. ASSUME Call, NEW b \in Block, heap' = Append(heap, b), state' \in States,
             UNCHANGED <<filters, user, wreqs, nflushed, valid, file>>
      PROVE  IInv'
  <2>1. RequestsHaveMemory' /\ InPlaceNonblocking' /\ Promised' /\ WrittenAsPromised'
    BY <1>4, StrayBlock
  <2>2. heap' \in Seq(Block) /\ DOMAIN heap' = DOMAIN heap \cup {Len(heap) + 1}
    BY <1>a, <1>4, NewBlock
  <2>3. TypeOK' BY <1>a, <1>b, <1>4, <2>2 DEF TypeOK, States
  <2> QED BY <2>1, <2>3 DEF IInv
\* A call that moves nothing.
<1>5. ASSUME calls' \in 0 .. MaxWrites, calls <= calls', state' \in States,
             valid' \in [metadirty : BOOLEAN, idxvalid : BOOLEAN],
             UNCHANGED <<filters, user, heap, wreqs, nflushed, file>>
      PROVE  IInv'
  <2>1. RequestsHaveMemory' /\ InPlaceNonblocking' /\ Promised' /\ WrittenAsPromised'
    BY <1>5, Unmoved
  <2>2. TypeOK' BY <1>a, <1>5 DEF TypeOK, States
  <2> QED BY <2>1, <2>2 DEF IInv
<1>d. (Undefined => state' \in States) /\ (Stray => state' \in States)
  BY <1>a DEF Undefined, Stray, States
<1>6. ASSUME NEW a \in Arrays, NEW n \in Lengths, NEW t \in Types, NEW blocking \in BOOLEAN,
             NEW contig \in BOOLEAN, H5DwriteFiltered(a, n, t, blocking, contig)
      PROVE  IInv'
  <2> DEFINE d == [type |-> FileType, value |-> user[a], deflated |-> Len(filters)]
             e == [type |-> FileType, value |-> user[a], deflated |-> 0]
  <2>0. filters \in Seq({"deflate", "other"}) BY <1>a, Parameters DEF TypeOK
  <2>1. d \in Data /\ e \in Data
    BY <1>a, <2>0, Parameters DEF Data
  <2>2. Call /\ UNCHANGED <<filters, user, nflushed, valid, file>>
    BY <1>6 DEF H5DwriteFiltered
  <2>3. CASE ~Supported /\ Reuses(blocking, t, contig)
    <3>1. UNCHANGED <<heap, bused, wreqs, state>> BY <1>6, <2>3 DEF H5DwriteFiltered
    <3>2. calls <= calls' BY <2>2, <1>a DEF Call
    <3> QED BY <1>a, <1>b, <1>5, <2>2, <3>1, <3>2 DEF TypeOK
  <2>4. CASE ~Supported /\ ~Reuses(blocking, t, contig)
    <3>1. Balloc(BlockSize(n, t), [d EXCEPT !.deflated = 0]) /\ Stray /\ UNCHANGED wreqs
      BY <1>6, <2>4 DEF H5DwriteFiltered
    <3>2. [d EXCEPT !.deflated = 0] = e OBVIOUS
    <3> HIDE DEF d, e
    <3>3. PICK b \in Block : heap' = Append(heap, b)
      <4>1. [size |-> BlockSize(n, t), live |-> TRUE, header |-> TRUE, data |-> e] \in Block
        BY <2>1, Room DEF Block
      <4> QED BY <4>1, <3>1, <3>2 DEF Balloc
    <3> QED BY <1>4, <1>d, <2>2, <3>1, <3>3
  <2>5. CASE Supported /\ ~Reuses(blocking, t, contig)
    <3>1. Undefined /\ UNCHANGED <<heap, bused, wreqs>> BY <1>6, <2>5 DEF H5DwriteFiltered
    <3>2. calls <= calls' BY <2>2, <1>a DEF Call
    <3> QED BY <1>a, <1>b, <1>d, <1>5, <2>2, <3>1, <3>2 DEF TypeOK
  <2>6. CASE Supported /\ Reuses(blocking, t, contig)
    <3>1. /\ Malloc(n * SizeOf[FileType], d) /\ UNCHANGED state
          /\ Queue(a, Len(heap) + 1, n * SizeOf[FileType], t, blocking, FALSE)
      BY <1>6, <2>6 DEF H5DwriteFiltered
    <3> DEFINE b == [size |-> n * SizeOf[FileType], live |-> TRUE, header |-> FALSE, data |-> d]
    <3>2. n * SizeOf[FileType] \in Nat /\ Len(heap) + 1 \in Nat BY <1>a, Room DEF TypeOK
    <3>3. b \in Block BY <2>1, <3>2 DEF Block
    <3>4. heap' = Append(heap, b) BY <3>1 DEF Malloc
    <3>5. b.live /\ b.size = n * SizeOf[FileType] /\ b.data.type = FileType
          /\ b.data.value = user[a]
      OBVIOUS
    <3> HIDE DEF b, d
    <3> DEFINE r == [array |-> a, xbuf |-> Len(heap) + 1, size |-> n * SizeOf[FileType],
                     type |-> t, blocking |-> blocking, failed |-> FALSE, may |-> {user[a]}]
    <3>6. r \in Request BY <1>a, <3>2 DEF Request
    <3>10. /\ wreqs' = Append(wreqs, r) /\ r.xbuf = Len(heap) + 1
          /\ r.size = n * SizeOf[FileType] /\ r.may = {user[a]}
      BY <3>1 DEF Queue
    <3> HIDE DEF r
    <3>7. RequestsHaveMemory' /\ InPlaceNonblocking' /\ Promised' /\ WrittenAsPromised'
      BY <2>2, <3>2, <3>3, <3>4, <3>5, <3>6, <3>10, QueuedCopy
    <3>8. heap' \in Seq(Block) /\ DOMAIN heap' = DOMAIN heap \cup {Len(heap) + 1}
      BY <1>a, <3>3, <3>4, NewBlock
    <3>9. TypeOK' BY <1>a, <1>b, <2>2, <3>1, <3>6, <3>10, <3>8, QueueTyped DEF TypeOK
    <3> QED BY <3>7, <3>9 DEF IInv
  <2> QED BY <2>3, <2>4, <2>5, <2>6
<1>7. ASSUME NEW a \in Arrays, NEW n \in Lengths, NEW t \in Types, H5DwriteUnpackable(a, n, t)
      PROVE  IInv'
  <2> DEFINE d == [type |-> t, value |-> user[a], deflated |-> 0]
             b == [size |-> BlockSize(n, t), live |-> TRUE, header |-> TRUE, data |-> d]
  <2>1. b \in Block BY <1>a, Room DEF Block, Data
  <2>2. heap' = Append(heap, b) BY <1>7 DEF H5DwriteUnpackable, Balloc
  <2> HIDE DEF b
  <2> QED BY <1>4, <1>d, <1>7, <2>1, <2>2 DEF H5DwriteUnpackable
<1>8. ASSUME NEW t \in Types, NEW blocking \in BOOLEAN, NEW contig \in BOOLEAN,
             H5DwriteOutOfMemory(t, blocking, contig)
      PROVE  IInv'
  <2>1. Call /\ Undefined /\ UNCHANGED <<filters, user, heap, bused, wreqs, nflushed, valid, file>>
    BY <1>8 DEF H5DwriteOutOfMemory
  <2>2. calls <= calls' BY <2>1, <1>a DEF Call
  <2> QED BY <1>a, <1>b, <1>d, <1>5, <2>1, <2>2 DEF TypeOK
<1>9. CASE H5Fflush
  <2>1. FlushData /\ UNCHANGED <<filters, user, wreqs, calls, state>> BY <1>9 DEF H5Fflush
  <2> QED BY <1>a, <2>1, Flushed
<1>10. CASE H5FflushUndefined
  <2>1. Undefined /\ UNCHANGED <<filters, user, heap, wreqs, nflushed, valid, file, calls>>
    BY <1>10 DEF H5FflushUndefined
  <2> QED BY <1>a, <1>d, <1>5, <2>1 DEF TypeOK
<1>11. CASE H5Fclose
  <2>1. /\ FlushData /\ UNCHANGED <<filters, user, calls>>
        /\ wreqs' = <<>> /\ state' = [state EXCEPT !.now = "closed"]
    BY <1>11 DEF H5Fclose
  <2>2. state' \in States BY <1>a, <2>1 DEF States
  <2> QED BY <2>1, <2>2, Flushed
<1>e. UpdateIndex => /\ valid' \in [metadirty : BOOLEAN, idxvalid : BOOLEAN]
                     /\ state' \in States
  BY <1>a, <1>d DEF UpdateIndex, TypeOK
<1>12. ASSUME NEW a \in Arrays, H5Dread(a) PROVE IInv'
  <2>1. UpdateIndex /\ UNCHANGED <<filters, heap, bused, nflushed, file, calls>>
    BY <1>12 DEF H5Dread
  <2>2. PICK v \in {user[a]} \cup {file[i].data.value : i \in DOMAIN file} :
          user' = [user EXCEPT ![a] = v] /\ wreqs' = Seen(a, v, Queued)
    BY <1>12 DEF H5Dread
  <2>3. v \in Values
    <3>1. ASSUME NEW i \in DOMAIN file PROVE file[i].data.value \in Values
      <4>1. file \in Seq(Entry) BY <1>a DEF TypeOK, Entry
      <4>2. file[i] \in Entry BY <4>1
      <4> QED BY <4>2 DEF Entry, Data
    <3> QED BY <1>a, <3>1
  <2>4. Queued = wreqs \/ Queued = <<>> BY DEF Queued
  <2>5. /\ wreqs' \in Seq(Request) /\ Len(wreqs') \in {Len(wreqs), 0}
        /\ \A i \in DOMAIN wreqs' : wreqs'[i].xbuf \in {User} \cup DOMAIN heap
        /\ RequestsHaveMemory' /\ InPlaceNonblocking' /\ Promised' /\ WrittenAsPromised'
    BY <2>1, <2>2, <2>3, <2>4, Rewritten
  <2>6. TypeOK' BY <1>a, <1>e, <2>1, <2>2, <2>3, <2>5 DEF TypeOK, States
  <2> QED BY <2>5, <2>6 DEF IInv
<1>13. ASSUME NEW found \in BOOLEAN, H5DreadThroughBlock(found) PROVE IInv'
  <2>1. UNCHANGED <<filters, user, heap, bused, nflushed, file, calls>>
    BY <1>13 DEF H5DreadThroughBlock
  <2>2. CASE found
    <3>1. Undefined /\ UNCHANGED <<wreqs, valid>> BY <1>13, <2>2 DEF H5DreadThroughBlock
    <3> QED BY <1>a, <1>d, <1>5, <2>1, <3>1 DEF TypeOK
  <2>3. CASE ~found
    <3>1. UpdateIndex /\ wreqs' = Queued BY <1>13, <2>3 DEF H5DreadThroughBlock
    <3>2. CASE wreqs' = wreqs BY <1>a, <1>e, <1>5, <2>1, <3>1, <3>2 DEF TypeOK
    <3>3. CASE wreqs' = <<>>
      <4>1. TypeOK' BY <1>a, <1>e, <2>1, <3>1, <3>3 DEF TypeOK, States
      <4> QED BY <4>1, <2>1, <3>3 DEF IInv, RequestsHaveMemory, InPlaceNonblocking, Promised,
                                      WrittenAsPromised, Unflushed
    <3> QED BY <3>1, <3>2, <3>3 DEF Queued
  <2> QED BY <2>2, <2>3
<1>14. ASSUME NEW own \in BOOLEAN, H5DreadQueued(own) PROVE IInv'
  <2>1. Call /\ UNCHANGED <<filters, user, wreqs, nflushed, valid, file>>
    BY <1>14 DEF H5DreadQueued
  <2>2. CASE own
    <3> DEFINE v == CHOOSE v \in Values : TRUE
               d == [type |-> FileType, value |-> v, deflated |-> 0]
               b == [size |-> 0, live |-> TRUE, header |-> TRUE, data |-> d]
    <3>1. v \in Values BY Parameters
    <3>2. b \in Block BY <3>1, Parameters DEF Block, Data
    <3>3. Stray /\ heap' = Append(heap, b) BY <1>14, <2>2 DEF H5DreadQueued, Balloc
    <3> HIDE DEF b
    <3> QED BY <1>4, <1>d, <2>1, <3>2, <3>3
  <2>3. CASE ~own
    <3>1. UNCHANGED <<heap, bused, state>> BY <1>14, <2>3 DEF H5DreadQueued
    <3>2. calls <= calls' BY <2>1, <1>a DEF Call
    <3> QED BY <1>a, <1>b, <1>5, <2>1, <3>1, <3>2 DEF TypeOK
  <2> QED BY <2>2, <2>3
<1>15. CASE UNCHANGED vars
  BY <1>a, <1>5, <1>15 DEF TypeOK, vars
<1> QED BY <1>1, <1>2, <1>3, <1>6, <1>7, <1>8, <1>9, <1>10, <1>11, <1>12, <1>13, <1>14, <1>15
        DEF Next

-----------------------------------------------------------------------------
(* What is left behind *)

\* While no call has failed and no request was dropped, the blocks that are not
\* freed are those of the requests to be flushed.  The next request queued is
\* then one of these, which needs that nflushed has not run past the queue, and
\* a closed file has none.
Tidy ==
  ~state.stray =>
    /\ state.now # "undefined" => Live = Freed
    /\ state.now = "open" => nflushed <= Len(wreqs)
    /\ state.now = "closed" => wreqs = <<>>

\* A queue with the blocks of the same requests has the same blocks to free.
LEMMA SameFreed ==
  ASSUME UNCHANGED nflushed, DOMAIN wreqs' = DOMAIN wreqs,
         \A i \in DOMAIN wreqs : wreqs'[i].xbuf = wreqs[i].xbuf
  PROVE  Freed' = Freed
<1>1. Unflushed' = Unflushed /\ Unflushed \subseteq DOMAIN wreqs
  BY DEF Unflushed
<1> QED BY <1>1 DEF Freed, Own

\* What an array holds does not move the requests or their blocks.
LEMMA SeenKeeps ==
  ASSUME TypeOK, NEW a, NEW v, wreqs' = Seen(a, v, wreqs)
  PROVE  /\ DOMAIN wreqs' = DOMAIN wreqs /\ Len(wreqs') = Len(wreqs)
         /\ \A i \in DOMAIN wreqs : wreqs'[i].xbuf = wreqs[i].xbuf
<1>1. wreqs \in Seq(Request) BY DEF TypeOK
<1>2. DOMAIN wreqs = 1 .. Len(wreqs) /\ Len(wreqs) \in Nat BY <1>1
<1>3. DOMAIN wreqs' = DOMAIN wreqs BY DEF Seen
<1>4. Len(wreqs') = Len(wreqs) BY <1>2, <1>3
<1>5. ASSUME NEW i \in DOMAIN wreqs PROVE wreqs'[i].xbuf = wreqs[i].xbuf
  <2>1. wreqs[i] \in Request BY <1>1
  <2> QED BY <2>1 DEF Seen, Request
<1> QED BY <1>3, <1>4, <1>5

\* A request that is queued last is one to be flushed.
LEMMA QueuedFreed ==
  ASSUME TypeOK, nflushed <= Len(wreqs), UNCHANGED nflushed,
         NEW r, wreqs' = Append(wreqs, r)
  PROVE  /\ nflushed' <= Len(wreqs')
         /\ Freed' = Freed \cup (IF Own(r) THEN {r.xbuf} ELSE {})
<1>1. nflushed \in Nat /\ Len(wreqs) \in Nat
  BY DEF TypeOK
<1>2. PICK n : n = Len(wreqs) + 1
  OBVIOUS
<1>3. /\ DOMAIN wreqs' = DOMAIN wreqs \cup {n} /\ wreqs'[n] = r /\ n \notin DOMAIN wreqs
      /\ \A i \in DOMAIN wreqs : wreqs'[i] = wreqs[i]
      /\ Len(wreqs') = n
  BY <1>2 DEF TypeOK
<1>4. Unflushed' = Unflushed \cup {n} /\ Unflushed \subseteq DOMAIN wreqs
  BY <1>1, <1>2, <1>3 DEF Unflushed
<1>5. Freed' = Freed \cup (IF Own(r) THEN {r.xbuf} ELSE {})
  BY <1>3, <1>4 DEF Freed, Own
<1> QED BY <1>1, <1>2, <1>3, <1>5

\* A new block is one that is not freed.
LEMMA NewLive ==
  ASSUME TypeOK, NEW b \in Block, heap' = Append(heap, b), b.live
  PROVE  Live' = Live \cup {Len(heap) + 1}
BY NewBlock DEF Live

\* A flush frees every block there is, and leaves no request for the next.
LEMMA FlushFrees ==
  ASSUME TypeOK, FlushData, Live = Freed, wreqs' = wreqs \/ wreqs' = <<>>,
         nflushed <= Len(wreqs)
  PROVE  /\ Live' = {} /\ Freed' = {}
         /\ wreqs' = wreqs => nflushed' <= Len(wreqs')
<1>1. nflushed \in Nat /\ Len(wreqs) \in Nat /\ DOMAIN wreqs = 1 .. Len(wreqs)
  BY DEF TypeOK
<1>2. CASE Unflushed = {}
  <2>1. UNCHANGED <<heap, nflushed>> BY <1>2 DEF FlushData
  <2>2. Unflushed' = {} BY <1>2, <2>1 DEF Unflushed
  <2> QED BY <1>2, <2>1, <2>2 DEF Freed, Live
<1>3. CASE Unflushed # {}
  <2>1. heap' = HeapWithout(Freed) /\ nflushed' = Len(wreqs)
    BY <1>3 DEF FlushData, NflushedAfter
  <2>2. ASSUME NEW k \in DOMAIN heap PROVE heap'[k].live = (heap[k].live /\ k \notin Freed)
    <3>1. heap[k] \in Block BY DEF TypeOK
    <3>2. heap'[k] = [heap[k] EXCEPT !.live = heap[k].live /\ k \notin Freed]
      BY <2>1 DEF HeapWithout
    <3> QED BY <3>1, <3>2, Zenon DEF Block
  <2>3. DOMAIN heap' = DOMAIN heap
    BY <2>1 DEF HeapWithout
  <2>4. Live' = {}
    BY <2>2, <2>3 DEF Live
  <2>5. Unflushed' = {}
    BY <1>1, <2>1 DEF Unflushed
  <2> QED BY <1>1, <2>1, <2>4, <2>5 DEF Freed
<1> QED BY <1>2, <1>3

\* Every action either leaves something behind or keeps the blocks and the
\* requests together.
LEMMA StepTidy == TypeOK /\ Tidy /\ [Next]_vars => Tidy'
<1> SUFFICES ASSUME TypeOK, Tidy, [Next]_vars PROVE Tidy'
  OBVIOUS
<1>a. state \in States
  BY DEF TypeOK, States
<1>b. IsOpen /\ ~state.stray =>
        Live = Freed /\ nflushed <= Len(wreqs)
  BY <1>a DEF Tidy, IsOpen
<1>c. /\ Stray => state'.stray
      /\ Undefined => state'.now = "undefined" /\ state'.stray = state.stray
  BY <1>a DEF Stray, Undefined, States
\* A step that keeps the requests, as far as their blocks go, and the blocks.
<1>1. ASSUME IsOpen, UNCHANGED <<heap, nflushed, state>>, DOMAIN wreqs' = DOMAIN wreqs,
             Len(wreqs') = Len(wreqs), \A i \in DOMAIN wreqs : wreqs'[i].xbuf = wreqs[i].xbuf
      PROVE  Tidy'
  <2>1. Freed' = Freed BY <1>1, SameFreed
  <2>2. Live' = Live BY <1>1 DEF Live
  <2> QED BY <1>1, <1>b, <2>1, <2>2 DEF Tidy, IsOpen
\* One that leaves something behind, or is undefined.
<1>2. ASSUME Stray PROVE Tidy'
  BY <1>2, <1>c DEF Tidy
<1>3. ASSUME Undefined PROVE Tidy'
  BY <1>3, <1>c DEF Tidy
\* One that queues a request with a new block, or one without.
<1>4. ASSUME IsOpen, UNCHANGED <<nflushed, state>>, NEW r, wreqs' = Append(wreqs, r),
             \/ ~Own(r) /\ UNCHANGED heap
             \/ /\ Own(r) /\ r.xbuf = Len(heap) + 1
                /\ \E b \in Block : heap' = Append(heap, b) /\ b.live
      PROVE  Tidy'
  <2>1. SUFFICES ASSUME ~state.stray PROVE Live' = Freed' /\ nflushed' <= Len(wreqs')
    BY <1>4 DEF Tidy, IsOpen
  <2>2. Live = Freed /\ nflushed <= Len(wreqs)
    BY <1>4, <1>b, <2>1
  <2>3. /\ nflushed' <= Len(wreqs')
        /\ Freed' = Freed \cup (IF Own(r) THEN {r.xbuf} ELSE {})
    BY <1>4, <2>2, QueuedFreed
  <2>4. CASE ~Own(r) /\ UNCHANGED heap
    BY <2>2, <2>3, <2>4 DEF Live
  <2>5. CASE /\ Own(r) /\ r.xbuf = Len(heap) + 1
             /\ \E b \in Block : heap' = Append(heap, b) /\ b.live
    BY <2>2, <2>3, <2>5, NewLive
  <2> QED BY <1>4, <2>3, <2>4, <2>5
<1>5. ASSUME NEW a \in Arrays, NEW v \in Values, Change(a, v) PROVE Tidy'
  <2>1. IsOpen /\ wreqs' = Seen(a, v, wreqs) /\ UNCHANGED <<heap, nflushed, state>>
    BY <1>5 DEF Change
  <2>2. DOMAIN wreqs' = DOMAIN wreqs /\ Len(wreqs') = Len(wreqs)
        /\ \A i \in DOMAIN wreqs : wreqs'[i].xbuf = wreqs[i].xbuf
    BY <2>1, SeenKeeps
  <2> QED BY <1>1, <2>1, <2>2
<1>6. ASSUME NEW a \in Arrays, NEW n \in Lengths, NEW t \in Types, NEW blocking \in BOOLEAN,
             NEW contig \in BOOLEAN, H5DwriteInPlace(a, n, t, blocking, contig)
      PROVE  Tidy'
  <2> DEFINE r == [array |-> a, xbuf |-> User, size |-> n * SizeOf[FileType], type |-> t,
                   blocking |-> blocking, failed |-> FALSE, may |-> {user[a]}]
  <2>1. IsOpen /\ wreqs' = Append(wreqs, r) /\ UNCHANGED <<heap, nflushed, state>>
    BY <1>6 DEF H5DwriteInPlace, Queue, Call
  <2>2. ~Own(r) BY DEF Own
  <2> HIDE DEF r
  <2> QED BY <1>4, <2>1, <2>2
<1>7. ASSUME NEW a \in Arrays, NEW n \in Lengths, NEW t \in Types, NEW blocking \in BOOLEAN,
             NEW contig \in BOOLEAN, H5DwriteCopy(a, n, t, blocking, contig)
      PROVE  Tidy'
  <2>1. PICK converted \in {TRUE} \cup {t = FileType} :
          /\ Balloc(BlockSize(n, t),
               [type |-> IF converted THEN FileType ELSE t, value |-> user[a], deflated |-> 0])
          /\ Queue(a, Len(heap) + 1, n * SizeOf[FileType], t, blocking, ~converted)
    BY <1>7 DEF H5DwriteCopy
  <2> DEFINE d == [type |-> IF converted THEN FileType ELSE t, value |-> user[a], deflated |-> 0]
             b == [size |-> BlockSize(n, t), live |-> TRUE, header |-> TRUE, data |-> d]
             r == [array |-> a, xbuf |-> Len(heap) + 1, size |-> n * SizeOf[FileType],
                   type |-> t, blocking |-> blocking, failed |-> ~converted,
                   may |-> IF ~converted THEN Values ELSE {user[a]}]
  <2>2. IsOpen /\ UNCHANGED <<nflushed, state>> BY <1>7 DEF H5DwriteCopy, Call
  <2>3. b \in Block /\ b.live
    <3>1. user[a] \in Values BY DEF TypeOK
    <3> QED BY <3>1, Room, Parameters DEF Data, Block
  <2>4. heap' = Append(heap, b) /\ wreqs' = Append(wreqs, r) BY <2>1 DEF Balloc, Queue
  <2>5. Own(r) /\ r.xbuf = Len(heap) + 1
    BY DEF Own, User, TypeOK
  <2> HIDE DEF b, r
  <2> QED BY <1>4, <2>2, <2>3, <2>4, <2>5
<1>8. ASSUME NEW a \in Arrays, NEW n \in Lengths, NEW t \in Types, NEW blocking \in BOOLEAN,
             NEW contig \in BOOLEAN, H5DwriteFiltered(a, n, t, blocking, contig)
      PROVE  Tidy'
  <2>1. IsOpen /\ UNCHANGED nflushed BY <1>8 DEF H5DwriteFiltered, Call
  <2>2. CASE ~Supported /\ Reuses(blocking, t, contig)
    <3>1. UNCHANGED <<heap, wreqs, state>> BY <1>8, <2>2 DEF H5DwriteFiltered
    <3> QED BY <1>1, <2>1, <3>1
  <2>3. CASE ~Supported /\ ~Reuses(blocking, t, contig)
    BY <1>2, <1>8, <2>3 DEF H5DwriteFiltered
  <2>4. CASE Supported /\ ~Reuses(blocking, t, contig)
    BY <1>3, <1>8, <2>4 DEF H5DwriteFiltered
  <2>5. CASE Supported /\ Reuses(blocking, t, contig)
    <3> DEFINE d == [type |-> FileType, value |-> user[a], deflated |-> Len(filters)]
               b == [size |-> n * SizeOf[FileType], live |-> TRUE, header |-> FALSE, data |-> d]
               r == [array |-> a, xbuf |-> Len(heap) + 1, size |-> n * SizeOf[FileType],
                     type |-> t, blocking |-> blocking, failed |-> FALSE, may |-> {user[a]}]
    <3>1. /\ Malloc(n * SizeOf[FileType], d) /\ UNCHANGED state
          /\ Queue(a, Len(heap) + 1, n * SizeOf[FileType], t, blocking, FALSE)
      BY <1>8, <2>5 DEF H5DwriteFiltered
    <3>2. b \in Block /\ b.live
      <4>1. user[a] \in Values /\ filters \in Seq({"deflate", "other"})
        BY Parameters DEF TypeOK
      <4>2. d \in Data BY <4>1, Parameters DEF Data
      <4> HIDE DEF d
      <4> QED BY <4>2, Room DEF Block
    <3>3. heap' = Append(heap, b) /\ wreqs' = Append(wreqs, r) BY <3>1 DEF Malloc, Queue
    <3>4. Own(r) /\ r.xbuf = Len(heap) + 1
      BY DEF Own, User, TypeOK
    <3> HIDE DEF b, r
    <3> QED BY <1>4, <2>1, <3>1, <3>2, <3>3, <3>4
  <2> QED BY <2>2, <2>3, <2>4, <2>5
<1>9. CASE H5Fflush
  <2>1. IsOpen /\ FlushData /\ UNCHANGED <<wreqs, state>> BY <1>9 DEF H5Fflush
  <2> QED BY <1>b, <2>1, FlushFrees DEF Tidy, IsOpen
<1>10. CASE H5Fclose
  <2>1. IsOpen /\ FlushData /\ wreqs' = <<>> BY <1>10 DEF H5Fclose
  <2>2. state'.now = "closed" /\ state'.stray = state.stray BY <1>a, <1>10 DEF H5Fclose, States
  <2> QED BY <1>b, <2>1, <2>2, FlushFrees DEF Tidy
\* A read updates the index, and drops requests or none.
<1>d. UpdateIndex => Stray \/ (Queued = wreqs /\ UNCHANGED state)
  BY DEF UpdateIndex, Queued
<1>11. ASSUME NEW a \in Arrays, H5Dread(a) PROVE Tidy'
  <2>1. IsOpen /\ UpdateIndex /\ UNCHANGED <<heap, nflushed>> BY <1>11 DEF H5Dread
  <2>2. PICK v : wreqs' = Seen(a, v, Queued) BY <1>11 DEF H5Dread
  <2>3. CASE Queued = wreqs /\ UNCHANGED state
    <3>1. DOMAIN wreqs' = DOMAIN wreqs /\ Len(wreqs') = Len(wreqs)
          /\ \A i \in DOMAIN wreqs : wreqs'[i].xbuf = wreqs[i].xbuf
      BY <2>2, <2>3, SeenKeeps
    <3> QED BY <1>1, <2>1, <2>3, <3>1
  <2> QED BY <1>d, <1>2, <2>1, <2>3
<1>12. ASSUME NEW found \in BOOLEAN, H5DreadThroughBlock(found) PROVE Tidy'
  <2>1. IsOpen /\ UNCHANGED <<heap, nflushed>> BY <1>12 DEF H5DreadThroughBlock
  <2>2. CASE found BY <1>3, <1>12, <2>2 DEF H5DreadThroughBlock
  <2>3. CASE ~found
    <3>1. UpdateIndex /\ wreqs' = Queued BY <1>12, <2>3 DEF H5DreadThroughBlock
    <3> QED BY <1>d, <1>1, <1>2, <2>1, <3>1
  <2> QED BY <2>2, <2>3
<1>13. ASSUME NEW own \in BOOLEAN, H5DreadQueued(own) PROVE Tidy'
  <2>1. IsOpen /\ UNCHANGED <<wreqs, nflushed>> BY <1>13 DEF H5DreadQueued, Call
  <2>2. CASE own BY <1>2, <1>13, <2>2 DEF H5DreadQueued
  <2>3. CASE ~own
    <3>1. UNCHANGED <<heap, state>> BY <1>13, <2>3 DEF H5DreadQueued
    <3> QED BY <1>1, <2>1, <3>1
  <2> QED BY <2>2, <2>3
<1>14. ASSUME NEW a \in Arrays, NEW n \in Lengths, NEW t \in Types, H5DwriteUnpackable(a, n, t)
       PROVE  Tidy'
  BY <1>2, <1>14 DEF H5DwriteUnpackable
<1>15. ASSUME NEW t \in Types, NEW blocking \in BOOLEAN, NEW contig \in BOOLEAN,
              H5DwriteOutOfMemory(t, blocking, contig)
       PROVE  Tidy'
  BY <1>3, <1>15 DEF H5DwriteOutOfMemory
<1>16. CASE H5FflushUndefined
  BY <1>3, <1>16 DEF H5FflushUndefined
<1>17. CASE UNCHANGED vars
  <2>1. UNCHANGED <<heap, wreqs, nflushed, state>> BY <1>17 DEF vars
  <2>2. Freed' = Freed BY <2>1, SameFreed
  <2>3. Live' = Live BY <2>1 DEF Live
  <2> QED BY <2>1, <2>2, <2>3 DEF Tidy
<1> QED BY <1>5, <1>6, <1>7, <1>8, <1>9, <1>10, <1>11, <1>12, <1>13, <1>14, <1>15, <1>16, <1>17
        DEF Next

-----------------------------------------------------------------------------
(* The counter of the memory in use *)

\* The sizes of blocks, as Buffers adds them up, and as FoldLemmas speaks of it.
SizesOf(f, S) == MapThenSumSet(LAMBDA k : f[k].size, S)
\* The memory of a set of blocks is a sum over them.
LEMMA SizesAreSum ==
  ASSUME NEW f, NEW S, IsFiniteSet(S), \A k \in S : f[k].size \in Int
  PROVE  SizesOf(f, S) = SumFunctionOnSet([k \in S |-> f[k].size], S)
<1> DEFINE fun == [k \in S |-> f[k].size]
           Eq(iter) == iter = [s \in SUBSET S |-> IF s = {} THEN 0
                         ELSE LET x == CHOOSE x \in s : TRUE IN f[x].size + iter[s \ {x}]]
<1>0. \A k \in S : fun[k] \in Int /\ fun[k] = f[k].size
  OBVIOUS
<1> HIDE DEF fun
<1>1. PICK g \in FoldOf(Int, Plus, 0, fun, S) : SumFunctionOnSet(fun, S) = g[S]
  BY <1>0, SumIsFold
<1>2. Eq(g)
  <2>1. \A s \in SUBSET S : s # {} =>
          AnyOf(s) \in s /\ g[s] = f[AnyOf(s)].size + g[s \ {AnyOf(s)}]
    <3> SUFFICES ASSUME NEW s \in SUBSET S, s # {}
                 PROVE  AnyOf(s) \in s /\ g[s] = f[AnyOf(s)].size + g[s \ {AnyOf(s)}]
      OBVIOUS
    <3>1. AnyOf(s) \in s
      BY AnyIsElement
    <3>2. fun[AnyOf(s)] = f[AnyOf(s)].size /\ fun[AnyOf(s)] \in Int /\ g[s \ {AnyOf(s)}] \in Int
      BY <1>0, <3>1 DEF FoldOf
    <3> QED BY <3>1, <3>2, PlusCommutes DEF FoldOf, FoldsTo
  <2>2. g[{}] = 0 /\ g = [s \in SUBSET S |-> g[s]]
    BY DEF FoldOf, FoldsTo
  <2> QED BY <2>1, <2>2 DEF AnyOf
<1>3. \E iter : Eq(iter) /\ SizesOf(f, S) = iter[S]
  BY <1>2 DEF SizesOf, MapThenSumSet, MapThenFoldSet
<1>4. PICK iter : Eq(iter) /\ SizesOf(f, S) = iter[S]
  BY <1>3
<1>5. iter \in FoldOf(Int, Plus, 0, fun, S)
  <2>1. iter[{}] = 0 /\ DOMAIN iter = SUBSET S /\ iter = [s \in SUBSET S |-> iter[s]]
    BY <1>4
  <2>2. \A s \in SUBSET S : s # {} => iter[s] = f[AnyOf(s)].size + iter[s \ {AnyOf(s)}]
    BY <1>4 DEF AnyOf
  <2> HIDE DEF Eq
  <2>3. \A s \in SUBSET S : s # {} /\ iter[s \ {AnyOf(s)}] \in Int =>
          iter[s] = Plus[<<fun[AnyOf(s)], iter[s \ {AnyOf(s)}]>>]
    <3> SUFFICES ASSUME NEW s \in SUBSET S, s # {}, iter[s \ {AnyOf(s)}] \in Int
                 PROVE  iter[s] = Plus[<<fun[AnyOf(s)], iter[s \ {AnyOf(s)}]>>]
      OBVIOUS
    <3>1. fun[AnyOf(s)] = f[AnyOf(s)].size /\ fun[AnyOf(s)] \in Int
      BY <1>0, AnyIsElement
    <3> QED BY <2>2, <3>1, PlusCommutes
  <2> QED BY <1>0, <2>1, <2>3, IsTheFold, PlusCommutes
<1>6. g[S] = iter[S]
  BY <1>5, FoldSame, PlusCommutes
<1> QED BY <1>1, <1>4, <1>6 DEF fun

\* The sizes of some blocks: they do not depend on the rest of the heap or on
\* who is freed, and those of a part can be taken away.
LEMMA SizesLaws ==
  ASSUME NEW f, NEW S, IsFiniteSet(S), \A k \in S : f[k].size \in Int
  PROVE  /\ SizesOf(f, S) \in Int
         /\ \A g : (\A k \in S : g[k].size = f[k].size) => SizesOf(g, S) = SizesOf(f, S)
         /\ \A F \in SUBSET S : SizesOf(f, S) = SizesOf(f, F) + SizesOf(f, S \ F)
         /\ \A k \in S : SizesOf(f, {k}) = f[k].size
<1> DEFINE fun == [k \in S |-> f[k].size]
<1>0. \A k \in S : fun[k] \in Int /\ fun[k] = f[k].size
  OBVIOUS
\* A sum over a part is one of fun.
<1>1. ASSUME NEW F \in SUBSET S
      PROVE  SizesOf(f, F) = SumFunctionOnSet(fun, F) /\ IsFiniteSet(F)
  <2> DEFINE gun == [k \in F |-> f[k].size]
  <2>1. IsFiniteSet(F) /\ \A k \in F : f[k].size \in Int
    BY FS_Subset
  <2>2. SizesOf(f, F) = SumFunctionOnSet(gun, F)
    BY <2>1, SizesAreSum
  <2>3. \A k \in F : fun[k] \in Int /\ gun[k] = fun[k]
    OBVIOUS
  <2> HIDE DEF fun, gun
  <2>4. SumFunctionOnSet(gun, F) = SumFunctionOnSet(fun, F)
    BY <2>1, <2>3, SumSame
  <2> QED BY <2>1, <2>2, <2>4
<1>2. ASSUME NEW g, \A k \in S : g[k].size = f[k].size
      PROVE  SizesOf(g, S) = SizesOf(f, S)
  <2>1. [k \in S |-> g[k].size] = fun
    BY <1>2
  <2> QED BY <1>2, <2>1, SizesAreSum
<1> HIDE DEF fun
<1>3. SizesOf(f, S) \in Int
  BY <1>0, <1>1, SumType
<1>4. ASSUME NEW F \in SUBSET S PROVE SizesOf(f, S) = SizesOf(f, F) + SizesOf(f, S \ F)
  <2>1. SizesOf(f, S) = SumFunctionOnSet(fun, S) /\ SizesOf(f, F) = SumFunctionOnSet(fun, F)
        /\ SizesOf(f, S \ F) = SumFunctionOnSet(fun, S \ F)
    BY <1>1
  <2> QED BY <1>0, <2>1, SumSplit
<1>5. ASSUME NEW k \in S PROVE SizesOf(f, {k}) = f[k].size
  <2>1. IsFiniteSet({k}) /\ SizesOf(f, {k}) = SumFunctionOnSet(fun, {k})
    BY <1>1
  <2>2. SumFunctionOnSet(fun, {k}) = fun[k] + SumFunctionOnSet(fun, {k} \ {k})
    BY <1>0, <2>1, SumRemove
  <2>3. SumFunctionOnSet(fun, {k} \ {k}) = 0
    <3>1. {k} \ {k} = {}
      OBVIOUS
    <3> QED BY <3>1, SumEmpty, Zenon
  <2>4. fun[k] \in Int /\ fun[k] = f[k].size
    BY <1>0
  <2> QED BY <2>1, <2>2, <2>3, <2>4
<1> QED BY <1>2, <1>3, <1>4, <1>5

\* The blocks balloc has made and bfree has not freed.
Counted == {k \in Live : heap[k].header}

\* The blocks counted are finitely many.
LEMMA CountedFinite ==
  ASSUME TypeOK
  PROVE  IsFiniteSet(Counted) /\ \A k \in DOMAIN heap : heap[k].size \in Int
<1>1. DOMAIN heap = 1 .. Len(heap) /\ Len(heap) \in Nat
  BY DEF TypeOK
<1>2. IsFiniteSet(1 .. Len(heap)) /\ Counted \subseteq 1 .. Len(heap)
  BY <1>1, FS_Interval DEF Counted, Live
<1>3. IsFiniteSet(Counted)
  BY <1>2, FS_Subset
<1>4. ASSUME NEW k \in DOMAIN heap PROVE heap[k].size \in Int
  <2>1. heap[k] \in Block BY DEF TypeOK
  <2> QED BY <2>1 DEF Block
<1> QED BY <1>3, <1>4

\* A block of balloc is counted, one of malloc is not.
LEMMA Allocated ==
  ASSUME TypeOK, bused = SizesOf(heap, Counted),
         NEW b \in Block, b.live, heap' = Append(heap, b),
         bused' = IF b.header THEN bused + b.size ELSE bused
  PROVE  bused' = SizesOf(heap', Counted')
<1> DEFINE n == Len(heap) + 1
<1>0. /\ DOMAIN heap' = DOMAIN heap \cup {n} /\ heap'[n] = b /\ n \notin DOMAIN heap
      /\ \A k \in DOMAIN heap : heap'[k] = heap[k]
  BY NewBlock
<1> HIDE DEF n
<1>1. IsFiniteSet(Counted) /\ \A k \in Counted : heap[k].size \in Int /\ heap'[k].size = heap[k].size
  BY <1>0, CountedFinite DEF Counted, Live
<1>2. SizesOf(heap', Counted) = SizesOf(heap, Counted)
  <2> DEFINE g == heap'
  <2>1. \A k \in Counted : g[k].size = heap[k].size
    BY <1>1
  <2> HIDE DEF g
  <2>2. SizesOf(g, Counted) = SizesOf(heap, Counted)
    BY <1>1, <2>1, SizesLaws
  <2> QED BY <2>2 DEF g
<1>3. CASE ~b.header
  <2>1. Counted' = Counted
    BY <1>0, <1>3 DEF Counted, Live
  <2> QED BY <1>2, <1>3, <2>1
<1>4. CASE b.header
  <2>1. Counted' = Counted \cup {n} /\ n \notin Counted
    BY <1>0, <1>4 DEF Counted, Live
  <2>2. IsFiniteSet(Counted') /\ \A k \in Counted' : heap'[k].size \in Int
    <3>1. IsFiniteSet(Counted')
      BY <1>1, <2>1, FS_AddElement
    <3>2. heap'[n].size \in Int
      BY <1>0 DEF Block
    <3> QED BY <1>1, <2>1, <3>1, <3>2
  <2>3. SizesOf(heap', Counted') = SizesOf(heap', {n}) + SizesOf(heap', Counted' \ {n})
        /\ SizesOf(heap', {n}) = heap'[n].size
    <3> DEFINE g == heap'
               C == Counted'
    <3>1. IsFiniteSet(C) /\ (\A k \in C : g[k].size \in Int) /\ n \in C /\ {n} \in SUBSET C
      BY <2>1, <2>2
    <3> HIDE DEF g, C
    <3>2. \A F \in SUBSET C : SizesOf(g, C) = SizesOf(g, F) + SizesOf(g, C \ F)
      BY <3>1, SizesLaws
    <3>3. SizesOf(g, {n}) = g[n].size
      BY <3>1, SizesLaws
    <3>4. SizesOf(g, C) = SizesOf(g, {n}) + SizesOf(g, C \ {n})
      BY <3>1, <3>2
    <3> QED BY <3>3, <3>4 DEF g, C
  <2>4. Counted' \ {n} = Counted
    BY <2>1
  <2>5. SizesOf(heap, Counted) \in Int /\ b.size \in Int
    BY <1>1, SizesLaws DEF Block
  <2>6. SizesOf(heap', Counted') = b.size + SizesOf(heap, Counted)
    BY <1>0, <1>2, <2>3, <2>4
  <2>7. bused' = SizesOf(heap, Counted) + b.size
    BY <1>4
  <2> QED BY <2>5, <2>6, <2>7
<1> QED BY <1>3, <1>4

\* What the flush frees was counted.
LEMMA FreedUncounted ==
  ASSUME TypeOK, bused = SizesOf(heap, Counted), Defined, FlushData
  PROVE  bused' = SizesOf(heap', Counted')
<1>1. CASE Unflushed = {}
  BY <1>1 DEF FlushData, Counted, Live
<1>2. CASE Unflushed # {}
  <2>1. heap' = HeapWithout(Freed) /\ bused' = bused - SizesOf(heap, Freed)
    BY <1>2 DEF FlushData, BusedWithout, SizesOf
  <2>2. \A k \in DOMAIN heap : /\ heap'[k].live = (heap[k].live /\ k \notin Freed)
                               /\ heap'[k].size = heap[k].size /\ heap'[k].header = heap[k].header
    <3> SUFFICES ASSUME NEW k \in DOMAIN heap
                 PROVE  /\ heap'[k].live = (heap[k].live /\ k \notin Freed)
                        /\ heap'[k].size = heap[k].size /\ heap'[k].header = heap[k].header
      OBVIOUS
    <3>1. heap[k] \in Block BY DEF TypeOK
    <3>2. heap'[k] = [heap[k] EXCEPT !.live = heap[k].live /\ k \notin Freed]
      BY <2>1 DEF HeapWithout
    <3>3. heap'[k].live = (heap[k].live /\ k \notin Freed)
      BY <3>1, <3>2, Zenon DEF Block
    <3> QED BY <3>1, <3>2, <3>3 DEF Block
  <2>3. Freed \subseteq Counted
    BY DEF Defined, Counted, Live, Freed, TypeOK, Unflushed, Own
  <2>4. DOMAIN heap' = DOMAIN heap
    BY <2>1 DEF HeapWithout
  <2>5. Counted' = Counted \ Freed
    BY <2>2, <2>4 DEF Counted, Live
  <2>6. IsFiniteSet(Counted) /\ \A k \in Counted : heap[k].size \in Int
    BY CountedFinite DEF Counted, Live
  <2>7. /\ SizesOf(heap, Counted) = SizesOf(heap, Freed) + SizesOf(heap, Counted \ Freed)
        /\ IsFiniteSet(Freed) /\ IsFiniteSet(Counted \ Freed)
    BY <2>3, <2>6, SizesLaws, FS_Subset
  <2>8. /\ SizesOf(heap', Counted \ Freed) = SizesOf(heap, Counted \ Freed)
        /\ SizesOf(heap, Counted \ Freed) \in Int
    <3>1. \A k \in Counted \ Freed : heap'[k].size = heap[k].size /\ heap[k].size \in Int
      BY <2>2, <2>6 DEF Counted, Live
    <3> QED BY <2>7, <3>1, SizesLaws
  <2>9. SizesOf(heap, Freed) \in Int
    <3>1. \A k \in Freed : heap[k].size \in Int
      BY <2>3, <2>6
    <3> QED BY <2>7, <3>1, SizesLaws
  <2> QED BY <2>1, <2>5, <2>7, <2>8, <2>9
<1> QED BY <1>1, <1>2

\* The property as an equation about the blocks counted.
LEMMA CountedProperty == BusedCountsLive <=> bused = SizesOf(heap, Counted)
BY DEF BusedCountsLive, SizesOf, Counted

\* Every step keeps it: what balloc adds and bfree takes off are the sizes of
\* the blocks that become live and stop being so.
LEMMA StepCounted == TypeOK /\ BusedCountsLive /\ [Next]_vars => BusedCountsLive'
<1> SUFFICES ASSUME TypeOK, BusedCountsLive, [Next]_vars PROVE BusedCountsLive'
  OBVIOUS
<1>a. bused = SizesOf(heap, Counted)
  BY CountedProperty
<1>b. bused' = SizesOf(heap', Counted') => BusedCountsLive'
  <2>1. (bused = SizesOf(heap, Counted))' => BusedCountsLive'
    BY CountedProperty, PTL
  <2> QED BY <2>1
\* Most steps leave the heap alone.
<1>1. ASSUME UNCHANGED <<heap, bused>> PROVE BusedCountsLive'
  BY <1>a, <1>b, <1>1 DEF Counted, Live
\* A block of either kind.
<1>2. ASSUME NEW size \in Nat, NEW data \in Data, Balloc(size, data) PROVE BusedCountsLive'
  <2> DEFINE b == [size |-> size, live |-> TRUE, header |-> TRUE, data |-> data]
  <2>1. b \in Block /\ b.live /\ b.header /\ b.size = size
    BY DEF Block
  <2>2. heap' = Append(heap, b) /\ bused' = bused + size
    BY <1>2 DEF Balloc
  <2> HIDE DEF b
  <2> QED BY <1>a, <1>b, <2>1, <2>2, Allocated
<1>3. ASSUME NEW size \in Nat, NEW data \in Data, Malloc(size, data) PROVE BusedCountsLive'
  <2> DEFINE b == [size |-> size, live |-> TRUE, header |-> FALSE, data |-> data]
  <2>1. b \in Block /\ b.live /\ ~b.header
    BY DEF Block
  <2>2. heap' = Append(heap, b) /\ bused' = bused
    BY <1>3 DEF Malloc
  <2> HIDE DEF b
  <2> QED BY <1>a, <1>b, <2>1, <2>2, Allocated
<1>c. /\ \A a \in Arrays : user[a] \in Values
      /\ filters \in Seq({"deflate", "other"}) /\ Len(filters) \in Nat
  BY Parameters DEF TypeOK
<1>4. ASSUME NEW a \in Arrays, NEW n \in Lengths, NEW t \in Types, NEW blocking \in BOOLEAN,
             NEW contig \in BOOLEAN, H5DwriteInPlace(a, n, t, blocking, contig)
      PROVE  BusedCountsLive'
  BY <1>1, <1>4 DEF H5DwriteInPlace
<1>5. ASSUME NEW a \in Arrays, NEW n \in Lengths, NEW t \in Types, NEW blocking \in BOOLEAN,
             NEW contig \in BOOLEAN, H5DwriteCopy(a, n, t, blocking, contig)
      PROVE  BusedCountsLive'
  <2>1. PICK converted \in {TRUE} \cup {t = FileType} :
          Balloc(BlockSize(n, t),
            [type |-> IF converted THEN FileType ELSE t, value |-> user[a], deflated |-> 0])
    BY <1>5 DEF H5DwriteCopy
  <2>2. [type |-> IF converted THEN FileType ELSE t, value |-> user[a], deflated |-> 0] \in Data
    BY <1>c, Parameters DEF Data
  <2> QED BY <1>2, <2>1, <2>2, Room
<1>6. ASSUME NEW a \in Arrays, NEW n \in Lengths, NEW t \in Types, NEW blocking \in BOOLEAN,
             NEW contig \in BOOLEAN, H5DwriteFiltered(a, n, t, blocking, contig)
      PROVE  BusedCountsLive'
  <2> DEFINE d == [type |-> FileType, value |-> user[a], deflated |-> Len(filters)]
             e == [d EXCEPT !.deflated = 0]
  <2>1. d \in Data /\ e \in Data
    BY <1>c, Parameters DEF Data
  <2>2. \/ UNCHANGED <<heap, bused>> \/ Balloc(BlockSize(n, t), e)
        \/ Malloc(n * SizeOf[FileType], d)
    BY <1>6 DEF H5DwriteFiltered
  <2> HIDE DEF d, e
  <2> QED BY <1>1, <1>2, <1>3, <2>1, <2>2, Room
<1>7. ASSUME NEW a \in Arrays, NEW n \in Lengths, NEW t \in Types, H5DwriteUnpackable(a, n, t)
      PROVE  BusedCountsLive'
  <2>1. [type |-> t, value |-> user[a], deflated |-> 0] \in Data
    BY <1>c DEF Data
  <2> QED BY <1>2, <1>7, <2>1, Room DEF H5DwriteUnpackable
<1>8. ASSUME NEW own \in BOOLEAN, H5DreadQueued(own) PROVE BusedCountsLive'
  <2> DEFINE v == CHOOSE v \in Values : TRUE
  <2>1. v \in Values BY Parameters
  <2>2. UNCHANGED <<heap, bused>> \/ Balloc(0, [type |-> FileType, value |-> v, deflated |-> 0])
    BY <1>8 DEF H5DreadQueued
  <2> HIDE DEF v
  <2>3. [type |-> FileType, value |-> v, deflated |-> 0] \in Data
    BY <2>1, Parameters DEF Data
  <2> QED BY <1>1, <1>2, <2>2, <2>3
<1>9. CASE H5Fflush
  BY <1>a, <1>b, <1>9, FreedUncounted DEF H5Fflush
<1>10. CASE H5Fclose
  BY <1>a, <1>b, <1>10, FreedUncounted DEF H5Fclose
<1>11. ASSUME NEW a \in Arrays, NEW v \in Values, Change(a, v) PROVE BusedCountsLive'
  BY <1>1, <1>11 DEF Change
<1>12. ASSUME NEW a \in Arrays, H5Dread(a) PROVE BusedCountsLive'
  BY <1>1, <1>12 DEF H5Dread
<1>13. ASSUME NEW found \in BOOLEAN, H5DreadThroughBlock(found) PROVE BusedCountsLive'
  BY <1>1, <1>13 DEF H5DreadThroughBlock
<1>14. ASSUME NEW t \in Types, NEW blocking \in BOOLEAN, NEW contig \in BOOLEAN,
              H5DwriteOutOfMemory(t, blocking, contig)
       PROVE  BusedCountsLive'
  BY <1>1, <1>14 DEF H5DwriteOutOfMemory
<1>15. CASE H5FflushUndefined
  BY <1>1, <1>15 DEF H5FflushUndefined
<1>16. CASE UNCHANGED vars
  BY <1>1, <1>16 DEF vars
<1> QED BY <1>4, <1>5, <1>6, <1>7, <1>8, <1>9, <1>10, <1>11, <1>12, <1>13, <1>14, <1>15, <1>16
        DEF Next

-----------------------------------------------------------------------------
(* Theorems *)

\* IInv is an invariant: every action keeps each of its parts.
THEOREM Inductive == Spec => []IInv
BY InitIInv, StepIInv, PTL DEF Spec

\* The state has its type: no request names a block that was never made and
\* nflushed never exceeds the requests there have been.
THEOREM Typed == Spec => []TypeOK
BY Inductive, PTL DEF IInv

\* What the flush writes from is memory that is allocated, large enough and
\* of one request only (H5VL_log_dataseti_write, H5VL_log_nb_flush_write_reqs).
THEOREM Memory == Spec => []RequestsHaveMemory
BY Inductive, PTL DEF IInv

\* A blocking write reaches the log with what the array held at the call, a
\* nonblocking one with something it has held since, both in the type of the
\* file.
THEOREM Promise == Spec => []WrittenAsPromised
BY Inductive, PTL DEF IInv

\* No memory is lost: unless a call has failed or a read has come between, a
\* block that is not freed belongs to a request still to be flushed, and after
\* H5Fclose there is none (H5VL_log_nb_flush_write_reqs, H5VL_log_file_close).
THEOREM NothingLeft == Spec => []NothingLeftBehind
<1>1. Init => Tidy
  BY DEF Init, Tidy, Live, Freed, Unflushed
<1>2. TypeOK /\ Tidy => NothingLeftBehind
  BY DEF TypeOK, Tidy, NothingLeftBehind, Freed, Unflushed
<1> QED BY <1>1, <1>2, StepTidy, Typed, PTL DEF Spec

\* bused is the memory in use, whichever calls have failed: balloc counts every
\* block that has a header, and the flush takes the sizes of what it frees back
\* (H5VL_log_filei_balloc, H5VL_log_filei_bfree).
THEOREM MemoryCounted == Spec => []BusedCountsLive
<1>1. Init => BusedCountsLive
  <2> SUFFICES ASSUME Init PROVE bused = SizesOf(heap, Counted)
    BY CountedProperty
  <2>1. Counted = {} /\ bused = 0
    BY DEF Init, Counted, Live
  <2>2. SizesOf(heap, {}) = SumFunctionOnSet([k \in {} |-> heap[k].size], {})
    BY FS_EmptySet, SizesAreSum
  <2> QED BY <2>1, <2>2, SumEmpty
<1> QED BY <1>1, StepCounted, Typed, PTL DEF Spec
=============================================================================
