------------------------------- MODULE Buffers -------------------------------
(***************************************************************************)
(* Who owns the memory of a queued write, and what it holds when it is     *)
(* written: the arrays of the program, the blocks that                     *)
(* H5VL_log_filei_balloc makes, and the queue of H5VL_log between          *)
(* H5Dwrite and the flush.                                                 *)
(*                                                                         *)
(* One process and one dataset.  Memory holds a value in a type, the same  *)
(* for all its elements.  A block is known by its number, in the order of  *)
(* allocation.  bused is the difference to what the constructor of the     *)
(* file leaves in it, which does not set it; nothing reads it, as bsize is *)
(* always unlimited (Config: NoEffect).                                    *)
(***************************************************************************)
EXTENDS Integers, Sequences, FiniteSetsExt

CONSTANTS
  Arrays,     \* arrays of the program
  Values,
  Types,      \* memory types
  SizeOf,     \* [Types -> bytes of an element]
  FileType,   \* dp->dtype
  Lengths,    \* numbers of elements of a write
  Pipelines,  \* filters a dataset may have, sequences of {"deflate", "other"}
  MaxWrites   \* bound: H5Dwrite and nonblocking or converting H5Dread

ASSUME Parameters ==
  /\ FileType \in Types /\ SizeOf \in [Types -> Nat \ {0}]
  /\ Lengths \subseteq Nat \ {0} /\ MaxWrites \in Nat /\ Values # {}
  /\ Pipelines \subseteq Seq({"deflate", "other"})

VARIABLES
  filters,   \* dp->filters
  user,      \* [Arrays -> what the program has in them]
  heap,      \* blocks in the order of their allocation
  bused,     \* fp->bused
  wreqs,     \* fp->wreqs
  nflushed,  \* fp->nflushed
  valid,     \* fp->metadirty and fp->idxvalid
  file,      \* the data blocks in the log datasets
  calls,     \* calls counted for the bound
  state      \* "open", "closed", "undefined"; and whether a call has left
             \* memory or a request behind (history)

vars == <<filters, user, heap, bused, wreqs, nflushed, valid, file, calls, state>>

Data == [type : Types, value : Values, deflated : Nat]
Block == [size : Nat, live : BOOLEAN, header : BOOLEAN, data : Data]
User == 0  \* db.xbuf = db.ubuf

\* A data block in the queue.  may is what the caller lets it hold when it is
\* written (history); of a call that failed it is anything.
Request ==
  [array : Arrays, xbuf : Nat, size : Nat, type : Types, blocking : BOOLEAN,
   failed : BOOLEAN, may : SUBSET Values]

Init ==
  /\ filters \in Pipelines
  /\ user \in [Arrays -> Values]
  /\ heap = <<>> /\ bused = 0
  /\ wreqs = <<>> /\ nflushed = 0
  /\ valid = [metadirty |-> FALSE, idxvalid |-> FALSE]
  /\ file = <<>> /\ calls = 0
  /\ state = [now |-> "open", stray |-> FALSE]

IsOpen == state.now = "open"
Unflushed == {i \in DOMAIN wreqs : i > nflushed}
Own(r) == r.xbuf # User
Content(r) == IF Own(r) THEN heap[r.xbuf].data
              ELSE [type |-> r.type, value |-> user[r.array], deflated |-> 0]
Live == {k \in DOMAIN heap : heap[k].live}

Undefined == state' = [state EXCEPT !.now = "undefined"]
Stray == state' = [state EXCEPT !.stray = TRUE]

\* H5VL_log_filei_balloc, and malloc without its header.
Balloc(size, data) ==
  /\ heap' = Append(heap, [size |-> size, live |-> TRUE, header |-> TRUE, data |-> data])
  /\ bused' = bused + size
Malloc(size, data) ==
  /\ heap' = Append(heap, [size |-> size, live |-> TRUE, header |-> FALSE, data |-> data])
  /\ UNCHANGED bused

\* H5VL_log_filei_bfree of several blocks: their headers say how much to give back.
BusedWithoutKept(S) == bused
BusedWithout(S) == bused - MapThenSumSet(LAMBDA k : heap[k].size, S)
HeapWithout(S) == [k \in DOMAIN heap |-> [heap[k] EXCEPT !.live = @ /\ k \notin S]]

-----------------------------------------------------------------------------
(* The program *)

\* An array changes, which a nonblocking write still to be written may see or not.
Seen(a, v, queue) ==
  [i \in DOMAIN queue |->
     IF queue[i].array = a /\ ~queue[i].blocking
     THEN [queue[i] EXCEPT !.may = @ \cup {v}] ELSE queue[i]]
Change(a, v) ==
  /\ IsOpen /\ user[a] # v
  /\ user' = [user EXCEPT ![a] = v] /\ wreqs' = Seen(a, v, wreqs)
  /\ UNCHANGED <<filters, heap, bused, nflushed, valid, file, calls, state>>

-----------------------------------------------------------------------------
(* H5Dwrite: from the allocation of the block to the queue *)

Call ==
  /\ IsOpen /\ calls < MaxWrites
  /\ calls' = calls + 1

\* The user's array serves if nobody waits for the call to be done with it, no
\* conversion is needed and the elements lie side by side.
ReusesWhenEqual(blocking, t, contig) == t = FileType /\ contig
Reuses(blocking, t, contig) == ~blocking /\ t = FileType /\ contig

\* Conversion is in place: the block takes the elements in either type.
BlockSizeOfMemory(n, t) == n * SizeOf[t]
BlockSize(n, t) == n * Max({SizeOf[t], SizeOf[FileType]})

Supported == \A i \in DOMAIN filters : filters[i] = "deflate"

Queue(a, xbuf, size, t, blocking, failed) ==
  wreqs' = Append(wreqs,
    [array |-> a, xbuf |-> xbuf, size |-> size, type |-> t, blocking |-> blocking,
     failed |-> failed, may |-> IF failed THEN Values ELSE {user[a]}])

\* No copy.
H5DwriteInPlace(a, n, t, blocking, contig) ==
  /\ Call /\ Reuses(blocking, t, contig) /\ filters = <<>>
  /\ Queue(a, User, n * SizeOf[FileType], t, blocking, FALSE)
  /\ UNCHANGED <<filters, user, heap, bused, nflushed, valid, file, state>>

\* A copy, which is packed, and converted unless the library cannot: then the
\* call fails, but only after it has queued the request.
H5DwriteCopy(a, n, t, blocking, contig) ==
  /\ Call /\ ~Reuses(blocking, t, contig) /\ filters = <<>>
  /\ \E converted \in {TRUE} \cup {t = FileType} :
       /\ Balloc(BlockSize(n, t),
                 [type |-> IF converted THEN FileType ELSE t, value |-> user[a], deflated |-> 0])
       /\ Queue(a, Len(heap) + 1, n * SizeOf[FileType], t, blocking, ~converted)
  /\ UNCHANGED <<filters, user, nflushed, valid, file, state>>

\* The memory selection has no MPI type: the call leaves its block behind.
H5DwriteUnpackable(a, n, t) ==
  /\ Call
  /\ Balloc(BlockSize(n, t), [type |-> t, value |-> user[a], deflated |-> 0])
  /\ Stray
  /\ UNCHANGED <<filters, user, wreqs, nflushed, valid, file>>

\* There is no memory: the error is not looked at, and the data is packed to
\* wherever db.xbuf points.
H5DwriteOutOfMemory(t, blocking, contig) ==
  /\ Call /\ ~Reuses(blocking, t, contig)
  /\ Undefined
  /\ UNCHANGED <<filters, user, heap, bused, wreqs, nflushed, valid, file>>

\* A dataset with filters.  One that is not deflate makes the call fail.  A
\* copied block is not freed, the address of the variable that holds it is.  An
\* array in place gives way to what the last filter has allocated.
H5DwriteFiltered(a, n, t, blocking, contig) ==
  /\ Call /\ filters # <<>>
  /\ LET data == [type |-> FileType, value |-> user[a], deflated |-> Len(filters)]
     IN  CASE ~Supported /\ Reuses(blocking, t, contig) -> UNCHANGED <<heap, bused, wreqs, state>>
           [] ~Supported /\ ~Reuses(blocking, t, contig) ->
                /\ Balloc(BlockSize(n, t), [data EXCEPT !.deflated = 0])
                /\ Stray /\ UNCHANGED wreqs
           [] Supported /\ ~Reuses(blocking, t, contig) ->
                Undefined /\ UNCHANGED <<heap, bused, wreqs>>
           [] Supported /\ Reuses(blocking, t, contig) ->
                /\ Malloc(n * SizeOf[FileType], data)
                /\ Queue(a, Len(heap) + 1, n * SizeOf[FileType], t, blocking, FALSE)
                /\ UNCHANGED state
  /\ UNCHANGED <<filters, user, nflushed, valid, file>>

-----------------------------------------------------------------------------
(* The flushes, H5Dread and H5Fclose *)

\* H5VL_log_nb_flush_write_reqs: the blocks of the requests it has written go.
FreedNone == {}
Freed == {wreqs[i].xbuf : i \in {j \in Unflushed : Own(wreqs[j])}}
NflushedAdded == nflushed + Len(wreqs)
NflushedAfter == Len(wreqs)
Written ==
  [j \in 1 .. Len(wreqs) - nflushed |->
     LET r == wreqs[nflushed + j] IN [data |-> Content(r), may |-> r.may, failed |-> r.failed]]
FlushData ==
  IF Unflushed = {} THEN UNCHANGED <<heap, bused, nflushed, file>> /\ valid' = valid
  ELSE /\ file' = file \o Written
       /\ heap' = HeapWithout(Freed) /\ bused' = BusedWithout(Freed)
       /\ nflushed' = NflushedAfter
       /\ valid' = [valid EXCEPT !.metadirty = TRUE]

\* bfree of a block that is gone, or that malloc has made.
Defined == \A k \in Freed : heap[k].live /\ heap[k].header

H5Fflush ==
  /\ IsOpen /\ Defined
  /\ FlushData
  /\ UNCHANGED <<filters, user, wreqs, calls, state>>

H5FflushUndefined ==
  /\ IsOpen /\ ~Defined
  /\ Undefined
  /\ UNCHANGED <<filters, user, heap, bused, wreqs, nflushed, valid, file, calls>>

\* H5VL_log_filei_metaupdate and the metadata flush it may make, which drops
\* every request.
Drops == valid.metadirty /\ ~valid.idxvalid
Queued == IF Drops THEN <<>> ELSE wreqs
UpdateIndex ==
  /\ valid' = [metadirty |-> valid.metadirty /\ valid.idxvalid, idxvalid |-> TRUE]
  /\ IF Drops THEN Stray ELSE UNCHANGED state

\* A blocking read of the same type into contiguous memory; what it finds of
\* the file reaches the array, if the element has been written.
H5Dread(a) ==
  /\ IsOpen /\ UpdateIndex
  /\ \E v \in {user[a]} \cup {file[i].data.value : i \in DOMAIN file} :
       user' = [user EXCEPT ![a] = v] /\ wreqs' = Seen(a, v, Queued)
  /\ UNCHANGED <<filters, heap, bused, nflushed, file, calls>>

\* Any other blocking read is made with a block of no size, freed at the end:
\* it returns nothing, and what it finds overruns the block.
H5DreadThroughBlock(found) ==
  /\ IsOpen
  /\ IF found THEN file # <<>> /\ Undefined /\ UNCHANGED <<wreqs, valid>>
     ELSE UpdateIndex /\ wreqs' = Queued
  /\ UNCHANGED <<filters, user, heap, bused, nflushed, file, calls>>

\* A nonblocking read is queued, with a block or without; nothing runs the queue.
H5DreadQueued(own) ==
  /\ Call
  /\ IF own THEN Balloc(0, [type |-> FileType, value |-> CHOOSE v \in Values : TRUE,
                            deflated |-> 0]) /\ Stray
     ELSE UNCHANGED <<heap, bused, state>>
  /\ UNCHANGED <<filters, user, wreqs, nflushed, valid, file>>

H5Fclose ==
  /\ IsOpen /\ Defined
  /\ FlushData
  /\ wreqs' = <<>> /\ state' = [state EXCEPT !.now = "closed"]
  /\ UNCHANGED <<filters, user, calls>>

Next ==
  \/ \E a \in Arrays, v \in Values : Change(a, v)
  \/ \E a \in Arrays, n \in Lengths, t \in Types, blocking, contig \in BOOLEAN :
       \/ H5DwriteInPlace(a, n, t, blocking, contig)
       \/ H5DwriteCopy(a, n, t, blocking, contig)
       \/ H5DwriteFiltered(a, n, t, blocking, contig)
  \/ \E a \in Arrays, n \in Lengths, t \in Types : H5DwriteUnpackable(a, n, t)
  \/ \E t \in Types, blocking, contig \in BOOLEAN : H5DwriteOutOfMemory(t, blocking, contig)
  \/ H5Fflush \/ H5FflushUndefined \/ H5Fclose
  \/ \E a \in Arrays : H5Dread(a)
  \/ \E found \in BOOLEAN : H5DreadThroughBlock(found)
  \/ \E own \in BOOLEAN : H5DreadQueued(own)
  \/ ~IsOpen /\ UNCHANGED vars

Spec == Init /\ [][Next]_vars

-----------------------------------------------------------------------------
(* Properties *)

\* The type of bused follows from BusedCountsLive.
TypeOK ==
  /\ filters \in Pipelines /\ user \in [Arrays -> Values]
  /\ heap \in Seq(Block)
  /\ wreqs \in Seq(Request) /\ Len(wreqs) <= calls /\ nflushed \in 0 .. calls
  /\ \A i \in DOMAIN wreqs : wreqs[i].xbuf \in {User} \cup DOMAIN heap
  /\ valid \in [metadirty : BOOLEAN, idxvalid : BOOLEAN]
  /\ file \in Seq([data : Data, may : SUBSET Values, failed : BOOLEAN])
  /\ calls \in 0 .. MaxWrites
  /\ state \in [now : {"open", "closed", "undefined"}, stray : BOOLEAN]

\* A request the next flush will write has memory to write from: a block that
\* is not freed, is nobody else's and is large enough, or an array that has the
\* type of the file.  It holds also after a metadata flush has dropped the
\* requests and left nflushed as it was.
RequestsHaveMemory ==
  \A i \in Unflushed :
    LET r == wreqs[i]
    IN  IF Own(r)
        THEN /\ heap[r.xbuf].live /\ r.size <= heap[r.xbuf].size
             /\ \A j \in DOMAIN wreqs : wreqs[j].xbuf = r.xbuf => j = i
        ELSE r.type = FileType

\* What reaches the log is of the type of the file and, if the call was
\* blocking, what the array held at the call, whatever the program has done
\* with it since; if not, something the array has held since (the choice of
\* db.xbuf, packing and conversion in H5VL_log_dataseti_write, and the flush).
WrittenAsPromised ==
  \A i \in DOMAIN file :
    ~file[i].failed => file[i].data.type = FileType /\ file[i].data.value \in file[i].may

\* bused is the size of the blocks that are not freed, also if calls have
\* failed in between (balloc and bfree are the only ones to change it).
BusedCountsLive ==
  bused = MapThenSumSet(LAMBDA k : heap[k].size, {k \in Live : heap[k].header})

\* Unless a call has failed, a read has been queued or has dropped requests,
\* every block belongs to a request still to be written, and none outlives the
\* file (the flush frees what it has written, and the close flushes).
NothingLeftBehind ==
  ~state.stray /\ state.now # "undefined" =>
    /\ Live = Freed
    /\ state.now = "closed" => Live = {}
=============================================================================
