------------------------------ MODULE Transfer ------------------------------
(***************************************************************************)
(* Data written and read through selections, on one dataset of H5VL_log:   *)
(* H5Dwrite packs the elements of the memory selection into one block of   *)
(* data and records the blocks of the file selection; H5Dread finds the    *)
(* recorded blocks again and reads their data into the memory of the read. *)
(*                                                                         *)
(* One process.  When data and index reach the file is left to LogFile,    *)
(* how blocks are encoded to MetaEntry: here every write is in the file    *)
(* and in the index at once.  Memory and file types are the same and a     *)
(* read goes to contiguous memory.  A byte in the file is a record of the  *)
(* write it comes from, the element and the byte of that element.          *)
(***************************************************************************)
EXTENDS ReadPlan

CONSTANTS
  Extents,      \* extents the dataset may have
  ESizes,       \* element sizes it may have
  WriteSpaces,  \* file dataspaces the program writes with
  ReadSpaces,   \* and reads with
  MemSpaces,    \* memory of a write: kind "contig", "file" (H5S_ALL) or "space" in dims
  MaxWrites     \* bound: writes

\* A selection lies inside the extent, and has its rank.
InExtent(ds, extent) ==
  CASE ds.type = "hyperslabs" -> \A b \in ToSet(ds.blocks) :
         Len(b.end) = Len(extent) /\ \A i \in DOMAIN extent : b.end[i] < extent[i]
    [] ds.type = "points" -> \A c \in ToSet(ds.points) :
         Len(c) = Len(extent) /\ \A i \in DOMAIN extent : c[i] < extent[i]
    [] ds.type = "list" -> \A b \in ToSet(ds.blocks) :
         Len(b.start) = Len(extent)
           /\ \A i \in DOMAIN extent : b.start[i] + b.count[i] <= extent[i]
    [] ds.type \in {"all", "none"} -> TRUE

\* A scalar dataset has no dimension to select in and is left out.
ASSUME Parameters ==
  /\ Extents \subseteq Seq(Nat \ {0}) \ {<<>>}
  /\ ESizes \subseteq Nat \ {0} /\ MaxWrites \in Nat
  /\ \A ds \in WriteSpaces \cup ReadSpaces : IsDataspace(ds)
  /\ \A ms \in MemSpaces :
       /\ ms.kind \in {"contig", "file", "space"}
       /\ ms.kind = "space" => /\ ms.dims \in Seq(Nat \ {0}) \ {<<>>}
                               /\ IsDataspace(ms.space) /\ InExtent(ms.space, ms.dims)

VARIABLES
  dims,     \* dp->dims
  esize,    \* dp->esize
  bytes,    \* the bytes of the log datasets, in the order of their offsets
  index,    \* fp->idx of the dataset: [foff, sels]
  written,  \* history: the dataspaces of the entries, and their memory
  call      \* the last H5Dwrite or H5Dread, and what it computed

vars == <<dims, esize, bytes, index, written, call>>

Junk == [write |-> 0, elem |-> 0, byte |-> 0]
NoPlan == [outcome |-> "none", runs |-> <<>>, copies |-> <<>>]
Idle == [op |-> "none", space |-> [type |-> "none"], sels |-> <<>>, hits |-> <<>>,
         plan |-> NoPlan, memory |-> <<>>]

Init ==
  /\ dims \in Extents /\ esize \in ESizes
  /\ bytes = <<>> /\ index = <<>> /\ written = <<>>
  /\ call = Idle

-----------------------------------------------------------------------------
(* H5Dwrite *)

\* Where in the user's memory the elements of the selection are.
Positions(ds, ms) ==
  LET inside(space, extent) ==
        LET cells == Elements(space, extent)
        IN  [k \in DOMAIN cells |-> Linear(extent, cells[k])]
  IN  CASE ms.kind = "contig" -> [k \in DOMAIN Elements(ds, dims) |-> k - 1]
        [] ms.kind = "file"   -> inside(ds, dims)
        [] ms.kind = "space"  -> inside(ms.space, ms.dims)

\* The element at a position of the user's memory, 0 if it is not of the write.
ElementAt(positions, pos) ==
  LET at == {k \in DOMAIN positions : positions[k] = pos}
  IN  IF at = {} THEN 0 ELSE Max(at)

\* Memory that is contiguous is copied; any other selection is packed with a
\* type made of the dimensions of the dataset.  A selection of rank 1 uses the
\* first of them.
IsContiguous(ds, ms) ==
  \/ ms.kind = "contig"
  \/ ms.kind = "file" /\ ds.type = "all"
  \/ ms.kind = "space" /\ ms.space.type = "all"
MemSpace(ds, ms) == IF ms.kind = "file" THEN ds ELSE ms.space
MemRank(ds, ms) == IF ms.kind = "file" THEN Len(dims) ELSE Len(ms.dims)
PackDims(ds, ms) == SubSeq(dims, 1, MemRank(ds, ms))

\* db.xbuf: for every element of the data block, the element of the write.
Packed(ds, ms, size, msels) ==
  LET order == IF IsContiguous(ds, ms) THEN [k \in 1 .. size |-> k - 1]
               ELSE MpiType(msels, PackDims(ds, ms))
      positions == Positions(ds, ms)
  IN  [k \in DOMAIN order |-> ElementAt(positions, order[k])]

\* The dataspaces of the dataset: of its rank and inside its extent.
Of(spaces) == {ds \in spaces : InExtent(ds, dims)}

\* Memory the library lets a program use with the dataspace.
Matches(ds, ms) ==
  ms.kind = "space" => Len(Elements(ms.space, ms.dims)) = Len(Elements(ds, dims))

\* Where the data block goes: an offset in bytes.
EndOfLogElements(log) == Len(log) \div esize
EndOfLog(log) == Len(log)

\* H5VL_log_dataset_write and H5VL_log_dataseti_write, then the flush.  An
\* empty selection queues nothing; a type that cannot be built is an error; a
\* memory selection of another size ends the process.
H5Dwrite(ds, ms) ==
  /\ Matches(ds, ms) /\ Len(index) < MaxWrites
  /\ \E nsel \in NselOf(ds, dims),
        mnsel \in IF IsContiguous(ds, ms) THEN {0} ELSE NselOf(MemSpace(ds, ms), dims) :
       LET sels  == Translate(ds, dims, nsel)
           size  == SelSize(sels)
           msels == Translate(MemSpace(ds, ms), PackDims(ds, ms), mnsel)
           built == ~IsContiguous(ds, ms) => TypeExists(msels, PackDims(ds, ms))
           data  == Packed(ds, ms, size, msels)
       IN  /\ sels # <<>>
           /\ built = TRUE /\ Len(data) = size
           /\ index' = Append(index,
                [foff |-> EndOfLog(bytes), sels |-> sels])
           /\ bytes' = bytes \o [i \in 1 .. size * esize |->
                LET k == data[(i - 1) \div esize + 1]
                IN  IF k = 0 THEN Junk
                    ELSE [write |-> Len(index) + 1, elem |-> k, byte |-> (i - 1) % esize]]
           /\ written' = Append(written, [space |-> ds, memory |-> ms])
           /\ call' = [Idle EXCEPT !.op = "write", !.space = ds, !.sels = sels]
  /\ UNCHANGED <<dims, esize>>

\* The cases in which no request is queued.
H5DwriteNothing(ds, ms) ==
  /\ Matches(ds, ms) /\ call.op # "nothing"
  /\ \E nsel \in NselOf(ds, dims),
        mnsel \in IF IsContiguous(ds, ms) THEN {0} ELSE NselOf(MemSpace(ds, ms), dims) :
       LET sels  == Translate(ds, dims, nsel)
           msels == Translate(MemSpace(ds, ms), PackDims(ds, ms), mnsel)
           built == ~IsContiguous(ds, ms) => TypeExists(msels, PackDims(ds, ms))
       IN  /\ sels = <<>> \/ built = FALSE
           /\ call' = [Idle EXCEPT !.op = "nothing", !.space = ds, !.sels = sels]
  /\ UNCHANGED <<dims, esize, bytes, index, written>>

-----------------------------------------------------------------------------
(* H5Dread *)

\* H5VL_log_dataset_read, H5VL_log_dataseti_read and the flush of the request.
H5Dread(ds) ==
  /\ \E nsel \in NselOf(ds, dims) :
       LET sels == Translate(ds, dims, nsel)
           hits == Search(index, sels)
           plan == IF sels = <<>> THEN NoPlan ELSE PlanOf(hits, esize)
       IN  call' = [op |-> "read", space |-> ds, sels |-> sels, hits |-> hits, plan |-> plan,
                    memory |-> IF plan.outcome # "ok" THEN <<>>
                               ELSE MemoryAfter(plan, bytes, esize * SelSize(sels))]
  /\ UNCHANGED <<dims, esize, bytes, index, written>>

-----------------------------------------------------------------------------
(* H5Dwrite_n and H5Dread_n: blocks instead of a dataspace, memory in order *)

H5VL_log_dataset_optional(op_type, ds) ==
  /\ ds.type = "list"
  /\ \/ op_type = "write" /\ H5Dwrite(ds, [kind |-> "contig"])
     \/ op_type = "read" /\ H5Dread(ds)
H5Dwrite_n(ds) == H5VL_log_dataset_optional("write", ds)
H5Dread_n(ds) == H5VL_log_dataset_optional("read", ds)

\* A read changes nothing a later call depends on: the program ends with one.
Dataspaces(spaces) == {ds \in Of(spaces) : ds.type # "list"}
Next ==
  \/ /\ call.op # "read"
     /\ \/ \E ds \in Dataspaces(WriteSpaces), ms \in MemSpaces :
             H5Dwrite(ds, ms) \/ H5DwriteNothing(ds, ms)
        \/ \E ds \in Dataspaces(ReadSpaces) : H5Dread(ds)
        \/ \E ds \in Of(WriteSpaces) : H5Dwrite_n(ds)
        \/ \E ds \in Of(ReadSpaces) : H5Dread_n(ds)
  \/ call.op = "read" /\ UNCHANGED vars

Spec == Init /\ [][Next]_vars

-----------------------------------------------------------------------------
(* Properties *)

TypeOK ==
  /\ dims \in Extents /\ esize \in ESizes
  /\ Len(index) \in 0 .. MaxWrites /\ Len(written) = Len(index)
  /\ \A e \in DOMAIN index :
       /\ index[e].foff + esize * SelSize(index[e].sels)
            = IF e = Len(index) THEN Len(bytes) ELSE index[e + 1].foff
       /\ \A s \in ToSet(index[e].sels) : {Len(s.start), Len(s.count)} = {Len(dims)}
  /\ call.op \in {"none", "write", "nothing", "read"}
  /\ call.plan.outcome \in {"none", "ok", "error", "crash"}

Row(cell) == SubSeq(cell, 1, Len(cell) - 1)
RowsIn(start, count) == {Row(c) : c \in BoxOf(start, count)}

\* The blocks of a hyperslab selection, broken up where they interleave, fill
\* the arrays made for them, cover every row of the selection as often as the
\* blocks of the library do, and come in the order of the rows, which is the
\* order of the elements in memory (counting and filling in the constructor of
\* H5VL_log_selections).
RowsTranslated ==
  Multiple(call.space) =>
    LET blocks == call.space.blocks
        arrays == ArraysOf(call.space, dims)
        rows   == [i \in DOMAIN blocks |-> RowsIn(blocks[i].start, Whole(blocks[i]).count)]
        got    == [i \in DOMAIN arrays |-> RowsIn(arrays[i].start, arrays[i].count)]
    IN  /\ Len(arrays) = RoomFor(blocks)
        /\ \A r \in UNION Range(rows) \cup UNION Range(got) :
             Cardinality({i \in DOMAIN got : r \in got[i]})
               = Cardinality({i \in DOMAIN rows : r \in rows[i]})
        /\ \A i \in DOMAIN arrays, j \in DOMAIN arrays :
             i < j => ~LessThan(Row(arrays[j].start), Row(arrays[i].start))

\* What the rest of the code can handle, according to the properties in the
\* last section: a write of one block, packed with the dimensions of its memory
\* from points or one hyperslab there, no element of memory twice; and a read of
\* points, blocks or one hyperslab, of several only byte by byte.
OneBlock(ds) ==
  \/ ds.type \in {"hyperslabs", "list"} /\ Len(ds.blocks) = 1
  \/ ds.type = "points" /\ Len(ds.points) = 1
Faithful(w) ==
  /\ OneBlock(w.space) /\ IsInjective(Positions(w.space, w.memory))
  /\ w.memory.kind = "space" => /\ w.memory.dims = SubSeq(dims, 1, Len(w.memory.dims))
                                /\ ~Multiple(w.memory.space)
Readable(ds) ==
  \/ OneBlock(ds)
  \/ ds.type \in {"points", "list"} /\ esize = 1

\* Of two hits in a data block, one ends inside a row of the other, behind whose
\* start it starts: the copy comes from the wrong end of the row.
Nested(g, h) ==
  LET n == Len(dims)
      end(x) == x.dstart[n] + x.count[n]
  IN  /\ g.foff = h.foff
      /\ RowsIn(g.dstart, g.count) \cap RowsIn(h.dstart, h.count) # {}
      /\ g.dstart[n] <= h.dstart[n] /\ h.dstart[n] < end(g) /\ end(h) < end(g)

\* The bytes of the file a read touches ascend, as MPI asks for, whatever it
\* selects, if data blocks are of one block of the dataset and it has at most two
\* hits in each of them (of more, only neighbours are compared).
PlanOrdered ==
  LET of(foff) == Cardinality({i \in DOMAIN call.hits : call.hits[i].foff = foff})
  IN  (\A w \in ToSet(written) : OneBlock(w.space))
        /\ (\A h \in ToSet(call.hits) : of(h.foff) <= 2)
      => Ascending(call.plan.runs)

\* A read returns, for each element, the bytes some write put there, and
\* touches no memory of an element never written; also where blocks of the
\* read, or of the writes, overlap.
ReadsReturnWritten ==
  /\ \A w \in ToSet(written) : Faithful(w)
  /\ call.op = "read" /\ call.plan.outcome = "ok" /\ Readable(call.space)
  /\ Ascending(call.plan.runs)
  /\ \A g, h \in ToSet(call.hits) : ~Nested(g, h)
  => LET cells == Elements(call.space, dims)
         elems == [w \in DOMAIN written |-> Elements(written[w].space, dims)]
         stored(c, b) == {[write |-> p[1], elem |-> p[2], byte |-> b] :
           p \in UNION {{w} \X {k \in DOMAIN elems[w] : elems[w][k] = c} : w \in DOMAIN elems}}
     IN  \A k \in DOMAIN cells, b \in 0 .. esize - 1 :
           LET got  == call.memory[(k - 1) * esize + b]
               from == stored(cells[k], b)
           IN  got \subseteq from /\ (got = {} => from = {})

-----------------------------------------------------------------------------
(* What the examples and tests of the repository say, and the code does not do *)

\* What was written through a selection is read back through the same selection:
\* example/hdf5/h5_rdwt.cpp and h5_subset.cpp write and read all of a dataset
\* (H5S_ALL), test/basic/multiblockselection.cpp and multipointselection.cpp
\* several blocks and points.
SelectionsReadBack ==
  call.op = "read" /\ call.plan.outcome = "ok"
    /\ Len(written) = 1 /\ written[1].space = call.space /\ written[1].memory.kind = "contig"
  => \A k \in DOMAIN Elements(call.space, dims) :
       (k - 1) * esize \in DOMAIN call.memory
         /\ call.memory[(k - 1) * esize] = {[write |-> 1, elem |-> k, byte |-> 0]}
=============================================================================
