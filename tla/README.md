# Verification of log_io_vol

log_io_vol is an HDF5 virtual object layer (VOL) connector for MPI programs. It
stores datasets in a log-structured layout: an `H5Dwrite` is queued in memory, a
collective flush appends the data of all processes to the file as one *log
dataset* `_ld_k`, and a collective metadata flush appends the descriptions of
the flushed blocks as one *metadata dataset* `_md_k`. Reads rebuild an index from the metadata
datasets and copy the matching log blocks back.

This directory holds TLA+ modules for the parts of the connector, the TLC
configurations that check them on small instances, and proofs checked by TLAPS.
Source paths below are relative to the repository; `nb.cpp` is short for
`src/H5VL_logi_nb.cpp`, `filei.cpp` for `src/H5VL_log_filei.cpp`, `filei_meta.cpp`
for `src/H5VL_log_filei_meta.cpp`, and so on.

## 1. Inventory

| Component | State | Operations | What is hard | What makes it correct |
|---|---|---|---|---|
| Log file (`file.cpp`, `filei.cpp`, `filei_meta.cpp`, `nb.cpp`) | per process: `wreqs`, `nflushed`, `metadirty`, `idxvalid`, `idx`, `nldset`, `nmdset`, the file view of `fh`; in the file: log datasets, metadata datasets, `_int_att` | queue a write, data flush, metadata flush, index rebuild, read, close, reopen | every process has its own copy of counters and flags that choose which collective it enters; two flush levels with a half-flushed queue between them; a read leaves a file view behind through which later writes go | blocks never overlap, names never collide, the collectives match, nothing is lost at close, a read sees flushed data |
| Dataset read and write (`dataseti.cpp`) | the queue of the file; hits, row copies and datatypes of a read | build a request from a selection, convert, deduplicate, queue; search the index, read, convert | overlapping blocks must be read in an order MPI accepts (`sortoffsets`, `interleve`, `gen_rtypes`) | every selected byte gets the value of a block that covers it |
| Aligned write, subfiling, metadata merging and sharing (`nb.cpp` 180-315, 754-973, `filei.cpp` 556-680) | token, stripe tables, merged requests | - | cannot be enabled at this commit: `H5VL_log_filei_parse_fapl` and `parse_fcpl` (`filei.cpp` 106-130, 171-208) have the settings commented out | not modelled |
| Metadata entries (`nb.cpp` 35-178, `dataseti.cpp` 428-512, `meta.cpp`, `zip.cpp`) | encoded entries, deduplication table | encode, deduplicate, compress, decode | back references relative to a running size | decoding returns what was encoded |
| Selections (`dataspace.cpp`) | starts, counts and number (`nsel`) of blocks | translate one or several hyperslabs, points, "all", "none"; compute sizes, positions and MPI types | hyperslabs that interleave are broken into rows by hand, counted in one pass and filled in another; each kind sets its members on its own | the blocks are the selection, in its order |
| Index (`idx.cpp`, `idx_list.cpp`) | per dataset list of blocks | insert, search by intersection | unsigned differences | a search returns exactly the intersections |
| Asynchronous requests (`req.cpp`, `reqi.cpp`) | list of requests of the underlying connector, counter and status shared by callbacks | wait, notify, cancel, free | - | unreachable: the connector registers NULL for all of them (`main.cpp` 35-43) |
| References (`obj.cpp`, `obji.cpp`, `wrap.cpp`, `filei.cpp` 740-773) | reference count of the file object and of the underlying connector | wrap, unwrap, create and delete an object | the last object closed closes the file | the file stays open while an object needs it and is closed after the last |
| Dataset handles (`dataset.cpp`) | `fp->dsets`, `fp->mreqs` | create, open, set extent, close | several handles of one dataset with copies of its dimensions; a table `fp->dsets` that is filled as datasets are opened and decides how entries are decoded | every entry is decoded with the description of its dataset |
| Data buffers (`filei.cpp` 24-50, 87-97, `dataseti.cpp` 507-596) | `bused`, the blocks, the pointers in the queue | `balloc`, `bfree`, choice between the array of the program and a copy | a pointer into an array that the program changes; conversion in place; blocks left behind on error paths; the pool (215-400) cannot be enabled | every queued write has memory of its own until it is flushed, and what is flushed is what was promised |
| Filters (`filter.cpp`, `filter_deflate.cpp`) | two ping-pong buffers | filter, unfilter | which buffer is current after an odd or even number of filters | what the filters leave is what is written, and is freed once |
| h5replay (`utils/h5replay*.cpp`) | per process share of metadata sections | copy attributes, read metadata, exchange and write data | dividing the sections written by `np` processes over another number | not modelled, section 12 |
| Pass-through objects (attributes, groups, links, datatypes, tokens, blobs) | none | unwrap, call the underlying connector, wrap | only the reference counts | see References |
| Registration, info, properties (`H5VL_log.cpp`, `main.cpp`, `info.cpp`, `filei.cpp` 106-208) | `mpi_inited`, the info of a list, properties, the configuration of a file | init, term, set and get properties, copy and free info, parse the environment | MPI and the connector below are shared with the program; a file outlives the environment it was made in; failing calls | MPI is ended once, by its owner; the connector below is held by all who use it; one encoding per file |
| Introspection, profiling | none | timers, queries passed on | - | - |

How they interact: the application calls the callbacks in `H5VL_log_*.cpp`. Every
object holds a reference to its `H5VL_log_file_t`. Dataset writes append to
`fp->wreqs`; `H5Fflush` and `H5Fclose` call the data flush of `nb.cpp`, which
computes offsets with `MPI_Allreduce` and `MPI_Exscan`, creates a log dataset
through the underlying connector and writes with MPI-IO. `H5Fclose`, and a read
that finds metadata dirty, call the metadata flush of `filei_meta.cpp`, which gathers
the sizes on rank 0, scatters the offsets, creates the metadata dataset and
writes it. A read with a stale index calls the metadata update, which
decodes all metadata datasets into the index. MPI is the only concurrency:
processes run between collectives at their own pace. There is no crash recovery:
`_int_att`, which says how many datasets exist, is written at close only.

The main hazards, each at its line with the properties that cover it or the reason
why none does, are in `PROJECT.json`.

## 2. Modules

| Module | Models | Status |
|---|---|---|
| `LogStore` | abstract specification: writes are queued, committed, read | checked and proved to be implemented by `LogFile` |
| `LogFile` | the log file on `NP` processes | checked and proved |
| `MCLogFile` | instance of `LogFile` for TLC: the sets of cells | |
| `LogFileProofs` | theorems about `LogFile`: types, names, placement of data under file views; metadata datasets and indexes, flags, collectives; what a closed file holds, refinement of `LogStore` | all obligations proved |
| `MetaEntry` | a metadata entry as words: how it is written, shortened and decoded (operators) | checked through `Datasets` |
| `Datasets` | dataset handles, `fp->dsets`, the queue of entries, the index, one process | checked and proved |
| `MCDatasets` | instances of `Datasets` for TLC: spaces, extents, selections | |
| `DatasetsProofs` | theorems about `MetaEntry` and `Datasets` | all obligations proved |
| `Selections` | a dataspace as blocks, and what is computed from them (operators) | checked through `Transfer`, proved about |
| `ReadPlan` | from the index hits of a read to the byte runs of one collective read (operators) | checked through `Transfer`, proved about |
| `ReadPlanProofs` | lemmas about `Selections` and `ReadPlan`: listings in order, rows of blocks, places of elements; that the runs of a plan ascend | all obligations proved |
| `Transfer` | elements written and read through selections, one process | checked and proved |
| `TransferProofs` | theorems about `Transfer`, with the lemmas on the bytes a plan moves | all obligations proved |
| `MCTransfer` | instances of `Transfer` for TLC: extents, selections, memories | |
| `Buffers` | memory of queued writes from `H5Dwrite` to the flush, one process | checked and proved |
| `MCBuffers` | instance of `Buffers` for TLC: memory types, filters | |
| `BuffersProofs` | theorems about `Buffers` | all obligations proved |
| `FoldLemmas` | what folds over sets and recursive functions compute, used by the proofs of `Buffers`, `Datasets`, `ReadPlan` and `Transfer` | all obligations proved |
| `Config` | the connector with MPI, its references, properties, environment, configuration of files | checked and proved |
| `MCConfig` | instance of `Config` for TLC | |
| `ConfigProofs` | theorems about `Config` | all obligations proved |
| `References` | reference counts of files, of the connector below and of the shared dataspace, one process | checked and proved |
| `MCReferences` | instance of `References` for TLC | |
| `ReferencesProofs` | theorems about `References` | all obligations proved |

How they divide the system: `LogFile` has several processes and reduces a write to a cell;
the others have one process and take one aspect of the same calls each. `Datasets` has what
an entry says, `Transfer` where the bytes go, `Buffers` what memory they come from,
`References` who keeps a file open, `Config` what it was set up with. `Transfer` extends
`ReadPlan`, which extends `Selections`; `Datasets` extends `MetaEntry`. `LogFile` implements
`LogStore`.

What is left, in this order:

1. `References` joined with `Datasets`, so that a dataset handle of `H5Oopen`, which has no
   slot in `fp->dsets` and `fp->mreqs` (`dataseti.cpp` 294-380), meets the tables.
2. Reopening a file for writing: `group_np` and the counters of an existing file
   (`filei.cpp` 52-85).

## 3. LogFile

**State.** The per-process variables carry the names of the members of
`H5VL_log_file_t` (`file.hpp` 30-110): `wreqs`, `nflushed`, `metadirty`,
`idxvalid`, `idx`, `nldset`, `nmdset`; `view` is the file view of `fp->fh`; `fsize`, `mtype`, `base` and `mdoffs`
are the locals of the two flush functions (`fsize_local`, the MPI memory type, the file
offset, the section table) that live across a collective. `disk`, `eof`, `ld`, `md` and `att` are the
file: its units by absolute offset, end of allocated space, the two lists of
datasets with their places, and `_int_att`. `issued` and `placed` are history variables that no
action reads except `H5Dwrite` to number its writes, and so is the member `plain` of a dataset:
whether every process had the plain view when it was created.

**Actions.** A process runs alone between collectives. A collective that cannot complete before every
process has entered it is one joint step; `MPI_File_write_at_all` need
not synchronise, so each process writes its share in a step of its own.

| Action | Code |
|---|---|
| `H5Dwrite` | `dataseti.cpp` 390-604, the non-merged path: one request per call, queued, `foff` unset; a selection that is already queued becomes a reference (443-465) |
| `H5Fflush` (`StartFlush`) | `file.cpp` 492-508, `nb.cpp` 556-607 up to `MPI_Allreduce` |
| `FlushNothing`, `CreateLog` | `nb.cpp` 601-655: sizes summed, exclusive scan, log dataset created when the sum is positive |
| `WriteLog` | `nb.cpp` 656-737: collective write, `foff` relocated, `nflushed`, `nldset`, `metadirty` set |
| `CreateMeta` | `filei_meta.cpp` 76-177: gather, offsets on rank 0, scatter, metadata dataset created |
| `WriteMeta`, `MetaBarrier` | `filei_meta.cpp` 179-219: write, barrier, `idxvalid`, `metadirty` reset, queue emptied |
| `H5Dread` | `dataseti.cpp` 616-713, blocking: empty selection returns early, otherwise chooses rebuild or search |
| `LoadIndex` | `filei_meta.cpp` 225-352 |
| `Search`, `SearchFails`, `ReadAll` | `nb.cpp` 317-416, `idx_list.cpp` 25-75, `dataseti.cpp` 84-282: the blocks that intersect, or the end of the process when a count has wrapped around |
| `H5Fclose`, `CloseFile` | `filei.cpp` 447-556 |
| `Reopen` | `filei.cpp` 52-85, read-only |

**The program.** `Call` makes the application SPMD: all processes make the same
collective calls in the same order, as MPI demands. With `Disciplined = TRUE`
it also flushes before it reads or closes, stops writing once it reads, and
writes no cell again before the next metadata flush: the use the tests and
examples make of the connector. With `Disciplined = FALSE` it does
neither, and with `EmptyReads = TRUE` a process may read an empty selection,
which returns before the collective part.

**Abstractions.** A write is one cell of a one-dimensional dataset, named by its
coordinate, with a size; its bytes all equal the write
itself, so an overlapped block shows as a byte of another write. A metadata
entry has size 1 and its fields are the write and `foff`. A scan is chosen by
its defining equations (`IsScan`) rather than computed by recursion, which keeps
the module free of RECURSIVE and provable. HDF5 allocates each log dataset
at the end of the file. Where several index entries match a cell, any may be read. Of a
reference only the fact is kept (`ref`): the reader decodes its eight bytes as
coordinates that lie outside every dataset.

`intersect()` computes the length of an overlap as an unsigned number and tests it for being
at most zero, so that a gap between two blocks makes a huge length. The search returns such
blocks, and the read then fails or ends the process (`SearchFails`); cells with a gap
(`AdjacentAndGap`) let it happen. The disciplined runs that read use adjacent cells.

**The file view.** A process writes its blocks and its section of the metadata with explicit offsets
(`nb.cpp` 656-665, `filei_meta.cpp` 179-184), which MPI counts in the bytes of the view its handle has
at the time. A read with hits sets this view to the bytes of its hits (`nb.cpp` 401) and leaves it
there; only a read without hits sets the plain one again (407-408). `Search` sets `view` (`Views`, `HitBytes`), and
`WriteLog` and `WriteMeta` put what they write where it says (`Written`, `Place`: the view repeats from
its first byte to behind its last). The entries carry the offsets the code has computed, whatever the
view. So write, flush, read with a hit, close, which is `test/basic/dread.cpp`, puts the section table of the last
metadata dataset into other places of the file (`logfile_view`), and that dataset stays a hole. In the other order, read before
a further flush, it is the data that is elsewhere. Properties of what is in the file are therefore about datasets
created while all views were plain (`plain`): these stay intact whatever goes through a view later, which
is not obvious since a view repeats over the whole file. A block whose offset was never set
gives a view at an offset from memory (`Junk`) or one MPI refuses.

**Decoding what is no entry.** A process that loads an index decodes what is at the place of a metadata dataset.
`LoadIndex` takes the units behind the section table; units that are no entry (a word of a table, a byte of data)
the code decodes as whatever they spell, and the model lets it pass over them or end. A hole is an entry of size zero,
from which the loop at `filei_meta.cpp` 327-336 never gets away: the process stays in `"failed"`, and a reopened file
that has one never answers a read. `Finished` keeps such an end apart from a deadlock.

## 4. MetaEntry and Datasets

What a process writes to a metadata dataset depends on the handle it writes
through, and what another run of the program reads depends on which datasets it has
opened. `Datasets` puts the two together.

**State.** `handle` has, per handle, the members of `H5VL_log_dset_t`
(`dataset.hpp` 15-29) that matter: `id`, `dims`, `mdims`, `dsteps`, and as history the dimensions from which the steps were
computed (`stepped`). `dsets` and
`mreqs` are the tables of the file object, `wreqs` and `hash` its queue and
deduplication table, `metadirty`, `idxvalid` and `idx` as in `LogFile`. `atts` and `md`
are the file: the attributes `_dims` and `_mdims` of each dataset and the entries of the
metadata datasets. `extent` is a history variable, the extent the program has given
each dataset; selections are taken inside it. `stray` counts the requests of this flush that were entered in `hash`
and never queued. An entry also carries, for the
properties only, the selection it was made from (`sels`) and the dimensions of the steps its
handle had (`dims`).

| Definition | Code |
|---|---|
| `H5Dcreate`, `H5Dopen` | `dataset.cpp` 46-254: handle, slots of the tables, attributes |
| `H5Dset_extent` | `dataset.cpp` 431-472: dimension by dimension, stopping at the first beyond its maximum, then `dsteps` |
| `H5Dclose` | `dataset.cpp` 554-587; the process ends if the merged request is gone |
| `H5Dwrite` | `dataseti.cpp` 428-596: `Request` (constructor, `nb.cpp` 35-133), `Reference` (443-467), `Compressed` (470-504), queued unless packing (536-537) or a filter (570-571) fails |
| `H5Fflush` | the flags a data flush leaves; the flush itself is in `LogFile` |
| `H5Dread` | `nb.cpp` 317-340: `Metaflush` if dirty, `LoadIndex` if the index is not valid |
| `LoadIndex`, `Decode` | `filei_meta.cpp` 225-352, `meta.cpp` 57-215: entry by entry, until one fails |
| `H5Fclose`, `H5Fopen` | `filei.cpp` 447-491, 52-85 |

**An entry** is a sequence of 4-byte words, because the number of blocks has four bytes and
every other field eight: if the reader is off by one field, it reads numbers across
boundaries. A number the reader cannot make sense of is `Odd`; it stands for any
value that is not a small non-negative one, and a decoded coordinate that is `Odd` equals no
written one. `Outcome` says when the decoder does worse than return wrong
numbers: it throws on an absurd number of blocks, overruns its stack when it copies
`ndim - 1` steps of a dataset of rank 0, or returns an error.

**Abstractions.** One process (the interplay is in `LogFile`), element size 1, no data. The
program selects what the constant `Selectable` holds, in the form `H5VL_log_selections`
gives it: a list of blocks none of which continues another.
Compression is the choice whether its result is shorter. A file is reopened
read-only, as the examples do.

**What holds.** `SelectionsRecovered` and `BlocksTileData` are about entries in
the decoder's reach: no reference, record or compressed entry, and, when encoded as
offsets, with coordinates and counts below the dimensions from which the handle that wrote them has its steps. For these
the index has exactly the written selection at the right place of the data block,
whatever is extended, closed, opened and reopened between. The conditions are
limits of the code: a reference is not resolved (`logfile_ref`), a record write does not
store its record (`nb.cpp` 99-103: the field announced as the record number holds the
number of blocks), a count as long as its dimension does not fit the
offset, into which it is encoded like a coordinate, and carries into the dimension before;
the entries of a dataset not opened yet are decoded with a blank description, and the index
is declared valid all the same. Coordinates can lie outside these dimensions in two ways: `H5Dset_extent`
updates the steps of its own handle only; and one that fails has changed dimensions before the
offending one and leaves the steps alone, so that even the dimensions of the handle itself do
not tell whether a coordinate fits (`dataset.cpp` 431-472). The offsets such a stale handle writes are ambiguous, for the reader and for
deduplication, which can replace a selection by a reference to a different one;
`ReferencesStayInFlush` therefore compares selections only where both entries
fit their handle. It is also only about flushes in which no write has failed after its request entered the
deduplication table (448): such a request is deleted and never queued, and a later equal write refers to it, so that
its reference has no target in the flush. The table is emptied by the metadata flush, so that one such
failure does not reach the next. Compressed entries cannot be read at all: the compressed form covers the number of
blocks, which the decoder expects in clear, and compression that does not pay clears
the wrong flag (`dataseti.cpp` 495).

Four more behaviours of the code are in the model without a run of their own:
a read that finds the metadata dirty drops the requests not flushed (`Metaflush`, and
`AfterMeta` in `LogFile`); the second close of a dataset dereferences the merged request that the
first deleted (`H5Dclose`); a refused extent leaves the dimensions before the offending one
changed and the steps old (`H5Dset_extent`); and an extent is lost at close, because `_dims` is
written once.

## 5. References

Every VOL object and every wrap context of a file holds a reference to its
`H5VL_log_file_t` and one to the connector below; the file closes with the last of them,
so that objects may outlive their file's ID. All files of the process share one scalar
dataspace with a counter of its own. The module is about one process: it opens, closes and
wraps in any order, in several files.

**State.** Per file `refcnt`, whether the program has an ID of it (`fileid`) and whether the
file object exists (`state`; `"broken"` after a close that failed); per object its
file and type (`obj`); the counters `connector`, `contig` and the dataspace `sid`. `wrapped`
is a history variable. `crashed` says that freed memory, or a merged request that is gone, has been used.

| Definition | Code |
|---|---|
| `H5Fopen`, `PostOpen` | `file.cpp` 41-369 and the callback after opening, 557-572 |
| `H5Fclose`, `DecRef`, `FileiClose` | `file.cpp` 589-592, `filei.cpp` 752-756 and 447-556 |
| `Constructor`, `Destructor` | `obji.cpp` 42-66 |
| `H5Aopen`, `H5Gopen`, `H5Topen`, `H5Dopen`, `H5Oopen` | the callbacks that create or open an object |
| `H5Aclose`, `H5Gclose`, `H5Tclose`, `H5Dclose` | those that close one |
| `H5VL_log_get_wrap_ctx`, `_wrap_object`, `_unwrap_object`, `_free_wrap_ctx` | `wrap.cpp` 50-186, `filei.cpp` 692-748 |
| `H5FcloseFreed` | the library closes an ID whose file object has been freed |

**Failures.** `FileiClose` has three outcomes: done, an error before the dataspace is counted
down ("early"), one after it ("late"). After an error the file object stays, with a count
of zero: closing the ID again makes it negative and reports success. A wrap context
that the connector below refuses, or cannot free, is never deleted ("LOST"). An
object whose creation fails is deleted again, and one whose close fails below stays: both leave
the state as it was and are not actions. Openings of a file that fail are in `Config`.

**Wrapping a file** hands out the file object itself without a reference, as the commented-out
increment at `filei.cpp` 739 shows. In the model the library does so only when it
has no ID of the file, once per opening. Closing that ID can then free the file under its
objects: using it afterwards may end the process or may go unnoticed (`crashed' \in BOOLEAN`).
`FileOutlivesObjects` is therefore about files that were not wrapped; the other properties hold
for all.

## 6. Selections, ReadPlan and Transfer

`Transfer` follows single elements: which of them a write puts where, and which bytes a read
of another selection brings back. Entries are in the index at once, because how and when they
get there is the business of `LogFile` and `Datasets`.

**State.** `dims` and `esize` of the dataset, `bytes`, the bytes of the log datasets in the order
of their offsets, and `index`, the list of entries. A byte is a record of the write, the
element and the byte of the element it comes from. `written` and `call` are history: the
dataspaces of the entries, and what the last call computed.

| Definition | Code |
|---|---|
| `GroupsOf`, `RoomFor`, `RowBox`, `RowsFrom`, `RowBlocks`, `Filled` | the constructor for several hyperslabs, `dataspace.cpp` 132-272: blocks in groups that interleave, counted, then broken into rows |
| `ArraysOf`, `NselOf`, `Translate` | the other kinds of dataspace, up to line 317 |
| `MpiType`, `TypeExists` | the type that packs memory, and the helper that refuses blocks outside of the array |
| `Search`, `Intersecting`, `Intersect`, `Hit` | `idx_list.cpp` 25-75 |
| `SortHits`, `Interleve`, `HitGroups`, `RowsOf`, `SortOffsets`, `Trimmed`, `PlanOf` | `dataseti.cpp` 46-282: sort the hits, group those that interleave, break groups into rows, sort and trim the rows |
| `MemoryRead`, `MemoryAfter` | `nb.cpp` 390-416: the collective read and the copies that follow |
| `H5Dwrite`, `H5DwriteNothing`, `H5Dread` | `dataset.cpp` 266-343 with what they call in `dataseti.cpp` |
| `H5Dwrite_n`, `H5Dread_n`, `H5VL_log_dataset_optional` | `H5VL_log.cpp` 66-116, `dataset.cpp` 484-542: arrays of starts and counts in place of a dataspace |

The library's half (`Elements`, `IsDataspace`, `Canonical`) says which elements a dataspace selects, in which
order, and in which form it lists hyperslab blocks; that the dataspaces of an instance have this form is the
assumption `Parameters`. A scalar dataset, which has no dimension to select in, is left out. Where the code leaves the outcome open, so
does the model: several hyperslabs never set `nsel` (`dataspace.cpp` 269), which is then any number up
to the length of the arrays, and of several runs that end in the same memory any may be
the last.

**What holds, and the limits of the code.** `RowsTranslated` holds for any hyperslab selection. A row,
though, becomes a block of one element whose start has the width in place of the coordinate
(`RowBlocks`): it covers the right row, not the right columns. `PlanOrdered` and
`ReadsReturnWritten` therefore have conditions, each for a place where the code cannot do it:

* `Faithful`, writes of one block packed with the dimensions of their memory, from points or one
  hyperslab there, with no element of memory twice (the model could not tell which one was read):
  `H5S_ALL` makes one element beyond the dataset (`transfer_readback`), several
  hyperslabs, of the file or of memory, make the rows above, and memory that is not contiguous is packed
  as if it had the dimensions of the dataset;
* `Readable`, reads of one block, or of several byte by byte: the offsets of rows in a group
  count elements (`RowsOf` with unit 1) where bytes are meant;
* not `Nested`: the bytes a row loses to an earlier one are copied from the end of the earlier
  row, the right place only if that row does not reach further;
* at most two hits in a data block, for `PlanOrdered`, and writes of one block: of more hits, only
  neighbours are compared when they are grouped. What the read selects does not matter.

Within these, overlapping blocks of a read and of the writes are in the instance.

**Abstractions.** Memory and file types are equal, a read goes to contiguous memory, datasets have no
filters. Sorting uses the order it is meant to produce: `InOrder` picks the element with as
many before it as its position says, and ties go to the earlier, as in the bubble sort that serves
fewer than 16 rows.

## 7. Buffers

A queued write holds a pointer until the next flush: into the array of the program, or to a
block of `H5VL_log_filei_balloc`, or to what a filter has allocated.

**State.** `user`, the arrays of the program; `heap`, the blocks in the order of allocation; `bused`,
`wreqs`, `nflushed`, `valid` (`metadirty` and `idxvalid`) as in the file object; `file`, what has
reached the log. Memory holds one value in one type. A request has, for the properties, the set of
values the caller allows it to hold (`may`).

| Action | Code |
|---|---|
| `Change` | the program changes an array it has written from |
| `H5DwriteInPlace` | `dataseti.cpp` 507-516: nonblocking, the type of the file, contiguous |
| `H5DwriteCopy` | 517-562: block of the wider type, packed, converted in place; a conversion that fails is noticed after the request is queued |
| `H5DwriteUnpackable`, `H5DwriteOutOfMemory` | 523-544: no MPI type for the memory selection; no memory, which is not looked at |
| `H5DwriteFiltered` | 563-584: the block handed to `bfree` is the address of the variable |
| `H5Fflush`, `H5FflushUndefined` | `nb.cpp` 524-737, 668-674 |
| `H5Dread`, `H5DreadThroughBlock`, `H5DreadQueued` | `dataseti.cpp` 616-713, `nb.cpp` 477-509: a read of another type or memory goes through a block of no size; a nonblocking one is queued for nobody |
| `H5Fclose` | `filei.cpp` 447-492 |

Undefined behaviour (a block freed that is not one, an overrun) ends in the state `"undefined"`,
after which nothing more is said. `stray` records that a call has left memory or a
request behind, as some do when they fail; `NothingLeftBehind` is about runs in which none has.
Dropping requests by a read (`Drops`) is one of these cases.

## 8. Config

A process stands for all processes of a program; it ends and is started again with another
environment, and files last. The environment is `H5VL_LOG_METADATA_ZIP` and
`H5VL_LOG_SEL_ENCODING`; `HDF5_VOL_CONNECTOR` is the choice `named` of `H5VL_log_init`.

**State.** `mpi` and `lib` (the connector, with `mpi_inited`, `main.cpp` 51-158), `refs`, the references to
the connector below; `plists`, the properties set per class of list; `vol`, the connector a
file access list names, with or without info; `files`, the configuration in `_int_att` and the
entries; `fp`, the open files with their configuration and a dataset handle.

| Definition | Code |
|---|---|
| `H5VL_log_init`, `H5VL_log_obj_term` | `main.cpp`: MPI is begun if it is not, and ended if the connector began it |
| `StrToInfo`, `InfoCopy`, `H5Pclose`, `H5Pset_vol`, `H5Pset_vol_log` | `info.cpp` 29-60, 168-208, `H5VL_log.cpp` 45-64: who holds the connector below |
| `H5Pset`, `NoEffect`, `IsSet` | `H5VL_log.cpp` 119-558: setters, six of which return in front of their first statement |
| `ParseFapl` | `filei.cpp` 100-169: environment first, property next |
| `H5Fcreate`, `H5Fopen`, `PostOpen`, `H5Fclose` | `file.cpp` 41-369, `filei.cpp` 52-85, 447-556 |
| `H5VL_log_file_specific` | `file.cpp` 380-575: access test and deletion, which copy the info and may fail |
| `H5Dopen`, `H5Oopen`, `H5Dwrite` | who computes the steps, and how an entry is encoded |

The configuration parsed at opening is overwritten by the one in the file (`filei.cpp` 74),
although a comment at `file.cpp` 349 says "Fapl property can overwrite config in file, parse
after loading config" (`config_fapl`). References leak: every
`H5Pget_vol_info` copies info that is never freed, so that `refs` grows with each opening. The
property is `ConnectorCovers`, never too few.

A handle of `H5Oopen` never gets steps; `EncodedWithSteps` is about the other two.

## 9. Runs

| Run | Instance | Shows |
|---|---|---|
| `logfile_store` | 2 processes, 2 adjacent cells, 2 sessions, disciplined, fairness | collectives never mismatch (`CollectivesMatch`), a closed file describes every write (`CloseKeepsAll`), the file implements `LogStore` (`StoreSpec`), and every call returns, in a reopened file as long as its metadata datasets are what their writers meant (`CallsReturn`) |
| `logfile_free` | 2 processes, 3 cells with a gap, 2 writes of 2 bytes each, 3 calls, any program | types (`TypeOK`), no hole or process-relative offset in an index (`IndexSound`), dataset names agree and are fresh (`NamesAgree`), flags that choose collectives agree (`FlagsAgree`), no block overlaps one flushed under plain views (`FlushedDataIntact`), the section table cuts a metadata dataset by process (`SectionTable`) |
| `logfile_view` | 2 processes, disciplined | violation: a metadata dataset without its section table, written through the view of a read |
| `logfile_ref` | 1 process | violation: the index holds references that nobody resolves |
| `logfile_close` | 2 processes, fairness | violation: `H5Fclose` never returns when only one process has requests |
| `datasets_index` | 2 handles, 2 datasets (2 x 2 x 2, extended to 2 x 3 x 2 or refused at the last dimension, and a vector), 2 writes of up to 2 blocks, 2 sessions, selections as coordinates, as offsets, and compressed; symmetry over handles | types (`TypeOK`), `SelectionsRecovered`, `BlocksTileData`; no entry names a dataset beyond the table (`TableCoversEntries`); a reference has its target before it in its own flush (`ReferencesStayInFlush`) |
| `references` | 2 files, 4 objects, 2 failures, symmetry over both | types (`TypeOK`: no counter below zero), the count is the number of holders (`RefcntCountsHolders`), no order of closes closes a file under an object (`FileOutlivesObjects`) or leaves it open without a holder (`ClosedAfterLast`), the dataspace is open while a file is and no longer (`DataspaceShared`), every wrapper holds the connector below once (`ConnectorHeld`) |
| `transfer` | a 3 x 3 matrix, a 3 x 2 x 2 cube and a vector of 4; elements of 1 or 2 bytes; up to 2 writes and a read | shape of the index (`TypeOK`), hyperslabs that interleave become the right rows (`RowsTranslated`), the runs of a read ascend in the file (`PlanOrdered`), a read returns bytes that a write put there (`ReadsReturnWritten`) |
| `transfer_readback` | 1 write and read of all of a 3 x 3 dataset | violation: `H5S_ALL` writes one element |
| `config` | 2 files, one property that works and one that does not, each variable unset or set, up to 6 references; symmetry over files | types (`TypeOK`), the connector below is never given up under a user (`ConnectorCovers`), MPI is ended by whoever began it (`MpiEndedByItsOwner`), encoded entries of ordinary handles had steps (`EncodedWithSteps`) |
| `config_fapl` | as `config`, 1 file | violation: an open file that does not have the configuration its opening asked for |
| `buffers` | 1 array of 2 values, memory types narrower and wider than the file's, no filter, one, and one the connector does not have; 3 calls | types (`TypeOK`), a request to be flushed has memory of its own (`RequestsHaveMemory`), what reaches the log is what was promised (`WrittenAsPromised`), `bused` is the size of live blocks, so that what is freed is what was allocated (`BusedCountsLive`), nothing outlives the file (`NothingLeftBehind`) |

Deadlock is checked in `logfile_store`, where the program is disciplined. In the other runs
of `LogFile` it is off because such a program really can hang: an unflushed close
(`logfile_close`) or a read empty on some processes only; `logfile_view` stops at its counterexample.

**Bounds.** `MaxWrites` per process, `MaxCalls` collective calls before the
close, `MaxSessions` openings, `MaxBytes` per dataset (never reached by the writes
the other bounds admit). In `logfile_store` two writes per process with two calls are
enough for a flush of several requests, a flush over an already flushed prefix
of the queue, a flush that is empty on one process, and a read before and after
it; its two sessions exercise `_int_att` and reads of a file closed with and without a left-over view.
`logfile_free` has three calls before the close: a flush, a read with a hit, and a data flush through the view that read has
left. Its writes have two bytes, so that a view moves part of a block, its cells leave a gap, and the third
process an inclusive scan would need to be told from an exclusive one is not needed: with two, the second block already lies
elsewhere. `Header`, the units in front of the first dataset, is smaller than in an HDF5 file and large enough for a
view to repeat; `Junk` holds one offset that memory may have in place of one never set.

In `Datasets`, `MaxDsets`, `MaxWrites` and `MaxSessions` bound datasets, writes and
openings. Two datasets of different rank are enough for an entry to be decoded with
the description of another or of none; two writes for a repeated selection and for an
entry written before and one after an extension; two handles for a stale one. Three dimensions let
an extent fail behind one that has been set, and let two selections have the same words under
different steps.
Deadlock is checked: the program ends in `Finished`. Handles are
interchangeable, which makes the symmetry sound.

In `References`, `MaxFails` bounds the failures. A file can be opened again after its close.
Two files share the dataspace; four objects let a file have a context, an object
wrapped through it, an object of its own and a lost context at once; two failures let a close fail after
a context was lost. Deadlock is checked: the program ends in `Finished`, when it has closed all
that it can.

In `Transfer`, two writes make blocks overlap in the file and hits of two data blocks in one
read; a read is the last call, because it changes nothing a later one depends on. The
selections to read are all single blocks from two corners, all canonical pairs of them, two triples, pairs in
three dimensions (where a row carries into the next dimension), and lists that lie beside
each other, overlap to the end of a row, nest, and span. Two bytes per element tell an offset in
elements from one in bytes.

In `Buffers`, `MaxWrites` bounds the calls: three allow a flushed write, a queued one, and one that
fails or is filtered in between. One array is enough, since several requests may point to it.
In `Config`, `MaxRefs` bounds the references, which leak without end, and `MaxEntries` the entries of a file:
an entry made in one session is met by the configuration of another. Files are interchangeable.
Deadlock is checked in all three.

**Fairness** (`FairSpec`, only `logfile_store` and `logfile_close` have liveness properties). Weak fairness of the joint collectives (MPI progress:
a collective all have entered completes), of each process inside a call
(sequential code that only waits in collectives), and of a process catching up with
the calls another process has made (the program is SPMD). No fairness on starting a new call:
the program may stop.

## 10. What the violations say

* `MapFirst`. A read with hits leaves the file view of `fp->fh` at the blocks it found (`nb.cpp` 401), and the close
  always makes a metadata flush, which writes through it: the table that should stand at the start of the
  metadata dataset ("The first lens[0] byte is the decomposition map", `filei_meta.cpp` 131) is elsewhere. The dataset
  is counted in `_int_att`, so that the next session that reads decodes zeros without end.
* `CloseReturns`. `H5VL_log_filei_close` enters the collective data flush only
  if this process has pending requests.
* `ReferencesDecoded`. `H5VL_log_dataseti_write` always deduplicates, but
  `H5VL_log_filei_metaupdate` resolves references only under the configuration flag
  `METADATA_SHARE`, whose reading is commented out in `H5VL_log_filei_parse_fapl`.
* `SettingsOverwriteConfig`. What `H5VL_log_filei_parse_fapl` finds set when a file is opened is overwritten by the configuration
  in the file (`filei.cpp` 74), although the comment at the call says that it can overwrite it (`file.cpp` 349).
* `SelectionsReadBack`. For `H5S_ALL` the constructor of `H5VL_log_selections` stores the
  dimensions as the start and 1 as the counts (`dataspace.cpp` 295-307), so that a whole dataset is
  written as one element in a block outside of it. `example/hdf5/h5_rdwt.cpp` 15 and
  `h5_subset.cpp` 131 write and read `H5S_ALL`. The property names what
  `test/basic/multiblockselection.cpp` 120 and `multipointselection.cpp` 115 check as well; for several
  hyperslabs it fails in the same way because `nsel` is not set (`dataspace.cpp` 269).

`CloseReturns` is about programs outside the disciplined use and `ReferencesDecoded` about any that writes a selection
twice; the others are about programs in ordinary use.

Two more disagreements with comments are in the models without a run. `nflushed`, "# entry in wreqs with their data
already flushed" (`file.hpp` 66), keeps its value when a metadata flush clears `wreqs`
(`WriteMeta`; `NflushedAfter` in `Buffers`): of the writes queued next, those below the old `nflushed` never get their data written. And a
data flush sets `metadirty` and not `idxvalid`, "Is index up to date" (93), so that a later read
searches the old index (`WriteLog`, `H5Dread`).

## 11. Proofs

**LogFile.** `LogFileProofs` proves, for every `NP`, every set of cells and sizes, every
value of the bounds, disciplined or not, with the assumption `Parameters` only:

* `TypeCorrect`: `Spec => []TypeOK`;
* `DatasetNamesAgree`: `Spec => []NamesAgree`;
* `FlushedDataStays`: `Spec => []FlushedDataIntact`.

`NamesAgree` speaks of names already given, which says nothing of the next ones. `IInv` adds
what makes it inductive: per process, where in a call its counters stand, and that a view names its bytes in
ascending order. `nldset`
equals `Len(ld)`, or one less between the creation of the log dataset and the
process's own increment; `nmdset` equals `Len(md)` once the metadata dataset
is created; all processes are on the same side of a joint step; after
a close `att` has the same counts, so that a reopened file starts from them.

`FlushedDataIntact` needs `Layout` and `DataInv`. `Layout` is about space: datasets lie behind the header, apart and in the order of their
creation (`FileOrder`), and a process about to write does so into the newest one, through the plain view if that dataset is
`plain` (`Writers`). Through any view an offset leads at least as far as its own value behind the first byte of the view
(`PlaceBounds`), so that such a write lands in the newest dataset or behind it, never in an older one; and a dataset created
there later is written over. A block flushed under plain views therefore
stays: all its bytes lie in front of whatever is written later through whichever view. `DataInv` says the
rest: while a flush is under way the blocks `base[r] .. base[r] + fsize[r] - 1` are pairwise disjoint and the memory type of a process
spells its pending requests at their relative offsets. Three
lemmas about scans carry the arithmetic: `ScanCovers` (every byte of the total belongs
to a summand, by least number), `ScanMonotone`, `ScanUnique`.

Both invariants were checked by TLC on an instance of `LogFile` before they
were proved.

Its second part goes on from these, still for any program:

* `SectionsOfOwners`: `Spec => []SectionTable`;
* `IndexesSound`: `Spec => []IndexSound`;
* `FlagsStayAgreed`: `Spec => []FlagsAgree`;

and `CollectivesAlwaysMatch`: `Disciplined /\ ~EmptyReads /\ Spec => []CollectivesMatch`.

A metadata dataset is written by all processes, each at its own pace, while others still have
their queue; `SectionTable` says nothing of the holes they leave. `IndexInv` follows it: there
is, for a dataset created under plain views, a prefix sum of the sizes of the sections that gives the section table and the place of every
section (`MetaCut`), a section is empty space until its process writes it and entries of that
process afterwards, and processes enter and leave the writing together (`MetaPhase`). An entry
that gets there is `Settled`, placed or never given an offset: only during a data flush
does the queue hold relative offsets. An index is loaded when nobody writes a section, and has neither. These two theorems hold for any program because their
properties name the datasets they are about; that some dataset was created under a left-over view, and what a
load then decodes, is excluded by the property and not by a hypothesis on the program.

`FlagsAgree` compares processes that are back in the program. In between, `metadirty` differs while
some have left `MPI_File_write_at_all` and others have not; `FlagsInv` says in which direction
at each point of the two flushes (`DirtyAgree`, `ValidAgree`), and that a
process past the metadata flush of its read has left nobody who would begin one (`NoMoreGather`). That none
of it needs the hypothesis on the program is the reason why `logfile_close` is a question
of the queues, which are private, and not of the flags.

For `CollectivesMatch` they matter: a program that closes with writes pending on some
processes hangs (`logfile_close`), and so does a read that is empty on some (section 3). The theorem
has both exclusions as hypotheses on the constants, the ones the run `logfile_store` instantiates. `CallsInv`
ties the place of a process to its call (`PcOp`), says that nothing is pending
when a call other than a flush begins (`Clean`), and that no process is more than one call ahead of
another, and then at most at the first collective of its call, while the other has left the
last one of its own (`Lockstep`).

Its third part has, under the same hypotheses:

* `ClosedFileIsComplete`: `... => []CloseKeepsAll`;
* `FileImplementsStore`: `... => StoreSpec`.

`StoreInv` keeps account of every write: it is queued, or in the file with its entry in a metadata
dataset (`Ledger`); an entry whose data is in the file is in the part of the queue that
`nflushed` counts, or in a metadata dataset (`Kept`). A unit counts as being in a metadata dataset when this was created under
plain views and nobody is about to write it (`MetaUnit`). `QueueFlushed` and `QueueOrder` are where a program that writes after its reads
fails: `nflushed` stays within the queue until writing is
over. `Quiet` says that a valid index has all flushed data and that nothing more will be written or flushed (`Still`).

The views come in through `ViewInv`. A process has a view other than the plain one only when the program has read, and then `Still` holds, until
the close (`ViewsRead`): so all data is flushed under plain views (`LogsPlain`), and so is all metadata except that of the last flush of a
close, which has no entries but a section table (`LastMeta`). That table is whole, when the read of rank 0 had no hit, or the
dataset is a hole from its first unit (`Lost`): the view begins behind the header, so that each word lands further on, and
what it lands on belongs to nobody (`NoStray`, as long as all was plain there is nothing behind the end of the
file). `CloseKeepsAll` holds because no entry is lost with it; the refinement, because a reopened file with a whole
table answers from all entries, and one with a hole never answers (`LoadCovers`). That its read does not return is what the
condition of `CallsReturn` excludes: a consequence of the missing table, which `logfile_view` shows.
The refinement maps `queued` to `issued \ Placed` and
`stored` to `Placed`. `H5Dwrite` is `Put`, a process's `WriteLog` with pending
writes is `Commit` of these, `Search` is `Get`, and every other step stutters
(`NextRefines`). `Get` demands an answer among all that is stored, which is where `Quiet` and the
soundness of the index are needed.

**Datasets.** `DatasetsProofs` proves, for any handles, spaces, extents, selections,
configurations and bounds, with the assumption `Parameters` only:

* `TypeCorrect`: `Spec => []TypeOK`;
* `TableCovers`: `Spec => []TableCoversEntries`;
* `RoundTrip`: `Spec => []SelectionsRecovered`;
* `BlocksTile`: `Spec => []BlocksTileData`;
* `ReferencesStay`: `Spec => []ReferencesStayInFlush`, which is about flushes without a write that failed after
  it was entered in the table.

`TypeOK` bounds `fp->dsets` by the number of datasets from above only, since after a reopen
the table is empty. `IInv` adds `TableComplete`: it has a slot for every
dataset in the session that creates them, and, later, as long as any dataset is open, because
opening one grows the table to all of them; the slot of an open dataset is
never blank, so that `H5Dset_extent` changes a description that has as many
dimensions as its handle. `ClosedIdle`, no handle is open in a closed file, is what makes
the empty table of a reopened file harmless. There is one lemma per action; `TablesStay`
serves those that leave the tables alone, `AppendRange` and `ConcatRange` carry the
queue. Both conjuncts were checked by TLC on the instance of `datasets_index` first.

The other three rest on what the encoder and the decoder of `MetaEntry` compute, for any rank and any
number of blocks. Coordinates below the dimensions of the steps come back from their offset, by
division from the first dimension on (`TailSum`, the part of the offset behind a
dimension, stays below the step of that dimension). A request is a prefix, with the number of blocks and the
steps if they are there, and two rows of vectors, all starts and all counts
(`Words`); the decoder finds each of them at its word (`Rereads`), whatever slot of `fp->dsets` it is
given. The first coordinate is not divided by anything, so that the conditions `StartsFit` and `CountsFit`
are about the others. The places of the blocks are the sums of the volumes before them, which is what
`doff` adds up. For references, two requests that have the same words, each unambiguous under
its own steps, are of the same selection (`SameSelection`): the number of words and the first one fix rank and
number of blocks (`SameShape`), hence where the steps and the vectors are, and these are then decoded alike.

`EInv` brings this into the state machine. Every entry, queued or in the file, has the shape of
its dataset and, if plain, the words of a request of its selection under the steps its handle
had (`EntriesOK`); handles have the steps of `stepped` (`ShapesOK`); every key of the
deduplication table is the request of a queued entry, as long as no write has failed behind it (`KeysOK`), which is why table and queue must be emptied
together; every entry of the index has been decoded with a slot that was blank or described
the dataset (`IndexOK`). TLC checked the parts of `EInv` on small instances first. Looking for it showed a limit of the
code: after an extent that fails behind a dimension it has set, an entry can be encoded with steps
that fit neither the dimensions of the handle nor the extent, so that the properties are stated
with the dimensions the steps come from.

**FoldLemmas.** The library's induction theorems cannot be instantiated by the provers, because they take an operator.
`LeastNat` replaces them: `<` on the naturals is well-founded, so that a nonempty set of them has
a least member, and a claim that fails somewhere fails at a least number (`AllNat`) or for a
set of least size. With this the module shows that a fold as the community modules define it exists, does not
depend on the order of its elements when the operation commutes, and may be taken apart at any element
(`FoldRemove`, `SumRemove`, `ProductRemove`, `SumSplit`); that the function a recursion over the numbers describes exists
(`Iterates`), without which a CHOOSE over its equations says nothing; where `FlattenSeq` has its elements, for pieces of one length (`FlattenEqual`)
and of any; and that what one step of a `FoldLeft` establishes and the others keep holds in the end.

**References.** `ReferencesProofs` proves all six properties of the run (`TypeCorrect`,
`RefcntCounts`, `FileOutlives`, `LastCloses`, `DataspaceLives`, `ConnectorCounted`) for any
finite sets of files and objects and any number of failures, with the assumption
`Parameters` only. `IInv` adds to the counting properties `CountedOnce`, an open file
has a positive count and a file whose close failed none, so that the count passes zero
once per opening and the dataspace is given back at most once per file; and `Spaces`,
the dataspace has at least a reference per open file, exactly one as long as nothing has failed.
`AddedObject`, `RemovedObject` and `DecRefKeeps` carry the cardinalities; there is one lemma per
kind of step. TLC checked `IInv` on the instance of `references` first.

**Buffers.** `BuffersProofs` proves, for any arrays, types, filters, lengths and number of calls, with the
assumption `Parameters` only:

* `Typed`: `Spec => []TypeOK`;
* `Memory`: `Spec => []RequestsHaveMemory`;
* `Promise`: `Spec => []WrittenAsPromised`;
* `NothingLeft`: `Spec => []NothingLeftBehind`;
* `MemoryCounted`: `Spec => []BusedCountsLive`.

What a flush writes is right because it was right in memory: `IInv` adds `Promised`, the same promise about
every request still to be written, which a change of an array keeps for nonblocking requests
by widening `may` and for blocking ones because they own their block
(`InPlaceNonblocking`). Blocks are not shared, so that freeing those of one flush leaves the later
requests theirs.

`NothingLeftBehind` compares the live blocks with those the next flush will free. `Tidy` adds that, while nothing has
gone wrong, `nflushed` does not exceed the length of the queue, so that the next request queued is
one that will be flushed; after a metadata flush that drops requests it may not be. `MemoryCounted` needs no
more than types: `bused` changes with each block by its size, which is taking one element from a sum or adding one
(`FoldLemmas`), but a flush frees a set of blocks at once (`SumSplit`).

**Config.** `ConfigProofs` proves all four properties of the run (`Typed`, `Covered`, `MpiOwner`,
`Stepped`) for any finite set of files, any settings and environments, with the assumption `Parameters` only. `IInv` adds
`NoneSet`, no property reaches the list that `ParseFapl` reads, because every setter of that class
returns early; `Handles`, a handle lives on an open file, whose configuration is the file's, with
steps exactly when that configuration encodes; `Gone`, nothing is open without the connector; and
`Began`, which ties `mpi_inited` to who began MPI. TLC checked both invariants on the instances of the runs
first.

**Selections and Transfer.** `TransferProofs` proves, for any extents, element sizes, dataspaces, memory and number of
writes, with the assumption `Parameters` only:

* `TypeCorrect`: `Spec => []TypeOK`;
* `Translation`: `Spec => []RowsTranslated`;
* `ReadsAscend`: `Spec => []PlanOrdered`;
* `ReadsBack`: `Spec => []ReadsReturnWritten`.

For the first three the state machine adds little: `IInv` says that entries hold selections of the rank of the dataset, that an entry
of a write of one block has one (`Singles`), and that the plan of a call is the one its own search of the
index gives (`Planned`). The work is in what the operators compute, of any rank and any number of blocks.

`ReadPlanProofs` starts from listings. `InOrder` picks each element by how many precede it, and the lemmas
on `Lists` show that this lists every finite set with a strict order, each element once and in order;
sorting blocks, hits, runs and pairs, and the rows of a box, are all instances (`IsOrder`). For `RowsTranslated`: the
odometer `NextRow` moves to the next row of the box in that order and stops at the last (`NextRowIsNext`,
`LastRowIsLast`), so that `RowsFrom` lists the rows of a block (`RowsFrom` is a recursive function: it exists
because the listing satisfies its equations); the rows of a group, sorted, are the rows of its blocks
(`HoldsRows`, which names for each array the block that owns it); groups are pieces of the list that follow one another, and
rows of different groups are ordered because a group ends only where the end of a block precedes the start of the
next one. That uses `Canonical`, the form in which the library lists blocks. The room counted in the first
pass is the number of rows filled in the second (`GroupHolds`).

For `PlanOrdered`: the place of an element in an array is its distance from the start, and of a smaller coordinate
it is smaller by at least the length of the row (`Stride`, `Part`, `PartBound`). The runs of one hit therefore ascend and stay in its
data block (`RowsOfHit`, `RunsInBlock`). Data blocks are apart (`TypeOK`, `EntriesApart`). Two hits in one block are either in a group, and then
trimming (`TrimmedAscend`) leaves each run starting where every earlier one ends or empty: a cut moves a
start but never an end, so that a pair once apart stays so (`TrimMore`). Or they are in different groups, and then the
first ends, in the first dimension, where the second starts or before (`HitsOfGroups`): that is what `interleve` decides, for
neighbours only. With three hits the first may overlap the third, hence the condition on two. Looking for the proof showed that
the condition the property had before, on the selection of the read, is not needed.

For `ReadsReturnWritten` the state matters. `Data` adds to `IInv`: the index has the blocks of every write
of one (`Recorded`), the data block of a faithful write has its elements in order, each byte at its place
(`Stored`), and a call that was a read has searched this index, made its plan of these hits and done it (`Fetched`).
`DataInvariance` proves it; a write appends, so that what is stored stays (`WriteAppends`,
`EntryInFile`), and it stores in order because the type made of memory lists the places that the library
lists as elements (`TypeIsPlaces`, `PackedInOrder`), which fails for several hyperslabs. TLC checked the three
conjuncts on the instance of `transfer` first.

The rest is about one read. `Link` relates bytes of the file and addresses in memory: a byte of an element, in
the data block of an entry whose block has the element, and the address where the read wants it. Three facts:

* The search misses nothing. There is a hit for every selection of the read and every entry that meet
  (`OneHitEach`), and the bytes of a hit are the linked ones of the elements both have (`HitCell`, `CellHit`,
  `HitCarries`, `LinkInHit`).
* The plan keeps to the relation, any relation R that the hits keep to (`Delivers`): each run reads only bytes to
  addresses they are related to, each copy goes from an address to one that a same byte is related
  to, and no address of a hit is lost. The rows of a hit do (`HitDelivers`), and grouping and joining change nothing (`JoinedDeliver`,
  `PlanDelivers`). Trimming is where it could fail: a run loses its start, and a copy takes these bytes from the
  end of the earlier run. The pairs are taken by their first run, so that this one has its final start when it is
  copied from, and whatever has cut it has cut the later one as far (`TrimOn`, with the order of pairs from
  `PairsByFirst`). The part copied is therefore one the earlier run still reads, if the later run does not
  end before it; in a group this is so when no hit is `Nested` (`InStep`, `RowsInStep`). Hence a copy never takes what another copy brings: it reads an address that a run has reached, and the order
  of the copies does not matter.
* The memory is what the plan says (`MemoryDelivered`): after the collective read every address has bytes related to it, and every
  copy keeps that (`CopySteps`, `CopyHolds`), by induction over the copies (`FoldLemmas`).

A byte of the file linked to an address is a byte of a write of that element (`LinkStored`), and the link of an address
determines the element (`LinkOneByte`). That the runs ascend is a hypothesis of the property, because
MPI defines no other file type; the proof does not use it.

**Only model-checked**: the liveness property `CallsReturn`, since liveness under fairness is outside TLAPS
here; and the five violations, which are counterexamples. Every other property of a passing run is a theorem.

## 12. Not modelled

* Aligned flush, subfiling, merged requests and shared metadata: no program can
  enable them at this commit (section 1). The pool of data buffers (`filei.cpp` 215-400): `bsize` is
  always unlimited.
* Asynchronous requests (`req.cpp`, `reqi.cpp`): the request class registered at `main.cpp` 35-43 is
  empty, so that no callback is ever called.
* Loading the index part by part (`H5VL_LOG_IDX_BSIZE`): `H5VL_log_filei_metaupdate_part` opens a dataset `_idx`
  that nothing creates (`filei_meta.cpp` 392), so that every such read fails.
* Reopening a file for writing: the examples and tests reopen to read; see the list in section 2.
* Decoding of references (`H5VL_logi_metaentry_ref_decode`): reached only under a flag no
  program can set. Unfiltering: the description of a dataset in `fp->dsets` is copied before its
  filters are read (`dataset.cpp` 228).
* `h5replay`: the first thing it computes of a metadata dataset, the place of its share of the section
  table, is one byte off (`h5replay_meta.cpp` 74). All later steps work on undefined sizes, so that a model
  would have no behaviour beyond its first step.
* Comparing and printing info, introspection, optional callbacks of links, attributes and objects, profiling:
  they pass calls on and keep no state the properties could depend on.
* MPI, HDF5 and zlib themselves: a collective is a joint step, dataset creation
  allocates at the end of the file. In `LogFile` and `Datasets` their errors are not modelled: the code
  jumps to a clean-up label and leaves the file unusable. `References`, `Config` and `Buffers` have those that
  leave a count or memory behind.
* Crashes: nothing is persisted before close, so there is no recovery to model.
