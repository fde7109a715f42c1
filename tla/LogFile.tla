------------------------------- MODULE LogFile -------------------------------
(***************************************************************************)
(* The log-structured file of H5VL_log: NP MPI processes queue writes in   *)
(* H5VL_log_file_t::wreqs, append their data to the file in collective     *)
(* flushes (a log dataset _ld_k per flush), append their metadata in       *)
(* collective metadata flushes (a metadata dataset _md_k each), rebuild an *)
(* index from the metadata datasets to serve reads, and close and reopen   *)
(* the file.                                                               *)
(*                                                                         *)
(* A process runs on its own between collectives.  A collective that       *)
(* cannot complete before every process has entered it (MPI_Allreduce,     *)
(* MPI_Gather + MPI_Scatter, MPI_Barrier, a collective HDF5 call) is one   *)
(* step of all processes; MPI_File_write_at_all need not synchronise, so   *)
(* each process does its share of the writing in a step of its own.        *)
(* Consecutive collectives with no local effect between them are one step. *)
(*                                                                         *)
(* Data is abstract: a write covers one cell of a one-dimensional dataset  *)
(* with `size' bytes, all equal to the write itself; a metadata entry and  *)
(* a word of a section table take one unit of the file, like a byte.       *)
(*                                                                         *)
(* Every process writes and reads through the view it set on its MPI file  *)
(* handle.  A read that finds data sets it to the blocks it found and      *)
(* leaves it there, so that later writes count their offsets in the bytes  *)
(* of these blocks and end up elsewhere.                                   *)
(***************************************************************************)
EXTENDS Integers, Sequences, FiniteSets

CONSTANTS
  NP,             \* number of MPI processes (fp->np)
  Cells,          \* coordinates a selection can name; it covers one of them
  Sizes,          \* data sizes of a write in bytes
  MaxWrites,      \* bound: writes per process
  MaxCalls,       \* bound: collective calls per session
  MaxSessions,    \* bound: times the file is opened
  MaxBytes,       \* bound: size of a log or metadata dataset
  Header,         \* units of the file in front of the first dataset
  Junk,           \* offsets that memory never set may hold
  Disciplined,    \* the program flushes before a read or a close, writes
                  \* nothing after its first read, and no process writes a
                  \* cell again while its first write is queued
  EmptyReads,     \* the program may call H5Dread with an empty selection
  Nothing,        \* a byte never written; the answer to a read without data
  Garbage         \* the answer to a read of bytes that are not one write's

Rank == 0 .. NP - 1
Write == [rank : Rank, seq : 1 .. MaxWrites, cell : Cells, size : Sizes]

\* hdr->foff of a request whose data was never flushed: malloc'ed, not set.
Unset == -1
\* ref: the selection was replaced by the offset of an earlier entry.
Entry == [w : Write, foff : Nat \cup {Unset}, ref : BOOLEAN]

\* What a unit of the file may hold: a byte of a write, a metadata entry, a
\* word of a section table, or nothing so far.
Word == [word : Nat]
Unit == Write \cup Entry \cup Word \cup {Nothing}

\* A log dataset _ld_k or metadata dataset _md_k: the name each process passed
\* for it and its place in the file; and, for the properties, whether every
\* process had the plain view of the file when it was created.
Dataset == [names : SUBSET Nat, doff : Nat, size : Nat, plain : BOOLEAN]

ASSUME Parameters ==
  /\ NP \in Nat \ {0}
  /\ Cells \subseteq Nat
  /\ Sizes \subseteq Nat \ {0}
  /\ {MaxWrites, MaxCalls, MaxSessions, MaxBytes} \subseteq Nat
  /\ Header \in Nat /\ Header >= 2
  /\ Junk \in (SUBSET Nat) \ {{}}
  /\ {Disciplined, EmptyReads} \subseteq BOOLEAN
  /\ Nothing \notin Write \cup Entry \cup Word /\ Garbage \notin Write
  /\ Garbage # Nothing

Ops == {"flush", "read", "close"}

\* Points where a process waits until all processes are at the same point.
Joint == {"sync", "gather", "mdbarrier", "readall", "fclose", "closed"}
Local == {"app", "ldwrite", "mdwrite", "load", "search", "failed"}

VARIABLES
  calls,      \* collective calls of the program in this session, in order
  ncall,      \* [Rank -> Nat] how many of them each process has made
  session,    \* 1 in the creating session (read-write), > 1: reopened, read-only
  dirty,      \* [Rank -> BOOLEAN] has the process written since its last H5Fflush
  issued,     \* history: all writes accepted by H5Dwrite
  placed,     \* history: entries whose data went to the file at entry.foff
  pc,         \* [Rank -> Joint \cup Local]
  wreqs,      \* [Rank -> Seq(Entry)] fp->wreqs
  nflushed,   \* [Rank -> Nat] fp->nflushed
  metadirty,  \* [Rank -> BOOLEAN] fp->metadirty
  idxvalid,   \* [Rank -> BOOLEAN] fp->idxvalid
  idx,        \* [Rank -> SUBSET Unit] fp->idx
  view,       \* [Rank -> Seq(Nat)] the file view of fp->fh: the offsets of the
              \* bytes of its filetype in ascending order, <<>> for all bytes
  nldset,     \* [Rank -> Nat] fp->nldset
  nmdset,     \* [Rank -> Nat] fp->nmdset
  fsize,      \* [Rank -> Nat] fsize_local
  mtype,      \* [Rank -> bytes to write] the memory type of the data flush
  base,       \* [Rank -> Nat] foff_group + doff, later rbuf[0]
  mdoffs,     \* section table rank 0 is about to write
  eof,        \* end of the space HDF5 has allocated
  disk,       \* the units written so far, a function on their offsets
  ld,         \* log datasets in creation order
  md,         \* metadata datasets in creation order
  att,        \* _int_att: [nldset, nmdset]
  got         \* [Rank -> answer] what the last H5Dread returned

prog == <<calls, ncall, session, dirty, issued>>
queue == <<wreqs, nflushed>>
flags == <<metadirty, idxvalid>>
counters == <<nldset, nmdset>>
scratch == <<fsize, mtype, base, mdoffs>>
store == <<eof, disk, ld, md, att, placed>>
vars == <<prog, pc, queue, flags, idx, view, counters, scratch, store, got>>

-----------------------------------------------------------------------------
(* Helpers *)

\* p is the exclusive prefix sum of the sizes s and ends in their total: what
\* the offset loop, MPI_Exscan with MPI_Allreduce, and rank 0 compute.
IsScan(p, s) == p[0] = 0 /\ \A i \in DOMAIN s : p[i] = p[i-1] + s[i]
Scans(n) == [0 .. n -> 0 .. MaxBytes]

\* The requests whose data the coming flush writes: nflushed .. size()-1.
Pending(r) == nflushed[r] + 1 .. Len(wreqs[r])
NPending(r) == IF Len(wreqs[r]) > nflushed[r] THEN Len(wreqs[r]) - nflushed[r] ELSE 0
PendingSizes(r) == [i \in 1 .. NPending(r) |-> wreqs[r][nflushed[r] + i].w.size]

\* The collective call a process is in.
Op(r) == calls[ncall[r]]

Placed == {e.w : e \in placed}

\* The unit at an offset of the file.
UnitAt(o) == IF o \in DOMAIN disk THEN disk[o] ELSE Nothing

\* The bytes of a data block as a read sees them.
BytesAt(e) ==
  IF /\ e.foff # Unset
     /\ UnitAt(e.foff) \in Write
     /\ \A o \in e.foff .. e.foff + e.w.size - 1 : UnitAt(o) = UnitAt(e.foff)
  THEN UnitAt(e.foff)
  ELSE Garbage

\* MPI: the filetype repeats from the first of its bytes to behind its last,
\* and offset o of a view is the o-th byte of these.
Plain == <<>>
Place(v, o) ==
  IF v = Plain THEN o
  ELSE (o \div Len(v)) * (v[Len(v)] - v[1] + 1) + v[1 + (o % Len(v))]

\* MPI_File_write_at_all of process r: the units u, at offset o of its view.
Written(r, o, u) ==
  LET at == [i \in DOMAIN u |-> Place(view[r], o + i)]
  IN  [x \in DOMAIN disk \cup {at[i] : i \in DOMAIN u} |->
         IF \E i \in DOMAIN u : at[i] = x
         THEN u[CHOOSE i \in DOMAIN u : at[i] = x]
         ELSE disk[x]]

AllPlain == \A r \in Rank : view[r] = Plain

Init ==
  /\ calls = <<>>
  /\ ncall = [r \in Rank |-> 0]
  /\ session = 1
  /\ dirty = [r \in Rank |-> FALSE]
  /\ issued = {}
  /\ placed = {}
  /\ pc = [r \in Rank |-> "app"]
  /\ wreqs = [r \in Rank |-> <<>>]
  /\ nflushed = [r \in Rank |-> 0]
  /\ metadirty = [r \in Rank |-> FALSE]
  /\ idxvalid = [r \in Rank |-> FALSE]
  /\ idx = [r \in Rank |-> {}]
  /\ nldset = [r \in Rank |-> 0]
  /\ nmdset = [r \in Rank |-> 0]
  /\ fsize = [r \in Rank |-> 0]
  /\ mtype = [r \in Rank |-> <<>>]
  /\ base = [r \in Rank |-> 0]
  /\ mdoffs = <<>>
  /\ view = [r \in Rank |-> Plain]
  /\ eof = Header
  /\ disk = <<>>
  /\ ld = <<>>
  /\ md = <<>>
  /\ att = [nldset |-> 0, nmdset |-> 0]
  /\ got = [r \in Rank |-> Nothing]

-----------------------------------------------------------------------------
(* The program.  It is SPMD: all processes make the same collective calls  *)
(* in the same order; H5Dwrite is independent.                             *)

\* wreq_hash holds every queued request with a selection of its own.
Deduplicated(r, c) == \E i \in DOMAIN wreqs[r] : wreqs[r][i].w.cell = c

\* H5Dwrite with a non-empty selection queues a request; its foff is unset.
H5Dwrite(r, c, s) ==
  LET w == [rank |-> r, seq |-> 1 + Cardinality({v \in issued : v.rank = r}),
            cell |-> c, size |-> s]
  IN  /\ pc[r] = "app" /\ session = 1
      /\ w.seq <= MaxWrites /\ Len(calls) < MaxCalls
      /\ Disciplined => /\ \A k \in 1 .. Len(calls) : calls[k] # "read"
                        /\ ncall[r] < Len(calls) => calls[ncall[r] + 1] = "flush"
                        /\ ~Deduplicated(r, c)
      /\ issued' = issued \cup {w}
      /\ wreqs' = [wreqs EXCEPT ![r] = Append(@,
           [w |-> w, foff |-> Unset, ref |-> Deduplicated(r, c)])]
      /\ dirty' = [dirty EXCEPT ![r] = TRUE]
      /\ UNCHANGED <<calls, ncall, session, pc, nflushed, flags, idx, view,
                     counters, scratch, store, got>>

\* Process r makes its next collective call: the one the program has there.
Call(r, op) ==
  /\ pc[r] = "app"
  /\ IF ncall[r] < Len(calls)
     THEN op = calls[ncall[r] + 1] /\ calls' = calls
     ELSE /\ op = "read" => Len(calls) < MaxCalls
          /\ op = "flush" => Len(calls) <= MaxCalls
          /\ Disciplined /\ op # "flush" =>
               \A q \in Rank : ncall[q] = ncall[r] => ~dirty[q]
          /\ calls' = Append(calls, op)
  /\ ncall' = [ncall EXCEPT ![r] = @ + 1]

-----------------------------------------------------------------------------
(* Data flush: H5VL_log_nb_flush_write_reqs *)

\* fsize_local: the sum over all n pending requests.
LocalSizeShort(p, n) == IF n = 0 THEN 0 ELSE p[n - 1]
LocalSize(p, n) == p[n]

\* Offsets of the pending requests relative to the process's block, and the
\* memory type; the process then waits in MPI_Allreduce.
StartFlush(r) ==
  LET n == NPending(r) IN
  \E p \in Scans(n) :
    /\ IsScan(p, PendingSizes(r))
    /\ wreqs' = [wreqs EXCEPT ![r] = [i \in DOMAIN @ |->
         IF i \in Pending(r) THEN [@[i] EXCEPT !.foff = p[i - nflushed[r] - 1]]
                             ELSE @[i]]]
    /\ fsize' = [fsize EXCEPT ![r] = LocalSize(p, n)]
    /\ mtype' = [mtype EXCEPT ![r] = [o \in 0 .. p[n] - 1 |->
         wreqs[r][nflushed[r] + (CHOOSE i \in 1 .. n : p[i-1] <= o /\ o < p[i])].w]]
    /\ pc' = [pc EXCEPT ![r] = "sync"]

\* Where the data flush returns to: H5VL_log_filei_close goes on with the
\* metadata flush, H5VL_log_file_specific returns to the program.
AfterFlush(r) == IF Op(r) = "close" THEN "gather" ELSE "app"

\* H5VL_FILE_FLUSH: every process enters the data flush, pending or not.
H5Fflush(r) ==
  /\ Call(r, "flush")
  /\ StartFlush(r)
  /\ dirty' = [dirty EXCEPT ![r] = FALSE]
  /\ UNCHANGED <<session, issued, nflushed, flags, idx, view, counters, base,
                 mdoffs, store, got>>

FlushSizes == [i \in 1 .. NP |-> fsize[i - 1]]

\* No process had pending data: fsize_all = 0.
FlushNothing ==
  /\ \A r \in Rank : pc[r] = "sync" /\ fsize[r] = 0
  /\ pc' = [r \in Rank |-> AfterFlush(r)]
  /\ UNCHANGED <<prog, queue, flags, idx, view, counters, scratch, store, got>>

\* foff_group + doff of a process: MPI_Exscan, not MPI_Scan.
BlockOffsetInclusive(p, r) == eof + p[r + 1]
BlockOffset(p, r) == eof + p[r]

\* MPI_Allreduce, MPI_Exscan and the creation of the log dataset, whose space
\* HDF5 allocates at the end of the file.
CreateLog ==
  /\ \A r \in Rank : pc[r] = "sync"
  /\ \E r \in Rank : fsize[r] > 0
  /\ \E p \in Scans(NP) :
       /\ IsScan(p, FlushSizes)
       /\ ld' = Append(ld, [names |-> {nldset[r] : r \in Rank},
                            doff |-> eof, size |-> p[NP], plain |-> AllPlain])
       /\ eof' = eof + p[NP]
       /\ base' = [r \in Rank |-> BlockOffset(p, r)]
  /\ pc' = [r \in Rank |-> "ldwrite"]
  /\ UNCHANGED <<prog, queue, flags, idx, view, counters, fsize, mtype, mdoffs,
                 disk, md, att, placed, got>>

\* fsize_group is the same for all processes of the group: a process without
\* data of its own counts the dataset and has metadata to flush as well.
LogCountIfData(r) == nldset[r] + (IF fsize[r] > 0 THEN 1 ELSE 0)
LogCount(r) == nldset[r] + 1
DirtyIfData(r) == metadirty[r] \/ fsize[r] > 0
DirtyAfterFlush(r) == TRUE

\* foff of the pending requests becomes their place in the file.
Relocated(r) ==
  [i \in DOMAIN wreqs[r] |->
     IF i \in Pending(r) THEN [wreqs[r][i] EXCEPT !.foff = @ + base[r]]
                         ELSE wreqs[r][i]]

\* The write of this process's block and the updates behind it, which give
\* the requests their offsets in the file whatever the view is.
WriteLog(r) ==
  /\ pc[r] = "ldwrite"
  /\ disk' = Written(r, base[r], mtype[r])
  /\ wreqs' = [wreqs EXCEPT ![r] = Relocated(r)]
  /\ placed' = placed \cup {Relocated(r)[i] : i \in Pending(r)}
  /\ nflushed' = [nflushed EXCEPT ![r] = Len(wreqs[r])]
  /\ nldset' = [nldset EXCEPT ![r] = LogCount(r)]
  /\ metadirty' = [metadirty EXCEPT ![r] = DirtyAfterFlush(r)]
  /\ fsize' = [fsize EXCEPT ![r] = 0]
  /\ mtype' = [mtype EXCEPT ![r] = <<>>]
  /\ base' = [base EXCEPT ![r] = 0]
  /\ pc' = [pc EXCEPT ![r] = AfterFlush(r)]
  /\ UNCHANGED <<prog, idxvalid, idx, view, nmdset, mdoffs, eof, ld, md, att,
                 got>>

-----------------------------------------------------------------------------
(* Metadata flush: H5VL_log_filei_metaflush *)

\* Rank 0 puts the section table in front of its entries.
TableSize(r) == IF r = 0 THEN NP + 1 ELSE 0
MetaSizesNoTable == [i \in 1 .. NP |-> Len(wreqs[i - 1])]
MetaSizes == [i \in 1 .. NP |-> TableSize(i - 1) + Len(wreqs[i - 1])]

\* MPI_Gather of the sizes, offsets on rank 0, MPI_Scatter, and the creation
\* of the metadata dataset; the table is never empty, so there always is one.
CreateMeta ==
  /\ \A r \in Rank : pc[r] = "gather"
  /\ \E p \in Scans(NP) :
       /\ IsScan(p, MetaSizes)
       /\ mdoffs' = [i \in 1 .. NP + 1 |-> IF i = 1 THEN NP ELSE p[i - 1]]
       /\ base' = [r \in Rank |-> eof + p[r]]
       /\ md' = Append(md, [names |-> {nmdset[r] : r \in Rank},
                            doff |-> eof, size |-> p[NP], plain |-> AllPlain])
       /\ eof' = eof + p[NP]
  /\ nmdset' = [r \in Rank |-> nmdset[r] + 1]
  /\ pc' = [r \in Rank |-> "mdwrite"]
  /\ UNCHANGED <<prog, queue, flags, idx, view, nldset, fsize, mtype,
                 disk, ld, att, placed, got>>

\* A metadata flush made for a close goes on closing, one made for a read
\* builds the index.
AfterBarrier(r) == IF Op(r) = "close" THEN "fclose" ELSE "load"
AfterMetaNoBarrier(r) == AfterBarrier(r)
AfterMeta(r) == "mdbarrier"

\* What process r writes into the metadata dataset: the table, on rank 0, and
\* the entries of all of wreqs.
SectionOf(r) ==
  [i \in 0 .. TableSize(r) + Len(wreqs[r]) - 1 |->
     IF i < TableSize(r) THEN [word |-> mdoffs[i + 1]]
                         ELSE wreqs[r][i - TableSize(r) + 1]]

\* The write of this process's section at mdoff + rbuf[0]; and the status
\* update, which only this process sees, so that it can stand before the
\* barrier.  nflushed keeps its value.
WriteMeta(r) ==
  /\ pc[r] = "mdwrite"
  /\ disk' = Written(r, base[r], SectionOf(r))
  /\ idxvalid' = [idxvalid EXCEPT ![r] = FALSE]
  /\ metadirty' = [metadirty EXCEPT ![r] = FALSE]
  /\ wreqs' = [wreqs EXCEPT ![r] = <<>>]
  /\ base' = [base EXCEPT ![r] = 0]
  /\ mdoffs' = IF r = 0 THEN <<>> ELSE mdoffs
  /\ pc' = [pc EXCEPT ![r] = AfterMeta(r)]
  /\ UNCHANGED <<prog, nflushed, idx, view, counters, fsize, mtype,
                 eof, ld, md, att, placed, got>>

\* MPI_Barrier: "no process read metadata before everyone finishes writing".
MetaBarrier ==
  /\ \A r \in Rank : pc[r] = "mdbarrier"
  /\ pc' = [r \in Rank |-> AfterBarrier(r)]
  /\ UNCHANGED <<prog, queue, flags, idx, view, counters, scratch, store, got>>

-----------------------------------------------------------------------------
(* Reading: H5VL_log_dataseti_read, H5VL_log_nb_flush_read_reqs *)

\* A blocking read.  An empty selection returns at once; otherwise a stale
\* index is rebuilt, after a metadata flush when metadata is dirty.
H5Dread(r) ==
  /\ Call(r, "read")
  /\ \/ /\ EmptyReads
        /\ pc' = pc
     \/ pc' = [pc EXCEPT ![r] = IF idxvalid[r] THEN "search"
                                ELSE IF metadirty[r] THEN "gather" ELSE "load"]
  /\ UNCHANGED <<session, dirty, issued, queue, flags, idx, view, counters,
                 scratch, store, got>>

\* What is decoded of a metadata dataset: the units behind the section table,
\* whose first word is the number of sections.  A hole is a zero; a number read
\* from bytes that are not a table stands for zero too.
Sections(m) == IF UnitAt(m.doff) \in Word THEN UnitAt(m.doff).word ELSE 0
EntriesOfSkipping(m) ==
  {UnitAt(o) : o \in m.doff + Sections(m) + 2 .. m.doff + m.size - 1}
EntriesOf(m) ==
  {UnitAt(o) : o \in m.doff + Sections(m) + 1 .. m.doff + m.size - 1}

\* A dataset that is what its writers meant, and one whose decoding never ends:
\* a hole is an entry of size zero.
WellFormed(m) == UnitAt(m.doff) \in Word /\ EntriesOf(m) \subseteq Entry
Endless(m) == Nothing \in EntriesOf(m)

\* H5VL_log_filei_metaupdate: drop the index, decode _md_0 .. _md_(nmdset-1).
\* Bytes that are no entry may be passed over or end the process; from a hole
\* the loop never gets away.
LoadIndex(r) ==
  /\ pc[r] = "load"
  /\ idx' = [idx EXCEPT ![r] = UNION {EntriesOf(md[k]) : k \in 1 .. nmdset[r]}]
  /\ \/ /\ \A k \in 1 .. nmdset[r] : ~Endless(md[k])
        /\ idxvalid' = [idxvalid EXCEPT ![r] = TRUE]
        /\ pc' = [pc EXCEPT ![r] = "search"]
     \/ /\ \E k \in 1 .. nmdset[r] : ~WellFormed(md[k])
        /\ pc' = [pc EXCEPT ![r] = "failed"]
        /\ UNCHANGED idxvalid
  /\ UNCHANGED <<prog, queue, metadirty, view, counters, scratch, store, got>>

\* The count that intersect() computes for the unit blocks at c and d, before
\* it is taken as an unsigned number and tested for being positive.
Overlap(c, d) == 1 - (IF c > d THEN c - d ELSE d - c)

\* A reference is decoded as coordinates far outside every dataset; these, and
\* a gap between two blocks, wrap around to a positive count.
Hits(r, c) ==
  {e \in idx[r] \cap Entry : e.ref \/ Overlap(e.w.cell, c) # 0}
Bogus(e, c) == e.ref \/ Overlap(e.w.cell, c) < 0

\* The filetype of a read: the bytes of its hits, none without a hit.  A block
\* whose offset was never set lies wherever the memory said.
HitBytes(h, junk) ==
  LET foff(e) == IF e.foff = Unset THEN junk ELSE e.foff
  IN  UNION {foff(e) .. foff(e) + e.w.size - 1 : e \in h}
Below(x, s) == {y \in s : y < x}
Sorted(s) ==
  [i \in 1 .. Cardinality(s) |-> CHOOSE x \in s : Cardinality(Below(x, s)) = i - 1]
Views(h) == {Sorted(HitBytes(h, junk)) : junk \in Junk}

\* The selection is searched in the index, the view is set and the matching
\* bytes are read; of several blocks for the same cell any may end up in the
\* user's buffer.  The view stays when the read is over.
Search(r, c) ==
  /\ pc[r] = "search"
  /\ \A e \in Hits(r, c) : ~Bogus(e, c)
  /\ \E v \in Views(Hits(r, c)) : view' = [view EXCEPT ![r] = v]
  /\ \/ Hits(r, c) = {} /\ got' = [got EXCEPT ![r] = Nothing]
     \/ \E e \in Hits(r, c) : got' = [got EXCEPT ![r] = BytesAt(e)]
  /\ pc' = [pc EXCEPT ![r] = "readall"]
  /\ UNCHANGED <<prog, queue, flags, idx, counters, scratch, store>>

\* A wrapped count or start makes MPI_Type_create_subarray fail, a negative
\* offset MPI_File_set_view; the process never enters MPI_File_read_all.
SearchFails(r, c) ==
  /\ pc[r] = "search"
  /\ \E e \in Hits(r, c) : Bogus(e, c) \/ e.foff = Unset
  /\ pc' = [pc EXCEPT ![r] = "failed"]
  /\ UNCHANGED <<prog, queue, flags, idx, view, counters, scratch, store, got>>

\* MPI_File_read_all is collective.
ReadAll ==
  /\ \A r \in Rank : pc[r] = "readall"
  /\ pc' = [r \in Rank |-> "app"]
  /\ UNCHANGED <<prog, queue, flags, idx, view, counters, scratch, store, got>>

-----------------------------------------------------------------------------
(* Closing and reopening *)

\* H5VL_log_filei_close: only a process with more requests than nflushed
\* enters the data flush; the others go straight to the metadata flush.
H5Fclose(r) ==
  /\ Call(r, "close")
  /\ IF session > 1
     THEN /\ pc' = [pc EXCEPT ![r] = "fclose"]
          /\ UNCHANGED <<wreqs, fsize, mtype>>
     ELSE IF Len(wreqs[r]) > nflushed[r]
     THEN StartFlush(r)
     ELSE /\ pc' = [pc EXCEPT ![r] = "gather"]
          /\ UNCHANGED <<wreqs, fsize, mtype>>
  /\ UNCHANGED <<session, dirty, issued, nflushed, flags, idx, view, counters,
                 base, mdoffs, store, got>>

\* _int_att is written after the metadata flush.
AttBeforeMetaflush == [nldset |-> nldset[0], nmdset |-> nmdset[0] - 1]
AttAtClose == [nldset |-> nldset[0], nmdset |-> nmdset[0]]

\* Writing _int_att and closing the file are collective.
CloseFile ==
  /\ \A r \in Rank : pc[r] = "fclose"
  /\ att' = IF session = 1 THEN AttAtClose ELSE att
  /\ pc' = [r \in Rank |-> "closed"]
  /\ UNCHANGED <<prog, queue, flags, idx, view, counters, scratch, eof, disk, ld,
                 md, placed, got>>

\* H5Fopen with H5F_ACC_RDONLY: a new file object with a new MPI file handle,
\* its counters from _int_att.
Reopen ==
  /\ \A r \in Rank : pc[r] = "closed"
  /\ session < MaxSessions
  /\ session' = session + 1
  /\ calls' = <<>>
  /\ ncall' = [r \in Rank |-> 0]
  /\ wreqs' = [r \in Rank |-> <<>>]
  /\ nflushed' = [r \in Rank |-> 0]
  /\ metadirty' = [r \in Rank |-> FALSE]
  /\ idxvalid' = [r \in Rank |-> FALSE]
  /\ idx' = [r \in Rank |-> {}]
  /\ view' = [r \in Rank |-> Plain]
  /\ nldset' = [r \in Rank |-> att.nldset]
  /\ nmdset' = [r \in Rank |-> att.nmdset]
  /\ pc' = [r \in Rank |-> "app"]
  /\ UNCHANGED <<dirty, issued, scratch, store, got>>

\* The program has ended, or every process runs in a loop without end; keeps
\* these apart from a deadlock.
Finished ==
  /\ \/ (\A r \in Rank : pc[r] = "closed") /\ session = MaxSessions
     \/ \A r \in Rank : pc[r] = "failed"
  /\ UNCHANGED vars

-----------------------------------------------------------------------------
Step(r) ==
  \/ \E c \in Cells, s \in Sizes : H5Dwrite(r, c, s)
  \/ H5Fflush(r) \/ H5Dread(r) \/ H5Fclose(r)
  \/ WriteLog(r) \/ WriteMeta(r) \/ LoadIndex(r)
  \/ \E c \in Cells : Search(r, c) \/ SearchFails(r, c)

Collective ==
  FlushNothing \/ CreateLog \/ CreateMeta \/ MetaBarrier \/ ReadAll \/ CloseFile

Next == (\E r \in Rank : Step(r)) \/ Collective \/ Reopen \/ Finished

Spec == Init /\ [][Next]_vars

\* A process inside a call keeps running, a collective all processes entered
\* completes, and a process makes the calls the others have already made.
Fairness ==
  /\ WF_vars(Collective)
  /\ \A r \in Rank :
       /\ WF_vars(WriteLog(r) \/ WriteMeta(r) \/ LoadIndex(r)
                   \/ \E c \in Cells : Search(r, c) \/ SearchFails(r, c))
       /\ WF_vars(ncall[r] < Len(calls)
                   /\ (H5Fflush(r) \/ H5Dread(r) \/ H5Fclose(r)))

FairSpec == Spec /\ Fairness

-----------------------------------------------------------------------------
(* Properties *)

\* Every variable has its type: the shape of H5VL_log_file_t and of the file.
TypeOK ==
  /\ calls \in Seq(Ops)
  /\ ncall \in [Rank -> Nat]
  /\ session \in Nat \ {0}
  /\ dirty \in [Rank -> BOOLEAN]
  /\ issued \subseteq Write
  /\ placed \subseteq Entry
  /\ pc \in [Rank -> Joint \cup Local]
  /\ wreqs \in [Rank -> Seq(Entry)]
  /\ nflushed \in [Rank -> Nat]
  /\ metadirty \in [Rank -> BOOLEAN]
  /\ idxvalid \in [Rank -> BOOLEAN]
  /\ nldset \in [Rank -> Nat]
  /\ nmdset \in [Rank -> Nat]
  /\ fsize \in [Rank -> Nat]
  /\ DOMAIN mtype = Rank /\ DOMAIN idx = Rank
  /\ view \in [Rank -> Seq(Nat)]
  /\ \A r \in Rank : mtype[r] \in [0 .. fsize[r] - 1 -> Write]
  /\ base \in [Rank -> Nat]
  /\ mdoffs \in Seq(Nat)
  /\ eof \in Nat
  /\ DOMAIN disk \subseteq Nat
  /\ \A o \in DOMAIN disk : disk[o] \in Unit \ {Nothing}
  /\ ld \in Seq(Dataset)
  /\ md \in Seq(Dataset)
  /\ att \in [nldset : Nat, nmdset : Nat]
  /\ got \in [Rank -> Write \cup {Nothing, Garbage}]
  /\ \A r \in Rank : idx[r] \subseteq Unit

\* Data flushed while every process had the plain view stays readable at the
\* file offset its metadata records: no block of another process, of the same
\* process or of a later flush overlaps it, nor does anything that later goes
\* through a view a read has left (offset arithmetic of
\* H5VL_log_nb_flush_write_reqs, MPI_File_set_view in the read).
InLog(e, k) == ld[k].doff <= e.foff /\ e.foff < ld[k].doff + ld[k].size
FlushedDataIntact ==
  \A k \in DOMAIN ld : ld[k].plain =>
    \A e \in placed : InLog(e, k) => BytesAt(e) = e.w

\* As long as no metadata dataset was created under a view a read had left, an
\* index built by H5VL_log_filei_metaupdate holds no hole of a metadata dataset
\* another process is still writing and nothing that is not an entry, and every
\* entry of a flushed request carries its final file offset, never the
\* process-relative one.
IndexSound ==
  (\A k \in DOMAIN md : md[k].plain) =>
    \A r \in Rank : \A e \in idx[r] :
      e \in Entry /\ (e \in placed \/ e.foff = Unset)

\* Log and metadata datasets are created under names not used before, and
\* all processes pass the same name to the collective creation: the counters
\* of the processes never diverge, in or across sessions.
NamesAgree ==
  /\ \A k \in DOMAIN ld : ld[k].names = {k - 1}
  /\ \A k \in DOMAIN md : md[k].names = {k - 1}

\* When it is written, the section table in front of a metadata dataset created
\* under plain views cuts it into one section per process, each holding entries
\* of that process only: what H5VL_log_filei_metaupdate_part and h5replay rely
\* on to divide it.  Whatever a left-over view puts into the file before or
\* after does not disturb it.
SectionTable ==
  (\A r \in Rank : pc[r] # "mdwrite") =>
    \A k \in DOMAIN md : md[k].plain =>
      LET first == md[k].doff
          end(i) == IF i = 0 THEN NP + 1 ELSE UnitAt(first + i).word
      IN  /\ \A i \in 0 .. NP : UnitAt(first + i) \in Word
          /\ UnitAt(first).word = NP
          /\ end(NP) = md[k].size
          /\ \A i \in 1 .. NP :
               /\ end(i - 1) <= end(i)
               /\ \A o \in first + end(i - 1) .. first + end(i) - 1 :
                    UnitAt(o) \in Entry /\ UnitAt(o).w.rank = i - 1

\* Two processes back in the program after the same number of collective calls
\* agree on the flags that decide which collectives they enter next.
FlagsAgree ==
  \A r, q \in Rank :
    pc[r] = "app" /\ pc[q] = "app" /\ ncall[r] = ncall[q] =>
      metadirty[r] = metadirty[q] /\ idxvalid[r] = idxvalid[q]

\* Processes never wait for each other in different collectives.
CollectivesMatch ==
  (\A r \in Rank : pc[r] \in Joint) => \A r, q \in Rank : pc[r] = pc[q]

\* When a file has been closed, every write the program made is in the file
\* and the metadata datasets _int_att counts describe it.
CloseKeepsAll ==
  (\A r \in Rank : pc[r] = "closed") =>
    \A w \in issued : \E e \in placed :
      e.w = w /\ ~e.ref /\ \E k \in 1 .. att.nmdset : e \in EntriesOf(md[k])

\* Every collective call returns, in a reopened file as long as its metadata
\* datasets are what their writers meant.
CallsReturn ==
  \A r \in Rank :
    pc[r] # "app" /\ (session = 1 \/ \A k \in DOMAIN md : WellFormed(md[k]))
      ~> pc[r] \in {"app", "closed"}

\* The file implements the abstract store: a flush commits, a read answers
\* with a committed write of its cell.
Store == INSTANCE LogStore WITH
  Writes <- Write, Readers <- Rank,
  queued <- issued \ Placed, stored <- Placed
StoreSpec == Store!Spec

-----------------------------------------------------------------------------
(* What comments of the source say, and the code does not do *)

\* H5VL_log_filei_meta.cpp:302, "Need to maintina cache if file contains
\* referenced metadata entries": a loaded index holds no undecoded reference.
ReferencesDecoded == \A r \in Rank : \A e \in idx[r] \cap Entry : ~e.ref

\* H5VL_log_filei_meta.cpp:131, "The first lens[0] byte is the decomposition
\* map": a metadata dataset that was written begins with its section table.
MapFirst ==
  (\A r \in Rank : pc[r] # "mdwrite") =>
    \A k \in DOMAIN md : \A i \in 0 .. NP : UnitAt(md[k].doff + i) \in Word

\* H5VL_log_file.cpp:582, "Closes a file.": when every process calls H5Fclose,
\* the file gets closed.
CloseReturns ==
  (\A r \in Rank : ncall[r] > 0 /\ Op(r) = "close")
    ~> (\A r \in Rank : pc[r] = "closed")
=============================================================================
