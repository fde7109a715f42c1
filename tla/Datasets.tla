------------------------------- MODULE Datasets -------------------------------
(***************************************************************************)
(* Dataset handles of one process of H5VL_log, the table of datasets that  *)
(* fp->dsets keeps for decoding metadata, and what becomes of a selection  *)
(* between H5Dwrite and the index of a later read.                         *)
(*                                                                         *)
(* One process; what the processes do together is in LogFile.  A metadata  *)
(* flush appends the queued entries to the file.  Where a block's data is  *)
(* in the file is left out.  A file is reopened read-only.                 *)
(***************************************************************************)
EXTENDS MetaEntry

CONSTANTS
  Handles,       \* dataset handles the program can hold at a time
  Spaces,        \* [dims, mdims] a dataset can be created with
  Extents,       \* dimensions the program can ask for
  Selectable,    \* selections it can make, as H5VL_log_selections keeps them
  MaxDsets,      \* bound: datasets
  MaxWrites,     \* bound: writes, failed ones included until the next flush
  MaxSessions,   \* bound: times the file is opened
  Configs,       \* configurations, sets of H5VL_FILEI_CONFIG_ flags
  None           \* a handle that is not open

ASSUME Parameters ==
  /\ {MaxDsets, MaxWrites} \subseteq Nat /\ MaxSessions \in Nat \ {0}
  /\ Configs \subseteq SUBSET {"SEL_ENCODE", "SEL_DEFLATE"}
  /\ \A s \in Spaces :
       s.dims \in Seq(Nat) /\ s.mdims \in Seq(Nat \cup {Unlimited})
         /\ Len(s.dims) = Len(s.mdims) /\ s.dims # <<>>
  /\ Extents \subseteq Seq(Nat)
  /\ \A sels \in Selectable :
       /\ sels \in Seq([start : Seq(Nat), count : Seq(Nat)])
       /\ \A b \in Range(sels) : Len(b.count) = Len(b.start)

VARIABLES
  session,    \* 1 in the creating session, > 1: reopened, read-only
  config,     \* fp->config, kept in the file
  status,     \* "open", "closed" or "crashed"
  atts,       \* the datasets in the file, by ID: attributes _dims and _mdims
  extent,     \* history: the extent each dataset has for the program
  handle,     \* [Handles -> None or H5VL_log_dset_t; and, as history, the
              \* dimensions that its dsteps were computed from]
  dsets,      \* fp->dsets by ID + 1
  mreqs,      \* fp->mreqs by ID + 1: is there a merged request
  wreqs,      \* fp->wreqs
  hash,       \* keys of fp->wreq_hash
  stray,      \* history: how many of them never reached the queue
  md,         \* the entries in the metadata datasets of the file
  metadirty,  \* fp->metadirty
  idxvalid,   \* fp->idxvalid
  idx,        \* the decoded entries, idx[k] from md[k]
  result      \* what the last H5Dread returned

file == <<session, config, status, atts, extent>>
table == <<handle, dsets, mreqs>>
queue == <<wreqs, hash, stray, md, metadirty>>
index == <<idxvalid, idx, result>>
vars == <<file, table, queue, index>>

-----------------------------------------------------------------------------
IsOpen(h) == handle[h] # None
Writable == status = "open" /\ session = 1
NDsets == Len(atts)

\* The value a slot of fp->dsets has before its dataset is opened.
Blank == [ndim |-> 0, esize |-> 0, dims |-> <<>>]
Described(space) == [ndim |-> Len(space.dims), esize |-> 1, dims |-> space.dims]

\* The vector grown to ndset slots.
Grown(s, fill) ==
  [d \in 1 .. NDsets |-> IF d \in DOMAIN s THEN s[d] ELSE fill]

\* The selections inside the extent a dataset has for the program.
Selections(dims) ==
  {sels \in Selectable : \A b \in Range(sels) :
     /\ Len(b.start) = Len(dims)
     /\ \A i \in DOMAIN dims : b.start[i] + b.count[i] <= dims[i]}

Init ==
  /\ session = 1 /\ config \in Configs /\ status = "open"
  /\ atts = <<>> /\ extent = <<>>
  /\ handle = [h \in Handles |-> None]
  /\ dsets = <<>> /\ mreqs = <<>>
  /\ wreqs = <<>> /\ hash = {} /\ stray = 0 /\ md = <<>>
  /\ metadirty = FALSE /\ idxvalid = FALSE
  /\ idx = <<>> /\ result = "none"

-----------------------------------------------------------------------------
(* Handles *)

\* H5VL_log_dataset_create: the next ID, a slot in the tables, attributes.
H5Dcreate(h, space) ==
  /\ Writable /\ ~IsOpen(h) /\ NDsets < MaxDsets
  /\ atts' = Append(atts, space)
  /\ extent' = Append(extent, space.dims)
  /\ handle' = [handle EXCEPT ![h] =
       [id |-> NDsets + 1, dims |-> space.dims, mdims |-> space.mdims,
        dsteps |-> Steps(space.dims), stepped |-> space.dims]]
  /\ dsets' = Append(dsets, Described(space))
  /\ mreqs' = Append(mreqs, TRUE)
  /\ UNCHANGED <<session, config, status, queue, index>>

\* H5VL_log_dataset_open: the attributes, and this dataset's slots only.
RecordedShort(d) ==
  [i \in DOMAIN dsets \cup 1 .. d |->
     IF i = d THEN Described(atts[d]) ELSE IF i \in DOMAIN dsets THEN dsets[i] ELSE Blank]
Recorded(d) == [Grown(dsets, Blank) EXCEPT ![d] = Described(atts[d])]
H5Dopen(h, d) ==
  /\ status = "open" /\ ~IsOpen(h)
  /\ handle' = [handle EXCEPT ![h] =
       [id |-> d, dims |-> atts[d].dims, mdims |-> atts[d].mdims,
        dsteps |-> Steps(atts[d].dims), stepped |-> atts[d].dims]]
  /\ dsets' = Recorded(d)
  /\ mreqs' = [mreqs EXCEPT ![d] = TRUE]
  /\ UNCHANGED <<file, queue, index>>

\* H5VL_DATASET_SET_EXTENT: the dimensions are set one by one, up to the first
\* that exceeds its maximum; the steps follow when all are set.
H5Dset_extent(h, dims) ==
  /\ Writable /\ IsOpen(h) /\ Len(dims) = Len(handle[h].dims)
  /\ LET dp == handle[h]
         bad(i) == dp.mdims[i] # Unlimited /\ dims[i] > dp.mdims[i]
         ok == \A i \in DOMAIN dims : ~bad(i)
         set == [i \in DOMAIN dims |->
                   IF \E j \in 1 .. i : bad(j) THEN dp.dims[i] ELSE dims[i]]
         seen == [i \in DOMAIN dims |->
                   IF \E j \in 1 .. i : bad(j) THEN dsets[dp.id].dims[i] ELSE dims[i]]
     IN  /\ handle' = [handle EXCEPT
              ![h].dims = set, ![h].dsteps = IF ok THEN Steps(set) ELSE @,
              ![h].stepped = IF ok THEN set ELSE @]
         /\ dsets' = [dsets EXCEPT ![dp.id].dims = seen]
         /\ extent' = IF ok THEN [extent EXCEPT ![dp.id] = dims] ELSE extent
  /\ UNCHANGED <<session, config, status, atts, mreqs, queue, index>>

\* H5VL_log_dataset_close looks into the merged request, deletes it and clears
\* its slot; a second handle of the same dataset finds the slot cleared.
H5Dclose(h) ==
  /\ status = "open" /\ IsOpen(h)
  /\ IF mreqs[handle[h].id]
     THEN /\ mreqs' = [mreqs EXCEPT ![handle[h].id] = FALSE]
          /\ handle' = [handle EXCEPT ![h] = None]
          /\ UNCHANGED <<file, dsets, queue, index>>
     ELSE /\ status' = "crashed"
          /\ UNCHANGED <<session, config, atts, extent, table, queue, index>>

-----------------------------------------------------------------------------
(* Writing *)

NWrites == Len(md) + Len(wreqs)

\* The entry a request becomes: what it is written as, and, for the
\* properties, the selection and the dimensions its steps were computed from.
Entry(r, dp, sels) ==
  [id |-> dp.id, flags |-> r.flags, body |-> r.rec \o r.sel,
   sels |-> sels, dims |-> dp.stepped]

\* H5VL_log_dataseti_write: nothing for an empty selection, otherwise build the
\* request, look it up in the table and enter it there, compress it, queue it.
\* Packing or filtering its data may fail in between: the request is not queued
\* and stays in the table.  (A failure that enters nothing changes nothing.)
H5Dwrite(h) ==
  /\ Writable /\ IsOpen(h) /\ NWrites + stray < MaxWrites
  /\ \E sels \in Selections(extent[handle[h].id]) \ {<<>>}, shorter \in BOOLEAN :
       LET dp == handle[h]
           r == Request(dp, config, sels)
           same == {k \in hash : SameEntry(r, k)}
           shared == Shareable(r) /\ same # {}
           s == IF shared THEN Reference(r, CHOOSE k \in same : TRUE) ELSE r
           entered == Shareable(r) /\ ~shared
       IN  /\ hash' = IF entered THEN hash \cup {r} ELSE hash
           /\ \/ /\ wreqs' = Append(wreqs, Entry(Compressed(s, shorter), dp, sels))
                 /\ stray' = stray
              \/ /\ entered
                 /\ stray' = stray + 1
                 /\ wreqs' = wreqs
  /\ UNCHANGED <<file, table, md, metadirty, index>>

\* A data flush leaves the entries queued and marks the metadata dirty.
H5Fflush ==
  /\ Writable /\ wreqs # <<>> /\ ~metadirty
  /\ metadirty' = TRUE
  /\ UNCHANGED <<file, table, wreqs, hash, stray, md, index>>

-----------------------------------------------------------------------------
(* Reading *)

\* H5VL_log_filei_metaflush on behalf of a read or a close.
MetaflushKeepsHash ==
  /\ md' = md \o wreqs
  /\ wreqs' = <<>> /\ hash' = hash /\ stray' = 0 /\ metadirty' = FALSE
Metaflush ==
  /\ md' = md \o wreqs
  /\ wreqs' = <<>> /\ hash' = {} /\ stray' = 0 /\ metadirty' = FALSE

\* H5VL_log_filei_metaupdate: decode entry by entry until one fails.
LoadIndex(entries) ==
  LET decoded == [k \in 1 .. Len(entries) |->
        Decode(dsets[entries[k].id], entries[k].flags, entries[k].body)]
  IN  \E last \in 0 .. Len(entries) :
        /\ \A k \in 1 .. last : decoded[k].outcome = "ok"
        /\ last < Len(entries) => decoded[last + 1].outcome # "ok"
        /\ idx' = SubSeq(decoded, 1, last)
        /\ idxvalid' = (last = Len(entries))
        /\ result' = IF last = Len(entries) THEN "ok" ELSE decoded[last + 1].outcome
        /\ status' = IF result' = "crash" THEN "crashed" ELSE status

\* H5VL_log_dataseti_read through any open handle.
H5Dread ==
  /\ status = "open" /\ \E h \in Handles : IsOpen(h)
  /\ \/ /\ idxvalid
        /\ result' = "ok"
        /\ UNCHANGED <<status, queue, idxvalid, idx>>
     \/ /\ ~idxvalid /\ metadirty
        /\ Metaflush
        /\ LoadIndex(md \o wreqs)
     \/ /\ ~idxvalid /\ ~metadirty
        /\ LoadIndex(md)
        /\ UNCHANGED queue
  /\ UNCHANGED <<session, config, atts, extent, table>>

-----------------------------------------------------------------------------
(* Closing and reopening *)

\* The program closes its handles, then the file.
H5Fclose ==
  /\ status = "open" /\ \A h \in Handles : ~IsOpen(h)
  /\ status' = "closed"
  /\ IF session = 1 THEN Metaflush ELSE UNCHANGED queue
  /\ UNCHANGED <<session, config, atts, extent, table, index>>

\* A new file object: empty tables, no index.
H5Fopen ==
  /\ status = "closed" /\ session < MaxSessions
  /\ session' = session + 1 /\ status' = "open"
  /\ dsets' = <<>>
  /\ mreqs' = [d \in 1 .. NDsets |-> FALSE]
  /\ idxvalid' = FALSE /\ idx' = <<>> /\ result' = "none"
  /\ UNCHANGED <<config, atts, extent, handle, queue>>

\* The program has ended, or its process has.
Finished ==
  /\ \/ status = "crashed"
     \/ status = "closed" /\ session = MaxSessions
  /\ UNCHANGED vars

Next ==
  \/ \E h \in Handles :
       \/ \E s \in Spaces : H5Dcreate(h, s)
       \/ \E d \in 1 .. NDsets : H5Dopen(h, d)
       \/ \E dims \in Extents : H5Dset_extent(h, dims)
       \/ H5Dclose(h)
       \/ H5Dwrite(h)
  \/ H5Fflush \/ H5Dread \/ H5Fclose \/ H5Fopen \/ Finished

Spec == Init /\ [][Next]_vars

-----------------------------------------------------------------------------
(* Properties *)

\* Every variable has its type: a handle has as many steps as dimensions, a slot
\* of fp->dsets is blank or describes its dataset, and the tables and queues of
\* the file object name datasets of the file.
HandlesOK ==
  \A h \in Handles : IsOpen(h) =>
    /\ handle[h].id \in 1 .. NDsets
    /\ handle[h].dims \in Seq(Nat)
    /\ Len(handle[h].dims) = Len(atts[handle[h].id].dims)
    /\ DOMAIN handle[h].dsteps = DOMAIN handle[h].dims
    /\ handle[h].stepped \in Seq(Nat) /\ Len(handle[h].stepped) = Len(handle[h].dims)
DsetsOK ==
  /\ dsets \in Seq(Range(dsets)) /\ Len(dsets) <= NDsets
  /\ \A d \in DOMAIN dsets :
       \/ dsets[d] = Blank
       \/ dsets[d].ndim = Len(atts[d].dims) /\ Len(dsets[d].dims) = dsets[d].ndim
QueuesOK ==
  /\ wreqs \in Seq(Range(wreqs)) /\ md \in Seq(Range(md))
  /\ \A e \in Range(wreqs) \cup Range(md) : e.id \in 1 .. NDsets
TypeOK ==
  /\ session \in 1 .. MaxSessions /\ config \in Configs
  /\ status \in {"open", "closed", "crashed"}
  /\ atts \in Seq(Spaces) /\ extent \in Seq(Seq(Nat)) /\ Len(extent) = NDsets
  /\ DOMAIN handle = Handles /\ HandlesOK
  /\ DsetsOK
  /\ mreqs \in Seq(BOOLEAN) /\ Len(mreqs) = NDsets
  /\ QueuesOK
  /\ stray \in Nat /\ metadirty \in BOOLEAN /\ idxvalid \in BOOLEAN
  /\ result \in {"none", "ok", "error", "crash"}

\* What H5VL_logi_metaentry_decode can decode: an entry that is neither a
\* reference, a record nor compressed, whose coordinates and counts lie below
\* the dimensions from which the handle that encoded them has its steps, and
\* whose dataset has been opened before the index was loaded.  (A set_extent
\* that fails, or one of another handle, leaves the steps behind the extent.)
Plain(e) == e.flags \cap {"SEL_REF", "REC", "SEL_DEFLATE"} = {}
StartsFit(e) ==
  \A b \in Range(e.sels), i \in 2 .. Len(e.dims) : b.start[i] < e.dims[i]
CountsFit(e) ==
  \A b \in Range(e.sels), i \in 2 .. Len(e.dims) : b.count[i] < e.dims[i]
Fits(e) == StartsFit(e) /\ CountsFit(e)
Known(k) == \A b \in Range(idx[k].sels) : Len(b.start) = Len(md[k].dims)
Starts(sels) == [i \in DOMAIN sels |-> sels[i].start]
Counts(sels) == [i \in DOMAIN sels |-> sels[i].count]

\* The index has the selection the program wrote, whatever was extended,
\* opened and closed between the write and the read (the writing side in
\* H5VL_log_wreq_t against H5VL_logi_metaentry_decode).
SelectionsRecovered ==
  \A k \in DOMAIN idx :
    LET e == md[k] IN
    Plain(e) /\ Known(k) /\ ("SEL_ENCODE" \in e.flags => Fits(e))
      => /\ Starts(idx[k].sels) = Starts(e.sels)
         /\ Counts(idx[k].sels) = Counts(e.sels)

\* The blocks of such an entry lie one behind the other in its data block, in
\* the order in which H5Dwrite packed them, and fill it.
BlocksTileData ==
  \A k \in DOMAIN idx :
    LET e == md[k]
        before(i) == SumFunctionOnSet([j \in DOMAIN e.sels |-> Volume(e.sels[j].count)],
                                      1 .. i - 1)
    IN  Plain(e) /\ Known(k) /\ ("SEL_ENCODE" \in e.flags => CountsFit(e))
          => /\ idx[k].dsize = before(Len(e.sels) + 1)
             /\ \A i \in DOMAIN e.sels : idx[k].sels[i].doff = before(i)

\* As soon as a read is possible, fp->dsets has a slot for every dataset the
\* metadata of the file names, opened or not: loading the index never indexes
\* the vector beyond its end.
TableCoversEntries ==
  status = "open" /\ (\E h \in Handles : IsOpen(h)) =>
    \A e \in Range(md) : e.id \in DOMAIN dsets

\* As long as no write has failed after it was entered in fp->wreq_hash, a
\* queued reference has its target in the same queue and before it, so that
\* its offset never leaves the section of its metadata flush; a failure in one
\* flush does not reach the references of the next.  The target has the same
\* selection, unless one of them was encoded by a handle whose steps make it
\* ambiguous.  (Of record writes the key misses the record.)
ReferencesStayInFlush ==
  stray = 0 => \A k \in DOMAIN wreqs :
    "SEL_REF" \in wreqs[k].flags /\ "REC" \notin wreqs[k].flags =>
      \E j \in 1 .. k - 1 :
        /\ "SEL_REF" \notin wreqs[j].flags
        /\ Fits(wreqs[j]) /\ Fits(wreqs[k]) => wreqs[j].sels = wreqs[k].sels
=============================================================================
