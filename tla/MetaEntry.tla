------------------------------ MODULE MetaEntry ------------------------------
(***************************************************************************)
(* Metadata entries of H5VL_log: how H5VL_log_wreq_t writes the selection  *)
(* of a request, how H5VL_log_dataseti_write shortens it, and how          *)
(* H5VL_logi_metaentry_decode reads it back.                               *)
(*                                                                         *)
(* Behind its header an entry is a sequence of 4-byte words.  An MPI_Offset *)
(* takes two, the low one first, and is small, so that its high word is 0. *)
(* A selection is a sequence of blocks, each with a start and a count per  *)
(* dimension; the size of an element is 1.                                 *)
(***************************************************************************)
EXTENDS Integers, Sequences, Functions, SequencesExt

\* H5S_UNLIMITED, the largest hsize_t.
Unlimited == -1

\* A word or a number that is not one the writer put there: a negative or
\* compressed value, a number read across a boundary or behind the end.
Odd == -1

\* The number of elements of a block.
Volume(count) == FoldFunctionOnSet(LAMBDA a, b : a * b, 1, count, DOMAIN count)

-----------------------------------------------------------------------------
(* Offsets of coordinates *)

\* dsteps: how many elements a step in each dimension skips.
StepsInclusive(dims) ==
  [i \in DOMAIN dims |-> Volume([j \in i .. Len(dims) |-> dims[j]])]
StepsWithoutLast(dims) ==
  [i \in 1 .. Len(dims) - 1 |-> Volume([j \in i + 1 .. Len(dims) |-> dims[j]])]
Steps(dims) ==
  [i \in DOMAIN dims |-> Volume([j \in i + 1 .. Len(dims) |-> dims[j]])]

SelEncode(steps, cord) ==
  SumFunctionOnSet([i \in DOMAIN cord |-> cord[i] * steps[i]], DOMAIN cord)

SelDecode(steps, off) ==
  IF Odd \in Range(steps) \cup {off}
  THEN [i \in DOMAIN steps |-> Odd]
  ELSE LET rest[i \in 0 .. Len(steps)] ==
             IF i = 0 THEN off ELSE rest[i - 1] % steps[i]
       IN  [i \in DOMAIN steps |-> rest[i - 1] \div steps[i]]

-----------------------------------------------------------------------------
(* Writing: the constructor of H5VL_log_wreq_t *)

Longs(s) == FlattenSeq([i \in DOMAIN s |-> <<s[i], 0>>])

\* All blocks lie in one record of a dataset with an unlimited first dimension.
IsRecord(mdims, sels) ==
  /\ mdims[1] = Unlimited
  /\ \A i \in DOMAIN sels :
       sels[i].count[1] = 1 /\ sels[i].start[1] = sels[1].start[1]

\* encode: with dsteps a vector becomes one offset, otherwise its coordinates,
\* in either case without the first dimof ones.
Encoded(steps, dimoff, flags, vec) ==
  LET cut(s) == SubSeq(s, dimoff + 1, Len(s))
  IN  IF "SEL_ENCODE" \in flags THEN Longs(<<SelEncode(cut(steps), cut(vec))>>)
                                ELSE Longs(cut(vec))

\* The flags, the record field, and what sel_buf points to.
Request(dp, config, sels) ==
  LET rec    == IsRecord(dp.mdims, sels)
      dimoff == IF rec THEN 1 ELSE 0
      encdim == Len(dp.dims) - dimoff
      multi  == Len(sels) > 1
      flags  == {f \in {"REC", "MUL_SEL", "SEL_ENCODE", "SEL_DEFLATE"} :
                   CASE f = "REC"         -> rec
                     [] f = "MUL_SEL"     -> multi
                     [] f = "SEL_ENCODE"  -> multi /\ encdim > 1 /\ f \in config
                     [] f = "SEL_DEFLATE" -> multi /\ f \in config}
      vecs(field) == FlattenSeq([i \in DOMAIN sels |->
                       Encoded(dp.dsteps, dimoff, flags, sels[i][field])])
  IN  [flags |-> flags,
       rec |-> IF rec THEN Longs(<<Len(sels)>>) ELSE <<>>,
       sel |-> (IF multi THEN <<Len(sels)>> ELSE <<>>)
               \o (IF "SEL_ENCODE" \in flags
                   THEN Longs(SubSeq(dp.dsteps, 1, encdim - 1)) ELSE <<>>)
               \o vecs("start") \o vecs("count")]

-----------------------------------------------------------------------------
(* Shortening: H5VL_log_dataseti_write *)

\* Selections that fit in a reference are neither looked up nor recorded.
Shareable(r) == Len(r.sel) > 2
SameEntry(r, k) == k.sel = r.sel /\ Len(k.rec) = Len(r.rec)

\* r becomes the offset of the entry k; with k's record it drops its own.
Reference(r, k) ==
  [flags |-> (r.flags \cup {"SEL_REF"}) \ {"SEL_DEFLATE"},
   rec   |-> IF "REC" \in r.flags /\ r.rec = k.rec THEN <<>> ELSE r.rec,
   sel   |-> <<Odd, Odd>>]

\* The compressed form replaces all of sel_buf when it is shorter; otherwise a
\* flag is dropped, by a constant of the file's configuration whose value is
\* that of SEL_ENCODE.
Compressed(r, shorter) ==
  IF "SEL_DEFLATE" \notin r.flags THEN r
  ELSE IF shorter THEN [r EXCEPT !.sel = <<Odd>>]
  ELSE [r EXCEPT !.flags = @ \ {"SEL_ENCODE"}]

-----------------------------------------------------------------------------
(* Reading: H5VL_logi_metaentry_decode *)

LongAt(body, p) ==
  IF p < Len(body) /\ body[p + 1] = 0 THEN body[p] ELSE Odd

\* info is the reader's description of the dataset: rank and element size.
\* The reader throws on an absurd number of blocks, overruns its stack when it
\* copies the steps of a dataset of rank 0, and returns an error when the words
\* behind the number of blocks are not a compressed stream.
Outcome(info, flags, nsel) ==
  CASE nsel = Odd /\ "SEL_DEFLATE" \notin flags     -> "crash"
    [] "SEL_DEFLATE" \in flags                      -> "error"
    [] info.ndim = 0 /\ "SEL_ENCODE" \in flags      -> "crash"
    [] OTHER                                        -> "ok"

\* Offsets of the blocks in the data block: each follows the one before.
DataOffsetsOwn(esize, counts) ==
  LET doff[i \in DOMAIN counts] ==
        IF i = 1 THEN 0 ELSE esize * Volume(counts[i]) + doff[i - 1]
  IN  doff
DataOffsets(esize, counts) ==
  LET doff[i \in DOMAIN counts] ==
        IF i = 1 THEN 0 ELSE esize * Volume(counts[i - 1]) + doff[i - 1]
  IN  doff

Decode(info, flags, body) ==
  LET multi  == "MUL_SEL" \in flags
      enc    == "SEL_ENCODE" \in flags
      nsel   == IF ~multi THEN 1 ELSE IF body = <<>> THEN Odd ELSE body[1]
      first  == IF multi THEN 2 ELSE 1
      steps  == [i \in 1 .. info.ndim |->
                   IF i = info.ndim THEN 1 ELSE LongAt(body, first + 2 * (i - 1))]
      vecs   == IF enc THEN first + 2 * (info.ndim - 1) ELSE first
      vec(k) == IF enc
                THEN SelDecode(steps, LongAt(body, vecs + 2 * k))
                ELSE [i \in 1 .. info.ndim |->
                        LongAt(body, vecs + 2 * (k * info.ndim + i - 1))]
      counts == [i \in 1 .. nsel |-> vec(nsel + i - 1)]
      doffs  == DataOffsets(info.esize, counts)
  IN  IF Outcome(info, flags, nsel) # "ok"
      THEN [outcome |-> Outcome(info, flags, nsel), sels |-> <<>>, dsize |-> 0]
      ELSE [outcome |-> "ok",
            sels |-> [i \in 1 .. nsel |->
              [start |-> vec(i - 1), count |-> counts[i], doff |-> doffs[i]]],
            dsize |-> doffs[nsel] + info.esize * Volume(counts[nsel])]
=============================================================================
