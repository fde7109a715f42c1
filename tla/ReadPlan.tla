------------------------------ MODULE ReadPlan ------------------------------
(***************************************************************************)
(* How a read of H5VL_log becomes one collective read of the file: the     *)
(* search of the index (H5VL_logi_array_idx_t::search) and the file and    *)
(* memory datatypes with the copies that follow the read                   *)
(* (H5VL_log_dataset_readi_gen_rtypes), for one dataset without filters.   *)
(*                                                                         *)
(* Addresses, in the file and in the memory of the read, count bytes.  The *)
(* index holds entries [foff, sels], each selection with its start, count  *)
(* and offset doff in the data block.  A datatype is the sequence of its   *)
(* runs of bytes: run [f, m, len] reads len bytes at f to m.               *)
(***************************************************************************)
EXTENDS Selections

\* hsize_t is unsigned, so a gap between two blocks counts as an overlap, of
\* negative length once it is stored in an int.
Overlap(a, b, i) ==
  LET lower(x, y) == IF x < y THEN x ELSE y
      upper(x, y) == IF x < y THEN y ELSE x
  IN  lower(a.start[i] + a.count[i], b.start[i] + b.count[i]) - upper(a.start[i], b.start[i])
Intersect(a, b) == \A i \in DOMAIN a.start : Overlap(a, b, i) # 0
Gap(hit) == \E i \in DOMAIN hit.count : hit.count[i] < 0

\* A hit: the part of a written selection (size dsize, from dstart) that a
\* selection of the read (size msize, from mstart, at xbuf) asks for.
Hit(ent, msel, rsel, xbuf) ==
  LET dims == DOMAIN rsel.start
      from == [i \in dims |-> IF msel.start[i] < rsel.start[i] THEN rsel.start[i]
                                                               ELSE msel.start[i]]
  IN  [foff   |-> ent.foff,
       dstart |-> [i \in dims |-> from[i] - msel.start[i]], dsize |-> msel.count,
       mstart |-> [i \in dims |-> from[i] - rsel.start[i]], msize |-> rsel.count,
       count  |-> [i \in dims |-> Overlap(msel, rsel, i)],
       xbuf   |-> xbuf]

\* Where the data of a selection of the read goes: behind the data of those
\* before it, an offset in elements.
MemoryOf(rsels, i) == SelSize(SubSeq(rsels, 1, i - 1))

Intersecting(sels, rsel) ==
  LET at == InOrder({k \in DOMAIN sels : Intersect(sels[k], rsel)}, <)
  IN  [k \in DOMAIN at |-> sels[at[k]]]
Search(entries, rsels) ==
  FlattenSeq([i \in DOMAIN rsels |-> FlattenSeq([e \in DOMAIN entries |->
    LET msels == Intersecting(entries[e].sels, rsels[i])
    IN  [k \in DOMAIN msels |->
           Hit(entries[e], msels[k], rsels[i], MemoryOf(rsels, i))]])])

-----------------------------------------------------------------------------
(* Sorting and grouping of the hits *)

PrecedesInBlock(a, b) == LessThan(a.dstart, b.dstart)
Precedes(a, b) ==
  a.foff < b.foff \/ (a.foff = b.foff /\ LessThan(a.dstart, b.dstart))
SortHits(hits) ==
  LET before(l, r) == \/ Precedes(hits[l], hits[r])
                      \/ (~Precedes(hits[r], hits[l]) /\ l < r)
      idx == InOrder(DOMAIN hits, before)
  IN  [i \in DOMAIN hits |-> hits[idx[i]]]

\* interleve: decided by the first dimension in which a does not end exactly
\* where b starts.
Interleve(a, b) ==
  \A i \in DOMAIN b.dstart :
    a.dstart[i] + a.count[i] < b.dstart[i] =>
      \E j \in 1 .. i - 1 : a.dstart[j] + a.count[j] > b.dstart[j]
Interleaves(a, b) == a.foff = b.foff /\ Interleve(a, b)

EndsRun(hits, i) == i = Len(hits) \/ ~Interleaves(hits[i], hits[i + 1])
HitGroups(hits) ==
  LET lasts == InOrder({i \in DOMAIN hits : EndsRun(hits, i)}, <)
  IN  [g \in DOMAIN lasts |-> SubSeq(hits, IF g = 1 THEN 1 ELSE lasts[g - 1] + 1, lasts[g])]

-----------------------------------------------------------------------------
(* Runs *)

\* The rows of a hit.  A single hit is a subarray of elements; a hit of a group
\* is broken into rows whose offsets count elements (unit 1).
Shifted(start, ctr) == [i \in DOMAIN start |-> start[i] + ctr[i]]
RowsOf(hit, esize, unit) ==
  LET n    == Len(hit.count)
      rows == CellsOf([start |-> [i \in 1 .. n |-> 0], count |-> [hit.count EXCEPT ![n] = 1]])
  IN  [r \in DOMAIN rows |->
        [f   |-> hit.foff + unit * Linear(hit.dsize, Shifted(hit.dstart, rows[r])),
         m   |-> hit.xbuf + unit * Linear(hit.msize, Shifted(hit.mstart, rows[r])),
         len |-> esize * hit.count[n]]]

\* sortoffsets, for fewer than 16 runs: a bubble sort, which is stable.
SortOffsets(runs) ==
  LET before(l, r) == \/ runs[l].f < runs[r].f
                      \/ (runs[l].f = runs[r].f /\ l < r)
      idx == InOrder(DOMAIN runs, before)
  IN  [i \in DOMAIN runs |-> runs[idx[i]]]

\* A later run that starts before an earlier one ends loses its first bytes,
\* which are copied, after the read, from the end of the earlier one.
Cut(runs, l, size) ==
  SubSeq(runs, 1, l - 1)
    \o <<[f |-> runs[l].f + size, m |-> runs[l].m + size, len |-> runs[l].len - size]>>
    \o SubSeq(runs, l + 1, Len(runs))
Covered(a, b) == IF b.len < a.f + a.len - b.f THEN b.len ELSE a.f + a.len - b.f
TrimPairForget(plan, k, l) ==
  LET a == plan.runs[k]
      b == plan.runs[l]
  IN  IF a.f + a.len <= b.f THEN plan
      ELSE [runs |-> Cut(plan.runs, l, Covered(a, b)), copies |-> plan.copies]
TrimPair(plan, k, l) ==
  LET a == plan.runs[k]
      b == plan.runs[l]
  IN  IF a.f + a.len <= b.f THEN plan
      ELSE [runs |-> Cut(plan.runs, l, Covered(a, b)),
            copies |-> Append(plan.copies, [dst |-> b.m, src |-> a.m - Covered(a, b) + a.len,
                                            size |-> Covered(a, b)])]
Trimmed(runs) ==
  LET pairs == InOrder({p \in (DOMAIN runs) \X (DOMAIN runs) : p[1] < p[2]}, LessThan)
  IN  FoldLeft(LAMBDA plan, p : TrimPair(plan, p[1], p[2]),
               [runs |-> runs, copies |-> <<>>], pairs)

GroupPlan(group, esize) ==
  IF Len(group) = 1 THEN [runs |-> RowsOf(group[1], esize, esize), copies |-> <<>>]
  ELSE Trimmed(SortOffsets(FlattenSeq([j \in DOMAIN group |-> RowsOf(group[j], esize, 1)])))

\* The datatypes cannot be built of a gap; a group of a vector is broken into
\* rows by a counter in front of its array and never ends.
PlanOutcome(groups) ==
  IF \E g \in DOMAIN groups : Len(groups[g]) > 1 /\
       (Len(groups[g][1].count) = 1 \/ \E h \in ToSet(groups[g]) : Gap(h)) THEN "crash"
  ELSE IF \E g \in DOMAIN groups : Gap(groups[g][1]) THEN "error"
  ELSE "ok"

PlanOf(hits, esize) ==
  LET groups == HitGroups(SortHits(hits))
      plans  == [g \in DOMAIN groups |-> GroupPlan(groups[g], esize)]
  IN  IF PlanOutcome(groups) # "ok"
      THEN [outcome |-> PlanOutcome(groups), runs |-> <<>>, copies |-> <<>>]
      ELSE [outcome |-> "ok",
            runs    |-> FlattenSeq([g \in DOMAIN plans |-> plans[g].runs]),
            copies  |-> FlattenSeq([g \in DOMAIN plans |-> plans[g].copies])]

\* MPI asks for the parts of a file datatype to ascend.
Ascending(runs) ==
  \A k \in DOMAIN runs, l \in DOMAIN runs :
    k < l /\ runs[k].len > 0 /\ runs[l].len > 0 => runs[k].f + runs[k].len <= runs[l].f

-----------------------------------------------------------------------------
(* The read itself *)

\* Memory maps an address to the values it may hold: of several runs into the
\* same memory any may be the last.  Nothing is there where nothing was read.
MemoryRead(runs, bytes, size) ==
  [a \in 0 .. size - 1 |->
    {bytes[runs[k].f + a - runs[k].m + 1] :
       k \in {r \in DOMAIN runs : runs[r].m <= a /\ a < runs[r].m + runs[r].len}}]

Copied(memory, c) ==
  [a \in DOMAIN memory |->
     IF c.dst <= a /\ a < c.dst + c.size THEN memory[c.src + a - c.dst] ELSE memory[a]]
MemoryAfter(plan, bytes, size) ==
  FoldLeft(Copied, MemoryRead(plan.runs, bytes, size), plan.copies)
=============================================================================
