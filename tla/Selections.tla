----------------------------- MODULE Selections -----------------------------
(***************************************************************************)
(* Selections of H5VL_log: how H5VL_log_selections translates a dataspace  *)
(* of the library into blocks with a start and a count per dimension, and  *)
(* what it computes from them.                                             *)
(*                                                                         *)
(* A dataspace is a record: type "hyperslabs" with the list of blocks      *)
(* [start, end] the library returns, "points" with a list of coordinates,  *)
(* "all", or "none"; "list" stands for the arrays of H5Dwrite_n and        *)
(* H5Dread_n.  The library's lists of hyperslab blocks ascend, and two     *)
(* blocks have the same range in every dimension up to the first in which  *)
(* their ranges are disjoint.                                              *)
(***************************************************************************)
EXTENDS Integers, Sequences, FiniteSets, SequencesExt

Volume(count) == FoldFunctionOnSet(LAMBDA a, b : a * b, 1, count, DOMAIN count)

\* The elements of a set in a strict order.
InOrder(S, Before(_, _)) ==
  [k \in 1 .. Cardinality(S) |->
     CHOOSE x \in S : Cardinality({y \in S : Before(y, x)}) = k - 1]

\* Coordinates are compared from the slowest dimension on.
LessThan(a, b) ==
  \E i \in DOMAIN a : a[i] < b[i] /\ \A j \in 1 .. i - 1 : a[j] = b[j]

\* The coordinates of a block.
BoxOf(start, count) ==
  {c \in [DOMAIN start -> 0 .. Max({start[i] + count[i] : i \in DOMAIN start} \cup {0})] :
     \A i \in DOMAIN start : start[i] <= c[i] /\ c[i] < start[i] + count[i]}

\* Blocks by start, each with its own count; of equals the first comes first.
SortBlocks(s) ==
  LET before(l, r) == \/ LessThan(s[l].start, s[r].start)
                      \/ s[l].start = s[r].start /\ l < r
      idx == InOrder(DOMAIN s, before)
  IN  [i \in DOMAIN s |-> s[idx[i]]]

-----------------------------------------------------------------------------
(* Hyperslabs: groups of blocks that may interleave *)

Whole(b) ==
  [start |-> b.start, count |-> [i \in DOMAIN b.start |-> b.end[i] - b.start[i] + 1]]

\* A group ends where the end of a block precedes the start of the next one.
EndsGroup(blocks, i) ==
  i = Len(blocks) \/ LessThan(blocks[i].end, blocks[i + 1].start)

FirstOfGroup(blocks, i) ==
  CHOOSE j \in 1 .. i :
    /\ \A k \in j .. i - 1 : ~EndsGroup(blocks, k)
    /\ j = 1 \/ EndsGroup(blocks, j - 1)
GroupsOf(blocks) ==
  LET lasts == InOrder({i \in DOMAIN blocks : EndsGroup(blocks, i)}, <)
  IN  [g \in DOMAIN lasts |->
         SubSeq(blocks, FirstOfGroup(blocks, lasts[g]), lasts[g])]

\* The first pass: how many blocks to make room for.
RowsCounted(b) ==
  Volume([i \in 1 .. Len(b.start) - 1 |-> b.end[i] - b.start[i] + 1])
RoomFor(blocks) ==
  LET room(group) == IF Len(group) = 1 THEN 1
                     ELSE SumFunction([j \in DOMAIN group |-> RowsCounted(group[j])])
      groups == GroupsOf(blocks)
  IN  SumFunction([g \in DOMAIN groups |-> room(groups[g])])

\* The second pass breaks the blocks of a group with several into rows.  A row
\* is where all dimensions but the last are; the next one has the fastest of
\* them that is not at its end moved on and the faster ones back at the start.
Unfinished(row, b) == {k \in DOMAIN row : row[k] < b.end[k]}
NextRowNoCarry(row, b) ==
  LET k == CHOOSE i \in Unfinished(row, b) : \A j \in Unfinished(row, b) : j <= i
  IN  [i \in DOMAIN row |-> IF i = k THEN row[i] + 1 ELSE row[i]]
NextRow(row, b) ==
  LET k == CHOOSE i \in Unfinished(row, b) : \A j \in Unfinished(row, b) : j <= i
  IN  [i \in DOMAIN row |-> IF i < k THEN row[i]
                            ELSE IF i = k THEN row[i] + 1 ELSE b.start[i]]
RowBox(b) ==
  LET last == Len(b.start)
  IN  BoxOf(SubSeq(b.start, 1, last - 1), SubSeq(Whole(b).count, 1, last - 1))
RowsFrom(row, b) ==
  LET from[r \in RowBox(b)] ==
        <<r>> \o (IF Unfinished(r, b) = {} THEN <<>> ELSE from[NextRow(r, b)])
  IN  from[row]

\* Each row becomes a block of one element; the width of the block, meant for
\* the count, goes into the start.
RowBlocks(b) ==
  LET last == Len(b.start)
      rows == RowsFrom(SubSeq(b.start, 1, last - 1), b)
  IN  [r \in DOMAIN rows |->
         [start |-> Append(rows[r], b.end[last] - b.start[last] + 1),
          count |-> [i \in 1 .. last |-> 1]]]

GroupBlocks(group) ==
  IF Len(group) = 1 THEN <<Whole(group[1])>>
  ELSE SortBlocks(FlattenSeq([j \in DOMAIN group |-> RowBlocks(group[j])]))

Filled(blocks) ==
  LET groups == GroupsOf(blocks)
  IN  FlattenSeq([g \in DOMAIN groups |-> GroupBlocks(groups[g])])

-----------------------------------------------------------------------------
(* The constructors *)

\* nsel: how many of the blocks count.  Translating several hyperslab blocks
\* never sets it; it then has the value of the memory it lies in.
Ones(cord) == [i \in DOMAIN cord |-> 1]
Sorted(ds) == LET s == SortBlocks([i \in DOMAIN ds.blocks |->
                         [start |-> ds.blocks[i].start, count |-> ds.blocks[i].end]])
              IN  [i \in DOMAIN s |-> [start |-> s[i].start, end |-> s[i].count]]
Multiple(ds) == ds.type = "hyperslabs" /\ Len(ds.blocks) > 1
ArraysOf(ds, dims) ==
  CASE ds.type = "hyperslabs" /\ ~Multiple(ds) -> <<Whole(ds.blocks[1])>>
    [] Multiple(ds)        -> Filled(Sorted(ds))
    [] ds.type = "points"  ->
         [i \in DOMAIN ds.points |-> [start |-> ds.points[i], count |-> Ones(ds.points[i])]]
    [] ds.type = "all"     -> <<[start |-> dims, count |-> Ones(dims)]>>
    [] ds.type = "none"    -> <<>>
    [] ds.type = "list"    -> ds.blocks
NselOf(ds, dims) ==
  IF Multiple(ds) THEN 0 .. Len(ArraysOf(ds, dims)) ELSE {Len(ArraysOf(ds, dims))}

Translate(ds, dims, nsel) == SubSeq(ArraysOf(ds, dims), 1, nsel)

-----------------------------------------------------------------------------
(* What is computed from the blocks *)

SelSize(sels) == SumFunction([i \in DOMAIN sels |-> Volume(sels[i].count)])

\* Where an element is in an array of the given dimensions.
Linear(dims, cord) ==
  SumFunction([i \in DOMAIN cord |->
    cord[i] * Volume([j \in i + 1 .. Len(dims) |-> dims[j]])])

\* The coordinates of a block in order, the last dimension fastest.
CellsOf(b) == InOrder(BoxOf(b.start, b.count), LessThan)

\* get_mpi_type: a subarray of hsize for every block; it needs each block to
\* lie inside.
TypeExists(sels, hsize) ==
  \A i \in DOMAIN sels : \A d \in DOMAIN hsize :
    sels[i].count[d] > 0 /\ sels[i].start[d] + sels[i].count[d] <= hsize[d]
MpiType(sels, hsize) ==
  FlattenSeq([i \in DOMAIN sels |->
    LET cells == CellsOf(sels[i]) IN [k \in DOMAIN cells |-> Linear(hsize, cells[k])]])

-----------------------------------------------------------------------------
(* The library's side *)

\* The elements a dataspace selects, in the order of the library.
Elements(ds, dims) ==
  CASE ds.type = "hyperslabs" ->
         InOrder(UNION {BoxOf(b.start, Whole(b).count) : b \in ToSet(ds.blocks)}, LessThan)
    [] ds.type = "points" -> ds.points
    [] ds.type = "all"    -> CellsOf([start |-> [i \in DOMAIN dims |-> 0], count |-> dims])
    [] ds.type = "none"   -> <<>>
    [] ds.type = "list"   -> FlattenSeq([i \in DOMAIN ds.blocks |-> CellsOf(ds.blocks[i])])

\* What the library guarantees of the blocks of a hyperslab selection.
Canonical(blocks) ==
  \A i \in DOMAIN blocks, j \in DOMAIN blocks : i < j =>
    \E d \in DOMAIN blocks[i].start :
      /\ blocks[i].end[d] < blocks[j].start[d]
      /\ \A k \in 1 .. d - 1 : /\ blocks[i].start[k] = blocks[j].start[k]
                               /\ blocks[i].end[k] = blocks[j].end[k]

\* What it guarantees of a dataspace: coordinates are natural numbers, one per
\* dimension, and the blocks of a hyperslab selection are not empty.
Coordinates == Seq(Nat)
IsDataspace(ds) ==
  /\ ds.type \in {"hyperslabs", "points", "all", "none", "list"}
  /\ ds.type = "hyperslabs" =>
       /\ ds.blocks \in Seq([start : Coordinates, end : Coordinates]) /\ ds.blocks # <<>>
       /\ \A b \in ToSet(ds.blocks) :
            Len(b.start) = Len(b.end) /\ \A i \in DOMAIN b.start : b.start[i] <= b.end[i]
       /\ Canonical(ds.blocks)
  /\ ds.type = "points" => ds.points \in Seq(Coordinates)
  /\ ds.type = "list" =>
       /\ ds.blocks \in Seq([start : Coordinates, count : Coordinates])
       /\ \A b \in ToSet(ds.blocks) : Len(b.start) = Len(b.count)
=============================================================================
