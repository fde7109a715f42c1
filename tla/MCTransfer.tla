----------------------------- MODULE MCTransfer -----------------------------
(***************************************************************************)
(* Instances of Transfer for TLC: a dataset of 3 x 3 elements, one of      *)
(* 3 x 2 x 2 for the breaking up of blocks, and a vector.                  *)
(***************************************************************************)
EXTENDS Transfer

Slab(blocks) == [type |-> "hyperslabs", blocks |-> blocks]
Points(points) == [type |-> "points", points |-> points]
List(blocks) == [type |-> "list", blocks |-> blocks]
All == [type |-> "all"]
None == [type |-> "none"]
Block(start, end) == [start |-> start, end |-> end]
Counted(start, count) == [start |-> start, count |-> count]

Memory(shape, space) == [kind |-> "space", dims |-> shape, space |-> space]

Grid == <<3, 3>>
Cube == <<3, 2, 2>>
Vector == <<4>>

\* Blocks of the grid, of every shape and some corners.
Corners == {<<0, 0>>, <<1, 1>>}
Blocks(shape, starts) ==
  {b \in {Block(s, e) : s \in starts, e \in [DOMAIN shape -> 0 .. 2]} :
     \A i \in DOMAIN shape : b.start[i] <= b.end[i] /\ b.end[i] < shape[i]}

\* Hyperslabs of two and three blocks as the library lists them.
Several(shape, starts) ==
  {Slab(bs) : bs \in {p \in Blocks(shape, starts) \X Blocks(shape, starts) : Canonical(p)}}
Triples ==
  {Slab(<<Block(<<0, 0>>, <<1, 0>>), Block(<<0, 2>>, <<1, 2>>), Block(<<2, 1>>, <<2, 1>>)>>),
   Slab(<<Block(<<0, 0>>, <<0, 0>>), Block(<<1, 0>>, <<2, 0>>), Block(<<1, 2>>, <<2, 2>>)>>)}
CubeSlabs == Several(Cube, {<<0, 0, 0>>, <<0, 0, 1>>, <<0, 1, 0>>, <<2, 0, 1>>})

\* Selections of several blocks and points: beside each other, overlapping to
\* the end of a row, nested, and three of which the first spans the others.
Lists ==
  {List(<<Counted(<<0, 0>>, <<2, 2>>), Counted(<<0, 2>>, <<2, 1>>)>>),
   List(<<Counted(<<0, 0>>, <<3, 2>>), Counted(<<1, 1>>, <<1, 2>>)>>),
   List(<<Counted(<<0, 1>>, <<2, 2>>), Counted(<<0, 0>>, <<3, 2>>)>>),
   List(<<Counted(<<0, 0>>, <<1, 3>>), Counted(<<0, 1>>, <<1, 1>>)>>),
   List(<<Counted(<<0, 0>>, <<3, 1>>), Counted(<<1, 1>>, <<1, 1>>), Counted(<<2, 1>>, <<1, 1>>)>>),
   List(<<Counted(<<0>>, <<2>>), Counted(<<2>>, <<2>>)>>)}
Scattered == {Points(<< <<1, 1>>, <<0, 0>>, <<0, 1>> >>), Points(<< <<0, 0>>, <<0, 0>> >>)}

Few == {Slab(<<b>>) : b \in {Block(<<0, 0>>, <<2, 1>>), Block(<<0, 0>>, <<2, 2>>),
                             Block(<<1>>, <<3>>)}}
Writes == Few \cup {None, List(<<Counted(<<1, 1>>, <<1, 2>>)>>)}
Reads ==
  {Slab(<<b>>) : b \in Blocks(Grid, Corners) \cup Blocks(Vector, {<<0>>, <<2>>})}
    \cup Several(Grid, Corners) \cup Triples \cup CubeSlabs
    \cup Lists \cup Scattered \cup {None}

\* Memory of the shape of the dataset, of another, and a vector; one block, two
\* (which the code does not pack in order) and points.
Memories ==
  {[kind |-> "contig"], [kind |-> "file"],
   Memory(<<3, 3>>, Slab(<<Block(<<0, 1>>, <<1, 2>>)>>)),
   Memory(<<4, 4>>, Slab(<<Block(<<1, 0>>, <<2, 0>>)>>)),
   Memory(<<9>>, Slab(<<Block(<<1>>, <<2>>)>>)),
   Memory(<<9>>, Slab(<<Block(<<2>>, <<4>>)>>)),
   Memory(<<3, 3>>, Slab(<<Block(<<0, 0>>, <<2, 0>>), Block(<<0, 2>>, <<2, 2>>)>>)),
   Memory(<<4>>, Points(<< <<1>>, <<3>>, <<2>> >>))}
InMemoryOrder == {[kind |-> "contig"]}

\* What example/hdf5/h5_rdwt.cpp writes and reads back.
WholeDataset == {All}
AllExtents == {Grid, Cube, Vector}
JustGrid == {Grid}
=============================================================================
