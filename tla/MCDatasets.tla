----------------------------- MODULE MCDatasets -----------------------------
(***************************************************************************)
(* Instances of Datasets for TLC.                                          *)
(***************************************************************************)
EXTENDS Datasets, TLC

Block(start, count) == [start |-> start, count |-> count]
Space(dims, mdims) == [dims |-> dims, mdims |-> mdims]

TwoSpaces ==
  {Space(<<2, 2, 2>>, <<2, Unlimited, 2>>), Space(<<4>>, <<Unlimited>>)}

Every == {{}, {"SEL_ENCODE"}, {"SEL_ENCODE", "SEL_DEFLATE"}}
Symmetric == Permutations(Handles)

\* The second exceeds the last maximum, after the dimension before it is set.
Wider == {<<2, 3, 2>>, <<2, 3, 3>>}

One(b) == <<b>>
Two(a, b) == <<a, b>>

\* Pairs in a 2 x 2 x 2 dataset and in its extension to 2 x 3 x 2, where the
\* second block of one has the offset that the second of the other has in
\* 2 x 2 x 2; and an end and a record of a vector.
Pairs ==
  {Two(Block(<<0, 1, 0>>, <<2, 1, 1>>), Block(<<1, 0, 0>>, <<1, 1, 1>>)),
   Two(Block(<<0, 1, 0>>, <<2, 1, 1>>), Block(<<0, 2, 0>>, <<1, 1, 1>>)),
   One(Block(<<2>>, <<2>>)), One(Block(<<1>>, <<1>>))}
=============================================================================
