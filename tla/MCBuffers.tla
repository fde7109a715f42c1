----------------------------- MODULE MCBuffers -----------------------------
(***************************************************************************)
(* An instance of Buffers for TLC: memory types narrower and wider than    *)
(* the type of the file, datasets without filters, with one and with one   *)
(* that the connector does not have.                                       *)
(***************************************************************************)
EXTENDS Buffers, TLC

CONSTANTS narrow, same, wide
Sizes == (narrow :> 1) @@ (same :> 2) @@ (wide :> 3)
SomePipelines == {<<>>, <<"deflate">>, <<"deflate", "other">>}
=============================================================================
