------------------------------ MODULE MCLlamaDecode ------------------------------
(***************************************************************************)
(* Batches of a library client: none, one micro-batch, and two of one      *)
(* sequence or of two interleaved, whose first has a token of each.        *)
(***************************************************************************)
EXTENDS LlamaDecode, KvCacheInputs

MCOwners == {<<>>, <<1, 1>>, <<0, 0, 0>>, <<0, 1, 0>>}
MCOneToken == {<<0>>}
===============================================================================
