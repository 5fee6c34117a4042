---------------------------- MODULE MCGgmlThreadpool ----------------------------
(***************************************************************************)
(* Chunks of one element (two when the result is thin).  The first graph   *)
(* has a product with enough chunks to be claimed one at a time by three   *)
(* threads; the second has products that are shared out by thread, some    *)
(* with threads left without rows, and a row-wise operation between them.  *)
(***************************************************************************)
EXTENDS GgmlThreadpool

Product(nr0, nr1) == [nr0 |-> nr0, nr1 |-> nr1, op |-> "mul_mat"]
Norm(nr0, nr1) == [nr0 |-> nr0, nr1 |-> nr1, op |-> "rms_norm"]

MCGraphs == {<<Product(4, 3)>>, <<Product(1, 2), Norm(1, 4), Product(4, 1)>>}
===============================================================================
