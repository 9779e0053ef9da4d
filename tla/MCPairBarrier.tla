--------------------------- MODULE MCPairBarrier ---------------------------
(* The pair barrier on small instances. *)
EXTENDS PairBarrier
=============================================================================
