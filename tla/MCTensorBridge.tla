--------------------------- MODULE MCTensorBridge ---------------------------
(* The tensor bridge on small instances. *)
EXTENDS TensorBridge
=============================================================================
