------------------------- MODULE MCVllmCommunicator -------------------------
(* The communicator on groups of one to three ranks. *)
EXTENDS VllmCommunicator

C(op, bytes, dtype, root, even) ==
  [op |-> op, bytes |-> bytes, dtype |-> dtype, root |-> root, even |-> even]

\* D3D12 takes 2..3 bytes, the mapped-host path up to 4.
MCBlocks ==
  {<<C("all_reduce", n, t, 0, TRUE)>> : n \in {1, 2, 5}, t \in {"f16"}}
  \cup {<<C("all_reduce", 2, "i32", 0, TRUE)>>,
        <<C("all_gather", 2, "f16", 0, TRUE)>>,
        <<C("all_gather", 2, "bool", 0, TRUE)>>,
        <<C("reduce_scatter", 2, "f16", 0, TRUE)>>,
        <<C("reduce_scatter", 2, "f16", 0, FALSE)>>,
        <<C("gather", 2, "f16", 1, TRUE)>>,
        <<C("broadcast", 1, "f16", 1, TRUE)>>,
        <<C("hop_out", 2, "f16", 0, TRUE), C("hop_back", 2, "f16", 0, TRUE)>>}

MCSettings ==
  {[world |-> w, d3d12 |-> d, rccl |-> c] : w \in {2}, d \in BOOLEAN, c \in BOOLEAN}
  \cup {[world |-> w, d3d12 |-> FALSE, rccl |-> c] : w \in {1, 3}, c \in BOOLEAN}
=============================================================================
