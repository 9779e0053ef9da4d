-------------------------- MODULE MCD3D12AllReduce --------------------------
(* The D3D12 all-reduce on small instances. *)
EXTENDS D3D12AllReduce

CONSTANTS Later,     \* bound: calls a rank begins where one has raised
          OneStream  \* the stream on which calls raise

\* Nothing is claimed of a rank that mixes streams, so it is not explored;
\* where a call raised, the first Later calls on one stream are.
Explored ==
  /\ mixed = {}
  /\ Broken => \A r \in Rank : /\ epoch[r] <= Later
                              /\ \A e \in 1..epoch[r] : stream[r][e] = OneStream
=============================================================================
