----------------------------- MODULE MCRcclShim -----------------------------
(* The llama.cpp RCCL shim on small instances. *)
EXTENDS RcclShim

\* Every setting of the switches, with a buffer of 8 bytes and a hybrid range
\* that starts above 0 and ends beyond the buffer.
AllConfigs ==
  [mode : Mode, experimental : BOOLEAN, dispatch : {"threaded", "native"},
   loads : BOOLEAN, buffer : {8}, min : {4}, max : {12}]

\* The default: hybrid with D3D12 only; and hybrid with the real library.
UsualConfigs ==
  [mode : {"hybrid"}, experimental : BOOLEAN, dispatch : {"threaded"},
   loads : {TRUE}, buffer : {8}, min : {0}, max : {8}]

\* The default alone.
DefaultConfig == {c \in UsualConfigs : ~c.experimental}

\* Every setting, and the default with its own range of sizes.
FaultConfigs == AllConfigs \cup DefaultConfig

\* After the first group only the default setting and pairs of calls that fit
\* the buffer are followed, which keeps several groups within reach.
FirstGroupAny ==
  \/ groups = 0
  \/ groups = 1 /\ depth = 0
  \/ /\ config \in DefaultConfig
     /\ depth <= 1 /\ Len(calls) <= 2
     /\ \A i \in DOMAIN calls : calls[i].count = 2
=============================================================================
