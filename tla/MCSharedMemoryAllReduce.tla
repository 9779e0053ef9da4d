---------------------- MODULE MCSharedMemoryAllReduce ----------------------
(* The mapped-host all-reduce on small workloads. *)
EXTENDS SharedMemoryAllReduce

\* Workloads that stay on one path.
OnePath == {[c \in 1..MaxLen |-> p] : p \in {"stream", "host"}}

\* Workloads that begin on the host path and then stay on the stream path.
HostThenStream ==
  {[c \in 1..MaxLen |-> IF c <= n THEN "host" ELSE "stream"] : n \in 0..MaxLen}

\* All workloads, as a model that reduces tensors of several dtypes has them.
AnyPath == [1..MaxLen -> {"stream", "host"}]
=============================================================================
