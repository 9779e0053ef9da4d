---------------------------- MODULE ProbePrograms ----------------------------
(***************************************************************************)
(* The two-process probes and benchmarks (probes/*.py) as data: a parent   *)
(* and two children each, one definition per function of the source.  What *)
(* the steps do is said in TwoRankProbe.  Loops run twice.                 *)
(***************************************************************************)
EXTENDS Naturals, Sequences

Rank == {0, 1}

(***************************************************************************)
(* Programs.  A step says what it does, with which argument, and which     *)
(* resource must be held for it to be done at all.                         *)
(***************************************************************************)
If(resource, do, arg) == << [needs |-> resource, do |-> do, arg |-> arg] >>
Do(do, arg) == If("nothing", do, arg)
Call == Do("call", "none")             \* local work that may raise
Hold(x) == Do("hold", x)               \* create x, which may raise
Open(x) == Do("open", x)               \* open by name what the peer holds
Free(x) == If(x, "free", x)            \* a guarded close: a failure is only reported
Close(x) == If(x, "close", x)          \* a close whose failure fails the record
Meet(c) == Do("post", c) \o Do("meet", c)
Op(op, on, val) == [op |-> op, on |-> on, val |-> val]
Enq(ops) == Do("enqueue", ops)
Sync == Do("sync", "none")

\* One more all_reduce on a stream: the n-th of this rank meets the n-th of the peer.
Collective(c, n, r) ==
  Enq(<<Op("signal", <<c, r>>, n), Op("wait", <<c, 1 - r>>, n), Op("result", <<c, r>>, n)>>)

\* dist.init_process_group, and the destroy_process_group of the finally blocks,
\* which no try guards.
InitGroup == Meet("gloo") \o Hold("dist")
LeaveGroup == If("dist", "risky", "none")

\* The constructors, seen from outside: local work and the meetings with the peer, in
\* order.  That both ranks learn of a heap that could not be made is the subject of
\* D3D12AllReduce; here the last step fails on one rank or on both.
NewD3D12 == Meet("gloo") \o Call \o Meet("gloo") \o Meet("gloo") \o Hold("d3d12")
NewRccl == Call \o Meet("gloo") \o Meet("init") \o Hold("rccl")
NewShm == Call \o Meet("gloo") \o Call \o Meet("gloo") \o Meet("win32") \o Hold("shm")

\* destroy() of a communicator x that may not exist.
DestroyD3D12 == If("d3d12", "sync", "none") \o If("d3d12", "post", "gloo")
                \o If("d3d12", "meet", "gloo") \o Close("d3d12")
DestroyRccl == If("rccl", "sync", "none") \o Close("rccl")
DestroyShm == If("shm", "sync", "none") \o If("shm", "post", "win32")
              \o If("shm", "meet", "win32") \o Close("shm")

\* The exporter frees its allocation without waiting for the importer.
ForgetfulExport ==
  Call \o Hold("memory") \o Do("write", 0) \o Call
  \o Do("key", {"export_succeeded"}) \o Do("send", "handle")

\* hip_ipc_probe.py: rank 0 exports an allocation, rank 1 maps and reads it.
Export ==
  Call \o Hold("memory") \o Do("write", 0) \o Call
  \o Do("key", {"export_succeeded"}) \o Do("send", "handle") \o Do("recv", "none")

IpcExporter ==
  [body |-> Export,
   except |-> Do("unset", {"export_succeeded"}) \o Do("send", "empty"),
   finally |-> Free("memory") \o Do("hangup", "none")]

IpcImporter ==
  [body |-> Do("recv", "none") \o Call \o Hold("import") \o Do("key", {"import_succeeded"})
            \o Do("read", 0) \o Do("check", {"data_correct"}),
   except |-> Do("unset", {"import_succeeded", "data_correct"}),
   finally |-> Free("import") \o Do("send", "record") \o Do("hangup", "none")]

Heap(h, op, val) == Enq(<<Op(op, <<"heap", h>>, val)>>)

\* Rank 0 reads the heap back without waiting for rank 1.
HandOverOnly(r) ==
  IF r = 0 THEN Heap(0, "write", 0) \o Heap(0, "signal", 1) \o Heap(0, "read", 0)
  ELSE Heap(0, "wait", 1) \o Heap(0, "read", 0) \o Heap(0, "write", 0) \o Heap(0, "signal", 2)

HandOver(r) ==
  IF r = 0 THEN Heap(0, "write", 0) \o Heap(0, "signal", 1) \o Heap(0, "wait", 2) \o Heap(0, "read", 0)
  ELSE Heap(0, "wait", 1) \o Heap(0, "read", 0) \o Heap(0, "write", 0) \o Heap(0, "signal", 2)

\* d3d12_cross_process_probe.py: one heap and one fence, written by each rank in turn.
CrossRank(r) ==
  [body |-> Call
     \o (IF r = 0
         THEN Hold("heap0") \o Do("set", {<<"ready", 0>>}) \o Do("await", <<"ready", 1>>)
         ELSE Do("await", <<"ready", 0>>) \o Open("heap0") \o Do("set", {<<"ready", 1>>}))
     \o HandOver(r) \o Sync \o Do("check", {"received_correct"}) \o Do("key", {"opened"}),
   except |-> Do("unset", {"opened", "received_correct"})
              \o Do("set", {<<"ready", 0>>, <<"ready", 1>>}),
   finally |-> Free("heap0")]

\* benchmark_d3d12_cross_adapter.py: a heap and a fence per rank.
Exchange(r, iteration) ==
  LET ready == iteration * 2 + 1
      consumed == ready + 1
  IN  Heap(r, "write", 0) \o Heap(r, "signal", ready)
      \o Heap(1 - r, "wait", ready) \o Heap(1 - r, "read", 0)
      \o Heap(1 - r, "signal", consumed) \o Heap(r, "wait", consumed)

HeapOf(r) == IF r = 0 THEN "heap0" ELSE "heap1"

\* Each rank waits for its peer's heap before it creates its own.
OpenFirst(r) ==
  Do("await", <<"ready", 1 - r>>) \o Open(HeapOf(1 - r))
  \o Hold(HeapOf(r)) \o Do("set", {<<"ready", r>>})

CreateAndOpen(r) ==
  Hold(HeapOf(r)) \o Do("set", {<<"ready", r>>})
  \o Do("await", <<"ready", 1 - r>>) \o Open(HeapOf(1 - r))

\* The error path does not abort the barrier.
WakeEvents == Do("unset", {"opened", "correct"}) \o Do("set", {<<"ready", 0>>, <<"ready", 1>>})

WakePeer == Do("unset", {"opened", "correct"}) \o Do("set", {<<"ready", 0>>, <<"ready", 1>>})
            \o Do("abort", "none")

\* The heaps are closed without a synchronize.
CloseBusy(r) == Free(HeapOf(1 - r)) \o Free(HeapOf(r))

SyncAndClose(r) == Sync \o Free(HeapOf(1 - r)) \o Free(HeapOf(r))

BenchD3D12Rank(r) ==
  [body |-> Call \o CreateAndOpen(r)
            \o Exchange(r, 0) \o Sync \o Meet("mp") \o Exchange(r, 1) \o Sync
            \o Do("check", {"correct"}) \o Do("key", {"opened"}),
   except |-> WakePeer,
   finally |-> SyncAndClose(r)]

\* The except block keeps what the try block has noted.
KeepVerdict == Do("unset", {})

FailVerdict == Do("unset", {"correct"})

\* hip_shared_memory_probe.py: two slots of one registered mapping.
MappedRank(r) ==
  [body |-> Call \o Hold("mapping") \o Hold("registered") \o Call \o Do("write", r)
            \o Meet("mp") \o Do("read", 1 - r) \o Call
            \o Do("check", {"correct", "mapped_peer_copy_correct"})
            \o Do("key", {"registered"}) \o Meet("mp"),
   except |-> FailVerdict,
   finally |-> Free("registered") \o If("mapping", "risky", "none")]

\* benchmark_hip_shared_memory.py and benchmark_mapped_peer_kernel.py: the same
\* mapping with Win32PairBarrier; the second reads the peer's slot in a kernel.
SlotAllReduce(r) ==
  Do("write", r) \o Meet("win32") \o Do("read", 1 - r) \o Call \o Meet("win32")

BenchShmRank(r) ==
  [body |-> Call \o Hold("mapping") \o Hold("registered") \o Hold("barrier")
            \o SlotAllReduce(r) \o Call \o Meet("win32")
            \o SlotAllReduce(r) \o Call \o Meet("win32") \o Do("check", {"passed"}),
   except |-> Do("unset", {"passed"}),
   finally |-> If("barrier", "risky", "none") \o Free("registered")
               \o If("mapping", "risky", "none")]

KernelAllReduce(r) == Do("write", r) \o Meet("win32") \o Do("read", 1 - r) \o Meet("win32")

BenchKernelRank(r) ==
  [body |-> Call \o Hold("mapping") \o Hold("registered") \o Call \o Hold("barrier")
            \o KernelAllReduce(r) \o Meet("win32")
            \o KernelAllReduce(r) \o Meet("win32") \o Do("check", {"passed"}),
   except |-> Do("unset", {"passed"}),
   finally |-> If("barrier", "risky", "none") \o Free("registered")
               \o If("mapping", "risky", "none")]

\* two_rank_gloo.py: every collective of HostStagedGloo, then of SharedMemoryAllReduce.
GlooRank(r) ==
  [body |-> Call \o InitGroup \o Meet("gloo") \o Call \o Meet("gloo") \o NewShm
            \o Collective("shm", 1, r) \o Sync \o Meet("gloo") \o Meet("gloo")
            \o Meet("gloo") \o Meet("gloo") \o Meet("gloo") \o Meet("gloo")
            \o DestroyShm \o Do("check", {"passed"}),
   except |-> Do("unset", {"passed"}),
   finally |-> LeaveGroup]

\* benchmark_host_staged.py: all_reduce of HostStagedGloo copies in, meets and copies out.
HostAllReduce(r) == Call \o Meet("gloo") \o Enq(<<Op("result", <<"gloo", r>>, 0)>>) \o Sync

HostStagedRank(r) ==
  [body |-> Call \o InitGroup \o Call \o HostAllReduce(r) \o Meet("gloo")
            \o HostAllReduce(r) \o Meet("gloo") \o Do("check", {"correct"})
            \o Do("key", {"passed"}),
   except |-> Do("unset", {"passed"}),
   finally |-> LeaveGroup]

\* d3d12_all_reduce_probe.py: warm-up calls, a barrier, timed calls.
D3D12Rank(r) ==
  [body |-> Call \o InitGroup \o NewD3D12
            \o Collective("d3d12", 1, r) \o Sync \o Meet("gloo")
            \o Collective("d3d12", 2, r) \o Sync \o Do("check", {"passed"}),
   except |-> Do("unset", {"passed"}),
   finally |-> DestroyD3D12 \o LeaveGroup]

\* benchmark_stream_all_reduce.py: the same over SharedMemoryAllReduce, on a machine
\* whose devices have stream memory operations.
StreamRank(r) ==
  [body |-> Call \o InitGroup \o NewShm
            \o Collective("shm", 1, r) \o Sync \o Meet("gloo")
            \o Collective("shm", 2, r) \o Sync \o Do("check", {"passed"}),
   except |-> Do("unset", {"passed"}),
   finally |-> DestroyShm \o LeaveGroup]

\* hybrid_all_reduce_probe.py: a small payload over D3D12, a large one over RCCL.
HybridRank(r) ==
  [body |-> Call \o InitGroup \o NewD3D12 \o NewRccl
            \o Collective("d3d12", 1, r) \o Sync \o Collective("rccl", 1, r) \o Sync
            \o Do("check", {"passed"}),
   except |-> Do("unset", {"passed"}),
   finally |-> DestroyD3D12 \o DestroyRccl \o LeaveGroup]

\* rccl_torch_tensor_probe.py: the collectives of RcclCommunicator on a stream.
TorchRank(r) ==
  [body |-> Call \o InitGroup \o NewRccl
            \o Collective("rccl", 1, r) \o Collective("rccl", 2, r) \o Sync
            \o Collective("rccl", 3, r) \o Collective("rccl", 4, r) \o Sync
            \o Do("check", {"passed"}),
   except |-> Do("unset", {"passed"}),
   finally |-> DestroyRccl \o LeaveGroup]

\* rccl_two_rank_all_reduce.py: RCCL called directly, with its own buffers.
RcclRank(r) ==
  [body |-> Call \o Meet("init") \o Hold("comm") \o Do("key", {"initialized"})
            \o Hold("send_buffer") \o Hold("receive_buffer") \o Call
            \o Collective("rccl", 1, r) \o Sync \o Collective("rccl", 2, r) \o Sync
            \o Call \o Do("check", {"correct"}) \o Do("key", {"collective_returned"}),
   except |-> Do("unset", {"collective_returned", "correct"}),
   finally |-> Free("receive_buffer") \o Free("send_buffer") \o Free("comm")]

(***************************************************************************)
(* Parents: the steps of main, the keys its verdict asks of each record,   *)
(* and whether the command line chooses how long a record is.              *)
(***************************************************************************)
Main(steps, first, second, sizes) ==
  [steps |-> steps, needs |-> [r \in Rank |-> IF r = 0 THEN first ELSE second],
   sizes |-> sizes]
Plain == <<"start", "join", "terminate", "get">>
Passed == {"passed"}

IpcMain == Main(<<"start", "close", "join", "terminate", "get">>,
                {"export_succeeded"}, {"import_succeeded", "data_correct"}, FALSE)
CrossMain == LET needs == {"opened", "received_correct"} IN Main(Plain, needs, needs, FALSE)
BenchD3D12Main == LET needs == {"opened", "correct"} IN Main(Plain, needs, needs, FALSE)
MappedMain == LET needs == {"registered", "correct", "mapped_peer_copy_correct"}
              IN  Main(<<"create">> \o Plain, needs, needs, FALSE)
BenchShmMain == Main(<<"create">> \o Plain, Passed, Passed, TRUE)
BenchKernelMain == Main(<<"create">> \o Plain, Passed, Passed, TRUE)
GlooMain == Main(Plain, Passed, Passed, FALSE)
HostStagedMain == LET needs == {"passed", "correct"} IN Main(Plain, needs, needs, TRUE)
D3D12Main == Main(Plain, Passed, Passed, FALSE)
StreamMain == Main(Plain, Passed, Passed, TRUE)
HybridMain == Main(Plain, Passed, Passed, FALSE)
TorchMain == Main(Plain, Passed, Passed, FALSE)
RcclMain == LET needs == {"initialized", "collective_returned", "correct"}
            IN  Main(<<"load">> \o Plain, needs, needs, FALSE)

Child ==
  [ipc |-> [r \in Rank |-> IF r = 0 THEN IpcExporter ELSE IpcImporter],
   cross |-> [r \in Rank |-> CrossRank(r)],
   bench_d3d12 |-> [r \in Rank |-> BenchD3D12Rank(r)],
   mapped |-> [r \in Rank |-> MappedRank(r)],
   bench_shm |-> [r \in Rank |-> BenchShmRank(r)],
   bench_kernel |-> [r \in Rank |-> BenchKernelRank(r)],
   gloo |-> [r \in Rank |-> GlooRank(r)],
   host_staged |-> [r \in Rank |-> HostStagedRank(r)],
   d3d12 |-> [r \in Rank |-> D3D12Rank(r)],
   stream |-> [r \in Rank |-> StreamRank(r)],
   hybrid |-> [r \in Rank |-> HybridRank(r)],
   torch |-> [r \in Rank |-> TorchRank(r)],
   rccl |-> [r \in Rank |-> RcclRank(r)]]

Parent ==
  [ipc |-> IpcMain, cross |-> CrossMain, bench_d3d12 |-> BenchD3D12Main,
   mapped |-> MappedMain, bench_shm |-> BenchShmMain, bench_kernel |-> BenchKernelMain,
   gloo |-> GlooMain, host_staged |-> HostStagedMain, d3d12 |-> D3D12Main, stream |-> StreamMain,
   hybrid |-> HybridMain, torch |-> TorchMain, rccl |-> RcclMain]
=============================================================================
