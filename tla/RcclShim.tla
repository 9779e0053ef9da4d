------------------------------ MODULE RcclShim ------------------------------
(***************************************************************************)
(* The llama.cpp RCCL shim (rccl_shim.cpp) and its D3D12 transport         *)
(* (d3d12_transport.cu).  One host thread calls the NCCL entry points for  *)
(* two GPUs.  The all-reduces of a group are collected, and the outermost  *)
(* ncclGroupEnd dispatches them along one of three routes:                 *)
(*                                                                         *)
(*   D3D12     one call per rank, matching, supported and small enough:    *)
(*             the six operations of the D3D12 all-reduce are enqueued on  *)
(*             both ranks' streams, with the epoch of the transport;       *)
(*   native    one group of calls into rccl-real.dll;                      *)
(*   threaded  one call into rccl-real.dll from each of two threads, which *)
(*             meet before they call.                                      *)
(*                                                                         *)
(* What the GPUs then execute is the protocol of module D3D12AllReduce,    *)
(* whose actions are used as they are.  rccl-real.dll is external: each    *)
(* call into it succeeds or fails.                                         *)
(***************************************************************************)
EXTENDS Naturals, Sequences

CONSTANTS Configs,    \* the settings of the environment that are tried
          Counts,     \* the element counts llama.cpp asks for
          SizeMax,    \* the largest size_t
          MaxGroups,  \* bound: groups that are dispatched
          MaxCalls,   \* bound: calls collected in a group
          MaxDepth,   \* bound: nested ncclGroupStart
          MayFail     \* may the libraries fail?

Mode == {"hybrid", "d3d12", "rccl"}

ASSUME ShimAssumption ==
  /\ Configs \subseteq
       [mode : Mode, experimental : BOOLEAN, dispatch : {"threaded", "native"},
        loads : BOOLEAN, buffer : Nat \ {0}, min : Nat, max : Nat]
  /\ Counts \subseteq 0..SizeMax /\ SizeMax \in Nat
  /\ MaxGroups \in Nat /\ MaxCalls \in Nat /\ MaxDepth \in Nat
  /\ MayFail \in BOOLEAN

Rank == {0, 1}
Epoch == 1..MaxGroups

\* The element types: two that the transport supports, and i8 for all calls it
\* does not take, of another type or with another reduction than a sum.
ElementSize == [f16 |-> 2, f32 |-> 4, i8 |-> 0]
Call == [rank : Rank, count : Counts, type : DOMAIN ElementSize]

VARIABLES
  config,     \* the environment variables, and whether rccl-real.dll loads
  host,       \* what the host thread is doing
  at,         \* how far it is: the next rank, call or worker of its task
  comms,      \* per rank, the plugin_comm: "none" or "live"
  realComms,  \* the ranks whose real communicator exists
  transport,  \* the clique's D3D12 transport: "none", "open" or "closed"
  depth,      \* g_group.depth
  calls,      \* g_group.calls
  groups,     \* groups dispatched
  realDepth,  \* open groups in rccl-real.dll
  launched,   \* calls of the current group that were launched completely
  status,     \* the result of the task so far
  report,     \* the last ncclGroupEnd: its result and the calls it left out
  worker,     \* per rank, the dispatch thread
  ready, go,  \* what the dispatch threads share
  epoch,      \* transport.epoch
  origin,     \* per rank and epoch, whose tensor and stream were enqueued
  queued, done, failed, heap, fence, output  \* as in D3D12AllReduce

\* The GPUs: the streams of the two ranks, each in order.  ncclAllReduce takes a stream
\* with every call; assumed is the caller the shim is for, llama.cpp, which passes the
\* same stream for all calls of a rank.
D == INSTANCE D3D12AllReduce WITH
  Calls <- MaxGroups, Streams <- {"stream"},
  phase <- [r \in Rank |-> "ready"],
  vote <- [r \in Rank |-> [round \in {1, 2} |-> "ok"]],
  own <- {r \in Rank : transport = "open"},
  peer <- {r \in Rank : transport = "open"},
  mixed <- {},
  epoch <- [r \in Rank |-> epoch],
  stream <- [r \in Rank |-> [e \in Epoch |-> "stream"]]

library == <<config, comms, realComms, transport>>
group == <<depth, calls, groups, report>>
task == <<host, at, launched, status, realDepth>>
threads == <<worker, ready, go>>
stream == <<epoch, origin, queued, failed>>
gpu == <<done, heap, fence, output>>
vars == <<library, group, task, threads, stream, gpu>>

Init ==
  /\ config \in Configs
  /\ host = "idle" /\ at = 0 /\ launched = 0 /\ status = "success"
  /\ comms = [r \in Rank |-> "none"] /\ realComms = {} /\ transport = "none"
  /\ depth = 0 /\ calls = <<>> /\ groups = 0
  /\ report = [result |-> "success", left |-> 0]
  /\ realDepth = 0
  /\ worker = [r \in Rank |-> "none"] /\ ready = 0 /\ go = FALSE
  /\ epoch = 0
  /\ origin = [r \in Rank |-> [e \in Epoch |-> r]]
  /\ queued = [r \in Rank |-> [e \in Epoch |-> 0]]
  /\ done = [r \in Rank |-> [e \in Epoch |-> 0]]
  /\ failed = [r \in Rank |-> {}]
  /\ heap = [r \in Rank |-> 0] /\ fence = [r \in Rank |-> 0]
  /\ output = [r \in Rank |-> [e \in Epoch |-> 0]]
-----------------------------------------------------------------------------
\* A call into a library may go well, or fail if failures are modelled.
Outcome == IF MayFail THEN BOOLEAN ELSE {TRUE}

\* ncclCommInitAll, first part: the settings and, if they ask for it, the
\* communicators of the real library.
InitReal(ok) ==
  /\ host = "idle" /\ depth = 0 /\ transport = "none"
  /\ \A r \in Rank : comms[r] = "none"
  /\ realComms' = IF /\ config.mode # "d3d12" /\ config.experimental
                     /\ config.loads /\ ok
                    THEN Rank ELSE {}
  /\ host' = "init_d3d12"
  /\ UNCHANGED <<config, comms, transport, group, at, launched, status, realDepth,
                 threads, stream, gpu>>

\* wac_d3d12_create: two heaps created and opened, or nothing is kept.
CreateTransport(ok) == IF ok THEN "open" ELSE "none"

\* ~wac_d3d12_transport waits until both devices are idle.
Synchronized == done = queued

\* ncclCommInitAll, second part: the D3D12 transport; without a usable route
\* the call returns an error.
InitD3D12(ok) ==
  LET opened == config.mode # "rccl" /\ ok
  IN  /\ host = "init_d3d12"
      /\ transport' = CreateTransport(opened)
      /\ host' = IF \/ config.mode = "rccl" /\ realComms = {}
                    \/ config.mode = "d3d12" /\ ~opened
                    \/ realComms = {} /\ ~opened
                   THEN "idle" ELSE "init_wrap"
      /\ UNCHANGED <<config, comms, realComms, group, at, launched, status,
                     realDepth, threads, stream, gpu>>

\* Defect: an exception leaves the real communicators behind.
InitWrapLeaks(ok) ==
  /\ host = "init_wrap"
  /\ host' = "idle"
  /\ comms' = IF ok THEN [r \in Rank |-> "live"] ELSE comms
  /\ transport' = IF ok THEN transport ELSE "none"
  /\ UNCHANGED <<config, realComms, group, at, launched, status, realDepth,
                 threads, stream, gpu>>

\* ncclCommInitAll, last part: the wrappers; an exception destroys what exists.
InitWrap(ok) ==
  /\ host = "init_wrap"
  /\ host' = "idle"
  /\ comms' = IF ok THEN [r \in Rank |-> "live"] ELSE comms
  /\ realComms' = IF ok THEN realComms ELSE {}
  /\ transport' = IF ok THEN transport ELSE "none"
  /\ UNCHANGED <<config, group, at, launched, status, realDepth,
                 threads, stream, gpu>>

\* Defect: the transport goes with the first communicator, and at once.
DestroyAtOnce(r) ==
  /\ host = "idle" /\ depth = 0
  /\ comms[r] = "live"
  /\ comms' = [comms EXCEPT ![r] = "none"]
  /\ realComms' = realComms \ {r}
  /\ transport' = IF transport = "open" THEN "closed" ELSE transport
  /\ UNCHANGED <<config, group, task, threads, stream, gpu>>

\* ncclCommDestroy, outside a group.  The last communicator takes the clique
\* with it, and the transport's destructor synchronizes both devices before it
\* frees the buffers: it blocks while a GPU has work.
CommDestroy(r) ==
  LET last == comms[1 - r] = "none"
  IN  /\ host = "idle" /\ depth = 0
      /\ comms[r] = "live"
      /\ last /\ transport = "open" => Synchronized
      /\ comms' = [comms EXCEPT ![r] = "none"]
      /\ realComms' = realComms \ {r}
      /\ transport' = IF last /\ transport = "open" THEN "closed" ELSE transport
      /\ UNCHANGED <<config, group, task, threads, stream, gpu>>
-----------------------------------------------------------------------------
GroupStart ==
  /\ host = "idle"
  /\ depth < MaxDepth /\ groups < MaxGroups
  /\ \A r \in Rank : comms[r] = "live"
  /\ depth' = depth + 1
  /\ calls' = IF depth = 0 THEN <<>> ELSE calls
  /\ UNCHANGED <<library, groups, report, task, threads, stream, gpu>>

\* ncclAllReduce inside a group: the call is collected.
AllReduce(c) ==
  /\ host = "idle" /\ depth > 0
  /\ Len(calls) < MaxCalls
  /\ calls' = Append(calls, c)
  /\ UNCHANGED <<library, depth, groups, report, task, threads, stream, gpu>>

\* The two calls of a group in the order of their ranks.
Ordered == IF calls[1].rank > calls[2].rank
             THEN <<calls[2], calls[1]>> ELSE calls

\* One call of each rank.
IsPair == Len(calls) = 2 /\ calls[1].rank # calls[2].rank

Size(c) == c.count * ElementSize[c.type]

\* Defect: the size is computed in size_t without a check.
InRangeUnchecked(c) ==
  LET bytes == Size(c) % (SizeMax + 1)
      most == IF config.max > config.buffer THEN config.buffer ELSE config.max
  IN  /\ ElementSize[c.type] # 0
      /\ bytes <= config.buffer
      /\ config.mode = "d3d12" \/ (bytes >= config.min /\ bytes <= most)

\* A supported type, a size that does not overflow and fits the buffer, and in
\* hybrid mode the configured range, whose end is cut to the buffer.
InRange(c) ==
  LET bytes == Size(c)
      most == IF config.max > config.buffer THEN config.buffer ELSE config.max
  IN  /\ ElementSize[c.type] # 0
      /\ c.count <= SizeMax \div ElementSize[c.type]
      /\ bytes <= config.buffer
      /\ config.mode = "d3d12" \/ (bytes >= config.min /\ bytes <= most)

\* dispatch_group: which way the collected calls go.
Route ==
  IF calls = <<>> THEN "nothing"
  ELSE IF ~IsPair THEN "native"
  ELSE IF /\ transport = "open"
          /\ calls[1].count = calls[2].count /\ calls[1].type = calls[2].type
          /\ InRange(Ordered[1])
    THEN "d3d12"
  ELSE IF realComms = {} THEN "refused"
  ELSE config.dispatch

\* ncclGroupEnd: an inner one only counts, the outermost one dispatches.
InnerGroupEnd ==
  /\ host = "idle" /\ depth > 1
  /\ depth' = depth - 1
  /\ UNCHANGED <<library, calls, groups, report, task, threads, stream, gpu>>

GroupEnd ==
  /\ host = "idle" /\ depth = 1
  /\ host' = Route
  /\ groups' = groups + 1
  /\ at' = 0 /\ launched' = 0 /\ status' = "success"
  /\ depth' = 0
  /\ UNCHANGED <<library, calls, report, realDepth, threads, stream, gpu>>

\* The end of ncclGroupEnd: the group is emptied and the result reported.
Return(result) ==
  /\ report' = [result |-> result, left |-> Len(calls) - launched']
  /\ calls' = <<>>
  /\ host' = "idle"
  /\ UNCHANGED <<library, depth, groups>>

\* Nothing to do, or nobody to do it.
Answer ==
  /\ host \in {"nothing", "refused"}
  /\ launched' = 0
  /\ Return(IF host = "nothing" THEN "success" ELSE "error")
  /\ UNCHANGED <<at, status, realDepth, threads, stream, gpu>>
-----------------------------------------------------------------------------
\* The checks at the head of wac_d3d12_allreduce.
Accepts(p) ==
  /\ p[1].count = p[2].count
  /\ p[1].count <= config.buffer \div ElementSize[p[1].type]

\* wac_d3d12_allreduce: an empty payload is done with, another takes an epoch.
StartD3D12 ==
  /\ host = "d3d12"
  /\ IF Accepts(Ordered) /\ Ordered[1].count > 0
       THEN /\ epoch' = epoch + 1
            /\ host' = "enqueue"
            /\ UNCHANGED <<library, group, launched>>
       ELSE /\ launched' = IF Accepts(Ordered) THEN 2 ELSE 0
            /\ Return(IF Accepts(Ordered) THEN "success" ELSE "error")
            /\ UNCHANGED epoch
  /\ UNCHANGED <<at, status, realDepth, threads, origin, queued, failed, gpu>>

\* Defect: the calls are taken in the order they were made.
EnqueueInCallOrder(n) ==
  /\ host = "enqueue"
  /\ n = 6 \/ MayFail
  /\ queued' = [queued EXCEPT ![at][epoch] = n]
  /\ origin' = [origin EXCEPT ![at][epoch] = calls[at + 1].rank]
  /\ failed' = IF n = 6 THEN failed ELSE [failed EXCEPT ![at] = @ \cup {epoch}]
  /\ launched' = IF n = 6 THEN launched + 1 ELSE launched
  /\ IF n = 6 /\ at = 0
       THEN at' = 1 /\ UNCHANGED <<library, group, host>>
       ELSE Return(IF n = 6 THEN "success" ELSE "error") /\ UNCHANGED at
  /\ UNCHANGED <<status, realDepth, threads, epoch, gpu>>

\* enqueue_rank for rank 0 and then for rank 1: six operations, or the first n
\* of them when a HIP call throws, which ends the whole call.
EnqueueRank(n) ==
  /\ host = "enqueue"
  /\ n = 6 \/ MayFail
  /\ queued' = [queued EXCEPT ![at][epoch] = n]
  /\ origin' = [origin EXCEPT ![at][epoch] = Ordered[at + 1].rank]
  /\ failed' = IF n = 6 THEN failed ELSE [failed EXCEPT ![at] = @ \cup {epoch}]
  /\ launched' = IF n = 6 THEN launched + 1 ELSE launched
  /\ IF n = 6 /\ at = 0
       THEN at' = 1 /\ UNCHANGED <<library, group, host>>
       ELSE Return(IF n = 6 THEN "success" ELSE "error") /\ UNCHANGED at
  /\ UNCHANGED <<status, realDepth, threads, epoch, gpu>>

\* The GPU of rank r executes the next operation of epoch e.
Gpu(r, e) ==
  /\ UNCHANGED <<library, group, task, threads, stream>>
  /\ D!Gpu(r, e)
-----------------------------------------------------------------------------
\* dispatch_real_native: the group of the real library is opened, ...
NativeStart(ok) ==
  /\ host = "native"
  /\ IF config.loads /\ ok
       THEN /\ host' = "native_call"
            /\ realDepth' = realDepth + 1
            /\ UNCHANGED <<library, group, launched>>
       ELSE /\ launched' = 0
            /\ Return("error")
            /\ UNCHANGED realDepth
  /\ UNCHANGED <<at, status, threads, stream, gpu>>

\* Defect: an error returns at once, inside the group.
NativeCallReturns(ok) ==
  LET fine == realComms # {} /\ ok
  IN  /\ host = "native_call"
      /\ IF fine THEN /\ launched' = launched + 1 /\ at' = at + 1
                      /\ host' = IF at + 1 = Len(calls) THEN "native_end" ELSE host
                      /\ UNCHANGED <<library, group, status>>
                 ELSE /\ UNCHANGED <<launched, at, status>> /\ Return("error")
      /\ UNCHANGED <<realDepth, threads, stream, gpu>>

\* ... the calls are made until one fails, ...
NativeCall(ok) ==
  LET fine == realComms # {} /\ ok
  IN  /\ host = "native_call"
      /\ launched' = IF fine THEN launched + 1 ELSE launched
      /\ at' = at + 1
      /\ status' = IF fine THEN status ELSE "error"
      /\ host' = IF fine /\ at + 1 < Len(calls) THEN host ELSE "native_end"
      /\ UNCHANGED <<library, group, realDepth, threads, stream, gpu>>

\* Defect: only the result of the group's end is returned.
NativeEndOnly(ok) ==
  /\ host = "native_end"
  /\ realDepth' = realDepth - 1
  /\ launched' = launched
  /\ Return(IF ok THEN "success" ELSE "error")
  /\ UNCHANGED <<at, status, threads, stream, gpu>>

\* ... and the group is closed whatever happened.
NativeEnd(ok) ==
  /\ host = "native_end"
  /\ realDepth' = realDepth - 1
  /\ launched' = launched
  /\ Return(IF status = "success" /\ ok THEN "success" ELSE "error")
  /\ UNCHANGED <<at, status, threads, stream, gpu>>
-----------------------------------------------------------------------------
\* dispatch_real_threaded: the host starts one thread per rank ...
StartWorker ==
  /\ host = "threaded" /\ at < 2
  /\ worker' = [worker EXCEPT ![at] = "started"]
  /\ at' = at + 1
  /\ ready' = IF at = 0 THEN 0 ELSE ready
  /\ go' = IF at = 0 THEN FALSE ELSE go
  /\ UNCHANGED <<library, group, host, launched, status, realDepth, stream, gpu>>

\* Defect: the second thread wakes nobody.
ArriveSilently(r) ==
  /\ worker[r] = "started"
  /\ ready' = ready + 1
  /\ worker' = [worker EXCEPT ![r] = IF ready = 1 THEN "running" ELSE "waiting"]
  /\ UNCHANGED <<library, group, task, go, stream, gpu>>

\* ... which meet: the second to arrive lets both go.
Arrive(r) ==
  /\ worker[r] = "started"
  /\ ready' = ready + 1
  /\ go' = (go \/ ready = 1)
  /\ worker' = [worker EXCEPT ![r] = IF ready = 1 THEN "running" ELSE "waiting"]
  /\ UNCHANGED <<library, group, task, stream, gpu>>

Wake(r) ==
  /\ worker[r] = "waiting" /\ go
  /\ worker' = [worker EXCEPT ![r] = "running"]
  /\ UNCHANGED <<library, group, task, ready, go, stream, gpu>>

\* A thread selects its device and calls the real library, or fails to.
Work(r, ok) ==
  /\ worker[r] = "running"
  /\ worker' = [worker EXCEPT ![r] = IF ok THEN "done" ELSE "failed"]
  /\ UNCHANGED <<library, group, task, ready, go, stream, gpu>>

\* The host joins both threads and returns the first error.
Join ==
  /\ host = "threaded" /\ at = 2
  /\ \A r \in Rank : worker[r] \in {"done", "failed"}
  /\ launched' = IF worker[0] = "failed" /\ worker[1] = "failed" THEN 0
                 ELSE IF \E r \in Rank : worker[r] = "failed" THEN 1 ELSE 2
  /\ Return(IF \E r \in Rank : worker[r] = "failed" THEN "error" ELSE "success")
  /\ worker' = [r \in Rank |-> "none"]
  /\ UNCHANGED <<at, status, realDepth, ready, go, stream, gpu>>
-----------------------------------------------------------------------------
\* llama.cpp makes a call.
Caller ==
  \/ \E ok \in Outcome : InitReal(ok)
  \/ \E r \in Rank : CommDestroy(r)
  \/ GroupStart
  \/ \E c \in Call : AllReduce(c)
  \/ InnerGroupEnd
  \/ GroupEnd

\* The host thread goes on inside a call.
Inside ==
  \/ \E ok \in Outcome :
       \/ InitD3D12(ok) \/ InitWrap(ok)
       \/ NativeStart(ok) \/ NativeCall(ok) \/ NativeEnd(ok)
  \/ Answer
  \/ StartD3D12
  \/ \E n \in 0..6 : EnqueueRank(n)
  \/ StartWorker
  \/ Join

Worker(r) == Arrive(r) \/ Wake(r) \/ \E ok \in Outcome : Work(r, ok)

Next ==
  \/ Caller
  \/ Inside
  \/ \E r \in Rank : Worker(r) \/ \E e \in Epoch : Gpu(r, e)

Spec == Init /\ [][Next]_vars

\* A call that was made goes on, the dispatch threads are scheduled and the
\* GPUs execute what need not wait.  llama.cpp has to make no call.
Fairness ==
  /\ WF_vars(Inside)
  /\ \A r \in Rank : WF_vars(Worker(r)) /\ \A e \in Epoch : WF_vars(Gpu(r, e))

FairSpec == Spec /\ Fairness
-----------------------------------------------------------------------------
\* Both ranks get the sum of the two tensors of the SAME group, each from its
\* own tensor on its own stream, whatever the order of the calls in the group
\* - unless an enqueue up to this group failed.
GroupSum ==
  /\ D!SumOfSameCall
  /\ \A r \in Rank, e \in Epoch : origin[r][e] = r

\* ncclGroupEnd reports success only if every call of the group was launched.
SuccessIsComplete == report.result = "success" => report.left = 0

\* The shim leaves nothing behind: between calls the real communicators and
\* the open transport belong to wrappers that llama.cpp can destroy, and no
\* group of the real library is open.
NothingLeaks ==
  host = "idle" =>
    /\ \A r \in realComms : comms[r] = "live"
    /\ transport = "open" => \E r \in Rank : comms[r] = "live"
    /\ realDepth = 0

\* The buffers outlive the operations enqueued on them.
NoUseAfterClose == transport # "open" => done = queued

\* What the dispatcher routes to the transport, the transport accepts: the two
\* size checks, one in bytes and one in elements, never disagree.
RoutedIsAccepted == host = "d3d12" => Accepts(Ordered)

\* Every NCCL call returns, and every group that D3D12 carries completes on
\* both GPUs.
GroupsComplete ==
  /\ (host # "idle") ~> (host = "idle")
  /\ \A e \in Epoch :
       (epoch >= e) ~> (\A r \in Rank : output[r][e] = e /\ done[r][e] = 6)
=============================================================================
