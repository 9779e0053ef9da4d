--------------------------- MODULE RcclShimProofs ---------------------------
(***************************************************************************)
(* The safety of the llama.cpp RCCL shim for every configuration, every    *)
(* size of buffer and group and any number of groups, with failures.       *)
(*                                                                         *)
(* Ownership says what each part of the host thread's way through a call   *)
(* means for the communicators and the transport, Progress how many calls  *)
(* of the group it has launched.  The GPUs follow the protocol of          *)
(* D3D12AllReduce: its inductive invariant, proved in D3D12AllReduceProofs *)
(* for the steps of the GPUs, is kept by the shim's way of enqueuing too.  *)
(***************************************************************************)
EXTENDS RcclShim, SequenceTheorems, TLAPS

\* The all-reduce of module D3D12AllReduce as the shim carries it out.  A rank
\* is inside its call until its six operations are enqueued, rank 1 also while
\* rank 0 is; the error of one enqueue spoils the epoch for both ranks.
P == INSTANCE D3D12AllReduceProofs WITH
  Calls <- MaxGroups, Streams <- {"stream"},
  phase <- [r \in Rank |->
              IF host = "enqueue" /\ r >= at THEN "calling" ELSE "ready"],
  vote <- [r \in Rank |-> [round \in {1, 2} |-> "ok"]],
  own <- {}, peer <- {}, mixed <- {},
  epoch <- [r \in Rank |-> epoch],
  stream <- [r \in Rank |-> [e \in Epoch |-> "stream"]],
  failed <- [r \in Rank |-> failed[0] \cup failed[1]]

Building == {"init_d3d12", "init_wrap"}
Native == {"native_call", "native_end"}

\* The values of the variables that the arguments below need.
Types ==
  /\ config \in Configs
  /\ host \in Building \cup Native \cup
       {"idle", "nothing", "refused", "d3d12", "enqueue", "native", "threaded"}
  /\ comms \in [Rank -> {"none", "live"}]
  /\ realComms \subseteq Rank
  /\ transport \in {"none", "open", "closed"}
  /\ depth \in Nat /\ groups \in 0..MaxGroups /\ epoch \in 0..MaxGroups
  /\ at \in Nat /\ launched \in Nat
  /\ calls \in Seq(Call)

\* Who owns the communicators and the transport: nobody while ncclCommInitAll
\* builds them, wrappers that llama.cpp can destroy afterwards.  The group of
\* the real library is open exactly during the native calls.
Ownership ==
  /\ host \in Building => \A r \in Rank : comms[r] = "none"
  /\ host = "init_d3d12" => transport = "none"
  /\ config.mode = "d3d12" => realComms = {}
  /\ host \notin Building =>
       /\ \A r \in realComms : comms[r] = "live"
       /\ transport = "open" => \E r \in Rank : comms[r] = "live"
  /\ realDepth = IF host \in Native THEN 1 ELSE 0

\* The collected calls, and how many of them the host thread has launched.
Progress ==
  /\ host = "nothing" => calls = <<>>
  /\ host \in {"d3d12", "enqueue", "threaded"} => IsPair
  /\ host = "enqueue" => at \in {0, 1} /\ launched = at /\ epoch >= 1
  /\ host \in {"d3d12", "native"} =>
       at = 0 /\ launched = 0 /\ status = "success"
  /\ host = "native" => calls # <<>>
  /\ host = "native_call" =>
       status = "success" /\ launched = at /\ at < Len(calls)
  /\ host = "native_end" /\ status = "success" => launched = Len(calls)

\* The transport is open while a group is on its way to the streams, and there
\* is an epoch left for every group.
Dispatching ==
  /\ host \in {"d3d12", "enqueue"} => transport = "open"
  /\ depth > 0 => groups < MaxGroups
  /\ epoch <= groups
  /\ host = "d3d12" => epoch < groups

\* Nothing is on the streams while there is no open transport, nor while one
\* is being built.
Idle == host \in Building \/ transport # "open" => done = queued

HInv ==
  /\ Types /\ Ownership /\ Progress /\ Dispatching
  /\ SuccessIsComplete /\ RoutedIsAccepted

\* Nothing of the epoch of a group is enqueued for the ranks whose turn has
\* not come.
Fresh ==
  host = "enqueue" => \A r \in Rank : r >= at => queued[r][epoch] = 0

\* Every rank's operations were enqueued with its own tensor and stream.
OwnTensors ==
  /\ origin \in [Rank -> [Epoch -> Rank]]
  /\ \A r \in Rank, e \in Epoch : origin[r][e] = r

GInv ==
  /\ HInv /\ Idle /\ Fresh /\ OwnTensors
  /\ failed \in [Rank -> SUBSET Epoch]
  /\ P!IInv
-----------------------------------------------------------------------------
\* A pair of calls, put in the order of the ranks: the first is of rank 0.
LEMMA OrderedRanks ==
  ASSUME calls \in Seq(Call), IsPair
  PROVE  /\ Len(calls) = 2 /\ calls[1] \in Call /\ calls[2] \in Call
         /\ \/ Ordered[1] = calls[1] /\ Ordered[2] = calls[2]
            \/ Ordered[1] = calls[2] /\ Ordered[2] = calls[1]
         /\ Ordered[1].rank = 0 /\ Ordered[2].rank = 1
<1>1. Len(calls) = 2 /\ calls[1].rank # calls[2].rank
  BY DEF IsPair
<1>2. calls[1] \in Call /\ calls[2] \in Call
  <2>1. 1 \in 1..Len(calls) /\ 2 \in 1..Len(calls)
    BY <1>1
  <2>2. QED
    BY <2>1, ElementOfSeq
<1>3. calls[1].rank \in {0, 1} /\ calls[2].rank \in {0, 1}
  BY <1>2 DEF Call, Rank
<1>4. CASE calls[1].rank > calls[2].rank
  <2>1. Ordered = <<calls[2], calls[1]>>
    BY <1>4 DEF Ordered
  <2>2. calls[1].rank = 1 /\ calls[2].rank = 0
    BY <1>1, <1>3, <1>4
  <2>3. QED
    BY <1>1, <1>2, <2>1, <2>2
<1>5. CASE ~(calls[1].rank > calls[2].rank)
  <2>1. Ordered = calls
    BY <1>5 DEF Ordered
  <2>2. calls[1].rank = 0 /\ calls[2].rank = 1
    BY <1>1, <1>3, <1>5
  <2>3. QED
    BY <1>1, <1>2, <2>1, <2>2
<1>6. QED
  BY <1>4, <1>5

\* The check of the dispatcher in bytes implies the check of the transport in
\* elements, for every size of buffer and of size_t.
LEMMA BytesAndElements ==
  ASSUME config \in Configs, NEW c \in Call, InRange(c)
  PROVE  c.count <= config.buffer \div ElementSize[c.type]
<1>1. config.buffer \in Nat /\ c.count \in Nat /\ c.type \in {"f16", "f32", "i8"}
  <2>1. config.buffer \in Nat
    BY ShimAssumption
  <2>2. c.count \in Nat
    <3>1. c.count \in Counts
      BY DEF Call
    <3>2. QED
      <4>1. \A n \in Counts : n \in Nat
        BY ShimAssumption
      <4>2. QED
        BY <3>1, <4>1, Zenon
  <2>3. c.type \in {"f16", "f32", "i8"}
    BY DEF Call, ElementSize
  <2>4. QED
    BY <2>1, <2>2, <2>3
<1>2. ElementSize[c.type] # 0 /\ c.count * ElementSize[c.type] <= config.buffer
  BY DEF InRange, Size
<1>3. CASE c.type = "f16"
  <2>1. ElementSize[c.type] = 2
    BY <1>3 DEF ElementSize
  <2>2. c.count * 2 <= config.buffer => c.count <= config.buffer \div 2
    BY <1>1
  <2>3. QED
    BY <1>2, <2>1, <2>2
<1>4. CASE c.type = "f32"
  <2>1. ElementSize[c.type] = 4
    BY <1>4 DEF ElementSize
  <2>2. c.count * 4 <= config.buffer => c.count <= config.buffer \div 4
    BY <1>1
  <2>3. QED
    BY <1>2, <2>1, <2>2
<1>5. CASE c.type = "i8"
  BY <1>2, <1>5 DEF ElementSize
<1>6. QED
  BY <1>1, <1>3, <1>4, <1>5

\* What the route that dispatch_group takes says about the collected calls.
LEMMA RouteFacts ==
  ASSUME Types
  PROVE  /\ Route \in {"nothing", "native", "d3d12", "refused", "threaded"}
         /\ Route = "nothing" => calls = <<>>
         /\ Route = "native" => calls # <<>>
         /\ Route \in {"d3d12", "threaded"} => IsPair
         /\ Route = "d3d12" => transport = "open" /\ Accepts(Ordered)
<1>1. config \in Configs /\ config.dispatch \in {"threaded", "native"}
  BY ShimAssumption DEF Types
<1>2. Route = "d3d12" => /\ IsPair /\ transport = "open" /\ InRange(Ordered[1])
                         /\ calls[1].count = calls[2].count
  BY <1>1 DEF Route
<1>3. ASSUME Route = "d3d12" PROVE Accepts(Ordered)
  <2>1. Ordered[1] \in Call /\ Ordered[1].count = Ordered[2].count
    BY <1>2, <1>3, OrderedRanks DEF Types
  <2>2. QED
    BY <1>1, <1>2, <1>3, <2>1, BytesAndElements DEF Accepts
<1>4. QED
  BY <1>1, <1>2, <1>3 DEF Route

\* A step that leaves the host thread's state alone keeps its invariant: the
\* dispatch threads and the GPUs take such steps.
LEMMA OthersKeepHInv ==
  ASSUME HInv, UNCHANGED <<library, group, task, epoch>>
  PROVE  HInv'
  BY DEF HInv, Types, Ownership, Progress, Dispatching, SuccessIsComplete,
         RoutedIsAccepted, Accepts, Ordered, IsPair, library, group, task

\* Every step of the host thread, of a dispatch thread and of a GPU keeps the
\* host's invariant.
LEMMA HostStep == HInv /\ [Next]_vars => HInv'
<1> SUFFICES ASSUME HInv, [Next]_vars PROVE HInv'
  OBVIOUS
<1>1. /\ Types /\ Ownership /\ Progress /\ Dispatching /\ SuccessIsComplete
      /\ RoutedIsAccepted
  BY DEF HInv
<1>2. MaxGroups \in Nat /\ Len(calls) \in Nat
  BY ShimAssumption, LenProperties DEF Types
<1>3. <<>> \in Seq(Call) /\ Len(<<>>) = 0
  BY EmptySeq
<1> USE <1>1, <1>2, <1>3
<1> USE DEF library, group, task, threads, stream, Building, Native
<1>4. ASSUME NEW ok \in Outcome, InitReal(ok) PROVE HInv'
  <2>1. Types'
    BY <1>4 DEF Types, InitReal
  <2>2. Ownership'
    BY <1>4 DEF Types, Ownership, InitReal
  <2>3. Progress'
    BY <1>4 DEF Types, Progress, IsPair, InitReal
  <2>4. Dispatching'
    BY <1>4 DEF Types, Dispatching, InitReal
  <2>5. SuccessIsComplete'
    BY <1>4 DEF Types, SuccessIsComplete, Progress, IsPair, InitReal
  <2>6. RoutedIsAccepted'
    BY <1>4 DEF RoutedIsAccepted, Accepts, Ordered, InitReal
  <2>7. QED
    BY <2>1, <2>2, <2>3, <2>4, <2>5, <2>6 DEF HInv
<1>5. ASSUME NEW ok \in Outcome, InitD3D12(ok) PROVE HInv'
  <2>1. Types'
    BY <1>5 DEF Types, InitD3D12, CreateTransport
  <2>2. Ownership'
    BY <1>5 DEF Types, Ownership, InitD3D12, CreateTransport
  <2>3. Progress'
    BY <1>5 DEF Types, Progress, IsPair, InitD3D12, CreateTransport
  <2>4. Dispatching'
    BY <1>5 DEF Types, Dispatching, InitD3D12, CreateTransport
  <2>5. SuccessIsComplete'
    BY <1>5 DEF Types, SuccessIsComplete, Progress, IsPair, InitD3D12, CreateTransport
  <2>6. RoutedIsAccepted'
    BY <1>5 DEF RoutedIsAccepted, Accepts, Ordered, InitD3D12, CreateTransport
  <2>7. QED
    BY <2>1, <2>2, <2>3, <2>4, <2>5, <2>6 DEF HInv
<1>6. ASSUME NEW ok \in Outcome, InitWrap(ok) PROVE HInv'
  <2>1. Types'
    BY <1>6 DEF Types, InitWrap, Rank
  <2>2. Ownership'
    BY <1>6 DEF Types, Ownership, InitWrap, Rank
  <2>3. Progress'
    BY <1>6 DEF Types, Progress, IsPair, InitWrap, Rank
  <2>4. Dispatching'
    BY <1>6 DEF Types, Dispatching, InitWrap, Rank
  <2>5. SuccessIsComplete'
    BY <1>6 DEF Types, SuccessIsComplete, Progress, IsPair, InitWrap, Rank
  <2>6. RoutedIsAccepted'
    BY <1>6 DEF RoutedIsAccepted, Accepts, Ordered, InitWrap, Rank
  <2>7. QED
    BY <2>1, <2>2, <2>3, <2>4, <2>5, <2>6 DEF HInv
<1>7. ASSUME NEW r \in Rank, CommDestroy(r) PROVE HInv'
  <2>1. Types'
    BY <1>7 DEF Types, CommDestroy, Rank
  <2>2. Ownership'
    BY <1>7 DEF Types, Ownership, CommDestroy, Rank
  <2>3. Progress'
    BY <1>7 DEF Types, Progress, IsPair, CommDestroy, Rank
  <2>4. Dispatching'
    BY <1>7 DEF Types, Dispatching, CommDestroy, Rank
  <2>5. SuccessIsComplete'
    BY <1>7 DEF Types, SuccessIsComplete, Progress, IsPair, CommDestroy, Rank
  <2>6. RoutedIsAccepted'
    BY <1>7 DEF RoutedIsAccepted, Accepts, Ordered, CommDestroy, Rank
  <2>7. QED
    BY <2>1, <2>2, <2>3, <2>4, <2>5, <2>6 DEF HInv
<1>8. ASSUME GroupStart PROVE HInv'
  <2>1. Types'
    BY <1>8 DEF Types, GroupStart
  <2>2. Ownership'
    BY <1>8 DEF Types, Ownership, GroupStart
  <2>3. Progress'
    BY <1>8 DEF Types, Progress, IsPair, GroupStart
  <2>4. Dispatching'
    BY <1>8 DEF Types, Dispatching, GroupStart
  <2>5. SuccessIsComplete'
    BY <1>8 DEF Types, SuccessIsComplete, Progress, IsPair, GroupStart
  <2>6. RoutedIsAccepted'
    BY <1>8 DEF RoutedIsAccepted, Accepts, Ordered, GroupStart
  <2>7. QED
    BY <2>1, <2>2, <2>3, <2>4, <2>5, <2>6 DEF HInv
<1>9. ASSUME NEW c \in Call, AllReduce(c) PROVE HInv'
  <2>1. Types'
    BY <1>9 DEF Types, AllReduce
  <2>2. Ownership'
    BY <1>9 DEF Types, Ownership, AllReduce
  <2>3. Progress'
    BY <1>9 DEF Types, Progress, IsPair, AllReduce
  <2>4. Dispatching'
    BY <1>9 DEF Types, Dispatching, AllReduce
  <2>5. SuccessIsComplete'
    BY <1>9 DEF Types, SuccessIsComplete, Progress, IsPair, AllReduce
  <2>6. RoutedIsAccepted'
    BY <1>9 DEF RoutedIsAccepted, Accepts, Ordered, AllReduce
  <2>7. QED
    BY <2>1, <2>2, <2>3, <2>4, <2>5, <2>6 DEF HInv
<1>10. ASSUME InnerGroupEnd PROVE HInv'
  <2>1. Types'
    BY <1>10 DEF Types, InnerGroupEnd
  <2>2. Ownership'
    BY <1>10 DEF Types, Ownership, InnerGroupEnd
  <2>3. Progress'
    BY <1>10 DEF Types, Progress, IsPair, InnerGroupEnd
  <2>4. Dispatching'
    BY <1>10 DEF Types, Dispatching, InnerGroupEnd
  <2>5. SuccessIsComplete'
    BY <1>10 DEF Types, SuccessIsComplete, Progress, IsPair, InnerGroupEnd
  <2>6. RoutedIsAccepted'
    BY <1>10 DEF RoutedIsAccepted, Accepts, Ordered, InnerGroupEnd
  <2>7. QED
    BY <2>1, <2>2, <2>3, <2>4, <2>5, <2>6 DEF HInv
<1>11. ASSUME GroupEnd PROVE HInv'
  <2>1. /\ Route \in {"nothing", "native", "d3d12", "refused", "threaded"}
        /\ Route = "nothing" => calls = <<>>
        /\ Route = "native" => calls # <<>>
        /\ Route \in {"d3d12", "threaded"} => IsPair
        /\ Route = "d3d12" => transport = "open" /\ Accepts(Ordered)
    BY RouteFacts
  <2>2. /\ host = "idle" /\ depth = 1 /\ host' = Route /\ groups' = groups + 1
        /\ at' = 0 /\ launched' = 0 /\ status' = "success" /\ depth' = 0
        /\ UNCHANGED <<library, calls, report, realDepth, epoch>>
    BY <1>11 DEF GroupEnd
  <2>3. Types'
    BY <2>1, <2>2 DEF Types, Dispatching
  <2>4. Ownership'
    BY <2>1, <2>2 DEF Ownership
  <2>5. Progress'
    BY <2>1, <2>2 DEF Progress, IsPair
  <2>6. Dispatching'
    BY <2>1, <2>2 DEF Types, Dispatching
  <2>7. SuccessIsComplete'
    BY <2>2 DEF SuccessIsComplete
  <2>8. RoutedIsAccepted'
    BY <2>1, <2>2 DEF RoutedIsAccepted, Accepts, Ordered
  <2>9. QED
    BY <2>3, <2>4, <2>5, <2>6, <2>7, <2>8 DEF HInv
<1>12. ASSUME Answer PROVE HInv'
  <2>1. Types'
    BY <1>12 DEF Types, Answer, Return
  <2>2. Ownership'
    BY <1>12 DEF Types, Ownership, Answer, Return
  <2>3. Progress'
    BY <1>12 DEF Types, Progress, IsPair, Answer, Return
  <2>4. Dispatching'
    BY <1>12 DEF Types, Dispatching, Answer, Return
  <2>5. SuccessIsComplete'
    BY <1>12 DEF Types, SuccessIsComplete, Progress, IsPair, Answer, Return
  <2>6. RoutedIsAccepted'
    BY <1>12 DEF RoutedIsAccepted, Accepts, Ordered, Answer, Return
  <2>7. QED
    BY <2>1, <2>2, <2>3, <2>4, <2>5, <2>6 DEF HInv
<1>13. ASSUME StartD3D12 PROVE HInv'
  <2>1. /\ host = "d3d12" /\ IsPair /\ Accepts(Ordered) /\ at = 0 /\ launched = 0
        /\ epoch < groups /\ transport = "open" /\ Len(calls) = 2
    BY <1>13 DEF StartD3D12, Progress, Dispatching, RoutedIsAccepted, IsPair
  <2>2. CASE Ordered[1].count > 0
    <3>1. /\ epoch' = epoch + 1 /\ host' = "enqueue"
          /\ UNCHANGED <<library, group, launched, at, status, realDepth>>
      BY <1>13, <2>1, <2>2 DEF StartD3D12
    <3>2. Types'
      BY <2>1, <3>1 DEF Types
    <3>3. Ownership' /\ SuccessIsComplete' /\ RoutedIsAccepted'
      BY <2>1, <3>1 DEF Ownership, SuccessIsComplete, RoutedIsAccepted
    <3>4. Progress' /\ Dispatching'
      BY <2>1, <3>1 DEF Types, Progress, IsPair, Dispatching
    <3>5. QED
      BY <3>2, <3>3, <3>4 DEF HInv
  <2>3. CASE ~(Ordered[1].count > 0)
    <3>1. /\ launched' = 2 /\ host' = "idle" /\ calls' = <<>>
          /\ report' = [result |-> "success", left |-> Len(calls) - 2]
          /\ UNCHANGED <<library, depth, groups, epoch, at, status, realDepth>>
      BY <1>13, <2>1, <2>3 DEF StartD3D12, Return
    <3>2. Types'
      BY <3>1 DEF Types
    <3>3. Ownership' /\ SuccessIsComplete' /\ RoutedIsAccepted'
      BY <2>1, <3>1 DEF Ownership, SuccessIsComplete, RoutedIsAccepted
    <3>4. Progress' /\ Dispatching'
      BY <2>1, <3>1 DEF Types, Progress, Dispatching
    <3>5. QED
      BY <3>2, <3>3, <3>4 DEF HInv
  <2>4. QED
    BY <2>2, <2>3
<1>14. ASSUME NEW n \in 0..6, EnqueueRank(n) PROVE HInv'
  <2>1. /\ host = "enqueue" /\ IsPair /\ at \in {0, 1} /\ launched = at
        /\ transport = "open" /\ Len(calls) = 2
    BY <1>14 DEF EnqueueRank, Progress, Dispatching, IsPair
  <2>2. CASE n = 6 /\ at = 0
    <3>1. /\ at' = 1 /\ launched' = launched + 1
          /\ UNCHANGED <<library, group, host, status, realDepth, epoch>>
      BY <1>14, <2>1, <2>2 DEF EnqueueRank
    <3>2. Types'
      BY <2>1, <3>1 DEF Types
    <3>3. Ownership' /\ SuccessIsComplete' /\ RoutedIsAccepted'
      BY <2>1, <3>1 DEF Ownership, SuccessIsComplete, RoutedIsAccepted
    <3>4. Progress' /\ Dispatching'
      BY <2>1, <2>2, <3>1 DEF Types, Progress, IsPair, Dispatching
    <3>5. QED
      BY <3>2, <3>3, <3>4 DEF HInv
  <2>3. CASE ~(n = 6 /\ at = 0)
    <3>1. /\ launched' = (IF n = 6 THEN launched + 1 ELSE launched)
          /\ host' = "idle" /\ calls' = <<>>
          /\ report' = [result |-> IF n = 6 THEN "success" ELSE "error",
                        left |-> Len(calls) - launched']
          /\ UNCHANGED <<library, depth, groups, epoch, at, status, realDepth>>
      BY <1>14, <2>1, <2>3 DEF EnqueueRank, Return
    <3>2. Types'
      BY <2>1, <3>1 DEF Types
    <3>3. SuccessIsComplete'
      <4>1. n = 6 => launched' = 2
        BY <2>1, <2>3, <3>1
      <4>2. QED
        BY <2>1, <3>1, <4>1 DEF SuccessIsComplete
    <3>4. Ownership' /\ RoutedIsAccepted'
      BY <2>1, <3>1 DEF Ownership, RoutedIsAccepted
    <3>5. Progress' /\ Dispatching'
      BY <2>1, <3>1 DEF Types, Progress, Dispatching
    <3>6. QED
      BY <3>2, <3>3, <3>4, <3>5 DEF HInv
  <2>4. QED
    BY <2>2, <2>3
<1>15. ASSUME NEW ok \in Outcome, NativeStart(ok) PROVE HInv'
  <2>1. CASE config.loads /\ ok
    <3>1. /\ host = "native" /\ host' = "native_call" /\ realDepth' = realDepth + 1
          /\ UNCHANGED <<library, group, launched, at, status, epoch>>
      BY <1>15, <2>1 DEF NativeStart
    <3>2. Types' /\ SuccessIsComplete' /\ RoutedIsAccepted'
      BY <3>1 DEF Types, SuccessIsComplete, RoutedIsAccepted
    <3>3. Ownership' /\ Dispatching'
      BY <3>1 DEF Ownership, Dispatching
    <3>4. Progress'
      <4>1. calls # <<>> /\ at = 0 /\ launched = 0 /\ status = "success"
        BY <3>1 DEF Progress
      <4>2. Len(calls) > 0
        BY <4>1, EmptySeq DEF Types
      <4>3. QED
        BY <3>1, <4>1, <4>2 DEF Progress
    <3>5. QED
      BY <3>2, <3>3, <3>4 DEF HInv
  <2>2. CASE ~(config.loads /\ ok)
    <3>1. /\ host = "native" /\ launched' = 0 /\ host' = "idle" /\ calls' = <<>>
          /\ report' = [result |-> "error", left |-> Len(calls) - 0]
          /\ UNCHANGED <<library, depth, groups, epoch, at, status, realDepth>>
      BY <1>15, <2>2 DEF NativeStart, Return
    <3>2. Types' /\ SuccessIsComplete' /\ RoutedIsAccepted'
      BY <3>1 DEF Types, SuccessIsComplete, RoutedIsAccepted
    <3>3. Ownership' /\ Progress' /\ Dispatching'
      BY <3>1 DEF Ownership, Progress, Dispatching
    <3>4. QED
      BY <3>2, <3>3 DEF HInv
  <2>3. QED
    BY <2>1, <2>2
<1>16. ASSUME NEW ok \in Outcome, NativeCall(ok) PROVE HInv'
  <2>1. Types'
    BY <1>16 DEF Types, NativeCall
  <2>2. Ownership'
    BY <1>16 DEF Types, Ownership, NativeCall
  <2>3. Progress'
    BY <1>16 DEF Types, Progress, IsPair, NativeCall
  <2>4. Dispatching'
    BY <1>16 DEF Types, Dispatching, NativeCall
  <2>5. SuccessIsComplete'
    BY <1>16 DEF Types, SuccessIsComplete, Progress, IsPair, NativeCall
  <2>6. RoutedIsAccepted'
    BY <1>16 DEF RoutedIsAccepted, Accepts, Ordered, NativeCall
  <2>7. QED
    BY <2>1, <2>2, <2>3, <2>4, <2>5, <2>6 DEF HInv
<1>17. ASSUME NEW ok \in Outcome, NativeEnd(ok) PROVE HInv'
  <2>1. Types'
    BY <1>17 DEF Types, NativeEnd, Return
  <2>2. Ownership'
    BY <1>17 DEF Types, Ownership, NativeEnd, Return
  <2>3. Progress'
    BY <1>17 DEF Types, Progress, IsPair, NativeEnd, Return
  <2>4. Dispatching'
    BY <1>17 DEF Types, Dispatching, NativeEnd, Return
  <2>5. SuccessIsComplete'
    BY <1>17 DEF Types, SuccessIsComplete, Progress, IsPair, NativeEnd, Return
  <2>6. RoutedIsAccepted'
    BY <1>17 DEF RoutedIsAccepted, Accepts, Ordered, NativeEnd, Return
  <2>7. QED
    BY <2>1, <2>2, <2>3, <2>4, <2>5, <2>6 DEF HInv
<1>18. ASSUME StartWorker PROVE HInv'
  <2>1. Types'
    BY <1>18 DEF Types, StartWorker
  <2>2. Ownership'
    BY <1>18 DEF Types, Ownership, StartWorker
  <2>3. Progress'
    BY <1>18 DEF Types, Progress, IsPair, StartWorker
  <2>4. Dispatching'
    BY <1>18 DEF Types, Dispatching, StartWorker
  <2>5. SuccessIsComplete'
    BY <1>18 DEF Types, SuccessIsComplete, Progress, IsPair, StartWorker
  <2>6. RoutedIsAccepted'
    BY <1>18 DEF RoutedIsAccepted, Accepts, Ordered, StartWorker
  <2>7. QED
    BY <2>1, <2>2, <2>3, <2>4, <2>5, <2>6 DEF HInv
<1>19. ASSUME Join PROVE HInv'
  <2>1. host = "threaded" /\ Len(calls) = 2
    BY <1>19 DEF Join, Progress, IsPair
  <2>2. /\ host' = "idle" /\ calls' = <<>> /\ launched' \in {0, 1, 2}
        /\ report'.left = Len(calls) - launched'
        /\ report'.result = "success" => launched' = 2
        /\ UNCHANGED <<library, depth, groups, epoch, at, status, realDepth>>
    BY <1>19 DEF Join, Return, Rank
  <2>3. Types' /\ RoutedIsAccepted'
    BY <2>2 DEF Types, RoutedIsAccepted
  <2>4. SuccessIsComplete'
    BY <2>1, <2>2 DEF SuccessIsComplete
  <2>5. Ownership' /\ Progress' /\ Dispatching'
    BY <2>1, <2>2 DEF Ownership, Progress, Dispatching
  <2>6. QED
    BY <2>3, <2>4, <2>5 DEF HInv
<1>20. ASSUME NEW r \in Rank, Worker(r) PROVE HInv'
  BY <1>20, OthersKeepHInv DEF Worker, Arrive, Wake, Work
<1>21. ASSUME NEW r \in Rank, NEW e \in Epoch, Gpu(r, e) PROVE HInv'
  BY <1>21, OthersKeepHInv DEF Gpu
<1>22. CASE UNCHANGED vars
  BY <1>22, OthersKeepHInv DEF vars
<1>23. QED
  BY <1>4, <1>5, <1>6, <1>7, <1>8, <1>9, <1>10, <1>11, <1>12, <1>13, <1>14, <1>15, <1>16, <1>17, <1>18, <1>19, <1>20, <1>21, <1>22
  DEF Next, Caller, Inside

\* No communicator, no transport and no group of calls exists at the start.
LEMMA InitHInv == Init => HInv
<1> SUFFICES ASSUME Init PROVE HInv
  OBVIOUS
<1>1. Types
  BY ShimAssumption, EmptySeq DEF Init, Types
<1>2. Ownership /\ Progress /\ Dispatching /\ SuccessIsComplete /\ RoutedIsAccepted
  BY ShimAssumption
  DEF Init, Ownership, Progress, Dispatching, SuccessIsComplete,
      RoutedIsAccepted, Rank, Building, Native
<1>3. QED
  BY <1>1, <1>2 DEF HInv

\* The invariant of the host thread holds in every state.
LEMMA HostInvariant == Spec => []HInv
  BY InitHInv, HostStep, PTL DEF Spec

\* ncclGroupEnd reports success only if every call of the group was launched,
\* along each of the three routes and whichever call into a library fails.
THEOREM SuccessfulGroupsAreComplete == Spec => []SuccessIsComplete
  BY HostInvariant, PTL DEF HInv

\* The dispatcher's check in bytes never passes a group that the transport's
\* check in elements refuses, for every buffer, count and size_t.
THEOREM RoutedGroupsAreAccepted == Spec => []RoutedIsAccepted
  BY HostInvariant, PTL DEF HInv

\* Between the calls of llama.cpp nothing has leaked: every real communicator
\* and the open transport belong to a wrapper that can be destroyed, and no
\* group of the real library is open, whatever failed.
THEOREM ShimDoesNotLeak == Spec => []NothingLeaks
<1>1. HInv => NothingLeaks
  BY DEF HInv, Ownership, NothingLeaks, Building, Native
<1>2. QED
  BY <1>1, HostInvariant, PTL
-----------------------------------------------------------------------------
\* The two instances of the all-reduce speak of the same sums.
LEMMA SameSum == P!SumOfSameCall <=> D!SumOfSameCall
  BY DEF P!SumOfSameCall, D!SumOfSameCall, P!CleanUpTo, D!CleanUpTo, P!Rank,
         D!Rank, P!Epoch, D!Epoch, Rank

\* A GPU that works for the shim takes a step of the all-reduce.
LEMMA SameGpu ==
  ASSUME NEW r \in Rank, NEW e \in Epoch, Gpu(r, e)
  PROVE  P!Gpu(r, e)
  BY DEF Gpu, D!Gpu, P!Gpu, library, group, task, threads, stream,
         D!Copy, P!Copy, D!SignalReady, P!SignalReady, D!WaitReady, P!WaitReady,
         D!Add, P!Add, D!SignalConsumed, P!SignalConsumed, D!WaitConsumed,
         P!WaitConsumed, D!Turn, P!Turn, D!Advance, P!Advance, D!host, P!host,
         D!calls, P!calls, D!SetFence, P!SetFence, D!FenceReached,
         P!FenceReached, D!Peer, P!Peer

\* ... which keeps the invariant of the all-reduce, by the proof of that module.
LEMMA GpuKeepsProtocol ==
  ASSUME P!IInv, NEW r \in Rank, NEW e \in Epoch, Gpu(r, e)
  PROVE  P!IInv'
<1>1. P!Gpu(r, e)
  BY SameGpu
<1>2. r \in P!Rank /\ e \in P!Epoch
  BY DEF Rank, Epoch, P!Rank, P!Epoch
<1>3. P!Next
  BY <1>1, <1>2 DEF P!Next
<1>4. QED
  BY <1>3, P!NextIInv, ShimAssumption

\* A GPU executes only what is enqueued and not yet executed.
LEMMA GpuIsBusy ==
  ASSUME P!IInv, NEW r \in Rank, NEW e \in Epoch, Gpu(r, e)
  PROVE  done # queued
<1>1. r \in P!Rank /\ e \in P!Epoch /\ P!TypeOK
  BY DEF Rank, Epoch, P!Rank, P!Epoch, P!IInv, P!Shape
<1>2. PICK k \in 1..6 : P!Turn(r, e, k)
  BY <1>1, SameGpu, P!GpuEffect, ShimAssumption
<1>3. QED
  BY <1>2 DEF P!Turn

\* A step of the host that enqueues nothing does not touch the all-reduce.
LEMMA QuietKeepsProtocol ==
  ASSUME P!IInv, UNCHANGED <<stream, gpu>>,
         host = "enqueue" <=> host' = "enqueue",
         host = "enqueue" => UNCHANGED at
  PROVE  P!IInv'
<1>1. UNCHANGED P!vars
  BY DEF P!vars, P!host, P!calls, P!gpu, stream, gpu
<1>2. QED
  BY <1>1, P!NextIInv, ShimAssumption

\* What the invariant of the all-reduce says of what was enqueued, in the
\* variables of the shim.
Enqueued ==
  LET spoiled == failed[0] \cup failed[1] IN
  /\ queued \in [Rank -> [Epoch -> 0..6]]
  /\ done \in [Rank -> [Epoch -> 0..6]]
  /\ heap \in [Rank -> 0..MaxGroups]
  /\ fence \in [Rank -> 0..(2 * MaxGroups)]
  /\ output \in [Rank -> [Epoch -> 0..MaxGroups]]
  /\ spoiled \subseteq 1..epoch
  /\ host = "enqueue" /\ epoch \in Epoch => epoch \notin spoiled
  /\ \A r \in Rank, e \in Epoch :
       /\ done[r][e] <= queued[r][e]
       /\ e > epoch => queued[r][e] = 0
       /\ e < epoch \/ (e = epoch /\ ~(host = "enqueue" /\ r >= at))
            => queued[r][e] = 6 \/ e \in spoiled
       /\ \A f \in Epoch :
            f < e /\ e <= epoch /\ done[r][e] > 0 => done[r][f] = queued[r][f]

\* That is all the invariant of the all-reduce says of them.
LEMMA EnqueuedIsShape ==
  Types /\ Progress /\ Fresh /\ failed \in [Rank -> SUBSET Epoch]
    => (Enqueued <=> P!Shape)
<1> SUFFICES ASSUME Types, Progress, Fresh, failed \in [Rank -> SUBSET Epoch]
             PROVE  Enqueued <=> P!Shape
  OBVIOUS
<1>1. MaxGroups \in Nat /\ P!Epoch = Epoch /\ P!Rank = Rank /\ epoch \in 0..MaxGroups
  BY ShimAssumption DEF Epoch, Rank, P!Epoch, P!Rank, Types
<1>2. host = "enqueue" => at \in {0, 1} /\ epoch \in Epoch
  BY <1>1 DEF Progress, Epoch
<1>3. ASSUME Enqueued PROVE P!Shape
  <2>1. P!TypeOK
    <3>1. failed[0] \cup failed[1] \subseteq Epoch
      BY DEF Rank
    <3>2. QED
      BY <1>1, <1>3, <3>1 DEF Enqueued, P!TypeOK
  <2>2. P!CallShape
    <3> SUFFICES ASSUME NEW r \in Rank
                 PROVE  /\ failed[0] \cup failed[1] \subseteq 1..epoch
                        /\ host = "enqueue" /\ r >= at =>
                             /\ epoch >= 1 /\ epoch \notin failed[0] \cup failed[1]
                             /\ queued[r][epoch] < 6
                        /\ \A e \in Epoch :
                             /\ done[r][e] <= queued[r][e]
                             /\ e > epoch => queued[r][e] = 0
                             /\ \/ e < epoch
                                \/ e = epoch /\ ~(host = "enqueue" /\ r >= at)
                                => queued[r][e] = 6 \/ e \in failed[0] \cup failed[1]
      BY <1>1 DEF P!CallShape
    <3>1. host = "enqueue" /\ r >= at =>
            /\ epoch >= 1 /\ epoch \notin failed[0] \cup failed[1]
            /\ queued[r][epoch] < 6
      <4>1. host = "enqueue" /\ r >= at => queued[r][epoch] = 0
        BY DEF Fresh
      <4>2. host = "enqueue" => epoch \notin failed[0] \cup failed[1] /\ epoch >= 1
        BY <1>2, <1>3 DEF Enqueued, Epoch
      <4>3. QED
        BY <4>1, <4>2
    <3>2. QED
      BY <1>3, <3>1 DEF Enqueued
  <2>3. P!InOrder
    BY <1>1, <1>3 DEF Enqueued, P!InOrder
  <2>4. QED
    BY <2>1, <2>2, <2>3 DEF P!Shape
<1>4. ASSUME P!Shape PROVE Enqueued
  <2>1. P!TypeOK /\ P!CallShape /\ P!InOrder
    BY <1>4 DEF P!Shape
  <2>2. /\ queued \in [Rank -> [Epoch -> 0..6]]
        /\ done \in [Rank -> [Epoch -> 0..6]]
        /\ heap \in [Rank -> 0..MaxGroups]
        /\ fence \in [Rank -> 0..(2 * MaxGroups)]
        /\ output \in [Rank -> [Epoch -> 0..MaxGroups]]
    BY <1>1, <2>1 DEF P!TypeOK
  <2>3. failed[0] \cup failed[1] \subseteq 1..epoch
    BY <1>1, <2>1 DEF P!CallShape, Rank
  <2>4. host = "enqueue" => epoch \notin failed[0] \cup failed[1]
    BY <1>1, <1>2, <2>1 DEF P!CallShape, Rank
  <2>5. \A r \in Rank, e \in Epoch :
          /\ done[r][e] <= queued[r][e]
          /\ e > epoch => queued[r][e] = 0
          /\ e < epoch \/ (e = epoch /\ ~(host = "enqueue" /\ r >= at))
               => queued[r][e] = 6 \/ e \in failed[0] \cup failed[1]
    BY <1>1, <2>1 DEF P!CallShape
  <2>6. \A r \in Rank, e, f \in Epoch :
          f < e /\ e <= epoch /\ done[r][e] > 0 => done[r][f] = queued[r][f]
    BY <1>1, <2>1 DEF P!InOrder
  <2>7. QED
    BY <2>2, <2>3, <2>4, <2>5, <2>6 DEF Enqueued
<1>5. QED
  BY <1>3, <1>4

\* The host's step leaves the GPUs alone and spoils no fewer epochs, so what
\* the all-reduce knows of heaps, fences and sums stays true.
LEMMA HostKeepsProtocol ==
  ASSUME P!IInv, UNCHANGED gpu, failed[0] \subseteq failed'[0],
         failed[1] \subseteq failed'[1]
  PROVE  P!Protocol'
  BY P!HostKeepsProtocol, ShimAssumption DEF P!IInv, P!gpu, gpu, Rank, P!Rank

\* wac_d3d12_allreduce takes the next epoch.
LEMMA StartKeepsGInv ==
  ASSUME GInv, HInv', StartD3D12
  PROVE  GInv'
<1>1. /\ Types /\ Progress /\ Fresh /\ failed \in [Rank -> SUBSET Epoch]
      /\ Idle /\ OwnTensors /\ P!IInv /\ host = "d3d12"
      /\ Types' /\ Progress' /\ at = 0 /\ epoch < groups
  BY DEF GInv, HInv, StartD3D12, Progress, Dispatching
<1>2. UNCHANGED <<transport, at, gpu, origin, queued, failed>>
  BY DEF StartD3D12, Return, library
<1>3. OwnTensors' /\ (failed \in [Rank -> SUBSET Epoch])'
  BY <1>1, <1>2 DEF OwnTensors
<1>4. host' \notin Building /\ transport' = "open"
  BY <1>1, <1>2 DEF GInv, HInv, Dispatching, StartD3D12, Return, Building
<1>5. Idle'
  BY <1>4 DEF Idle
<1>6. CASE UNCHANGED epoch
  <2>1. host' # "enqueue"
    BY <1>1, <1>6 DEF StartD3D12, Return, Types
  <2>2. P!IInv'
    BY <1>1, <1>2, <1>6, <2>1, QuietKeepsProtocol DEF stream
  <2>3. QED
    BY <1>3, <1>5, <2>1, <2>2 DEF GInv, Fresh
<1>7. CASE epoch' = epoch + 1
  <2>1. host' = "enqueue"
    BY <1>1, <1>7 DEF StartD3D12, Types
  <2>2. Enqueued
    BY <1>1, EnqueuedIsShape DEF P!IInv
  <2>3. epoch \in 0..MaxGroups /\ epoch + 1 \in Epoch
    BY <1>1, <1>7, ShimAssumption DEF Types, Epoch
  <2>4. Fresh'
    BY <1>2, <1>7, <2>2, <2>3 DEF Fresh, Enqueued
  <2>5. Enqueued'
    <3>1. /\ queued' = queued /\ done' = done /\ heap' = heap /\ fence' = fence
          /\ output' = output /\ failed' = failed
      BY <1>2 DEF gpu
    <3>2. \A e \in Epoch : e \in Int
      BY DEF Epoch
    <3>3. \A r \in Rank, e \in Epoch :
            queued[r][e] \in 0..6 /\ done[r][e] \in 0..6
      BY <2>2 DEF Enqueued
    <3>4. failed'[0] \cup failed'[1] \subseteq 1..epoch'
      BY <1>7, <2>2, <2>3, <3>1 DEF Enqueued
    <3>5. epoch' \notin failed'[0] \cup failed'[1]
      BY <1>7, <2>2, <2>3, <3>1 DEF Enqueued
    <3>6. ASSUME NEW r \in Rank, NEW e \in Epoch
          PROVE  /\ done'[r][e] <= queued'[r][e]
                 /\ e > epoch' => queued'[r][e] = 0
                 /\ e < epoch' \/ (e = epoch' /\ ~(host' = "enqueue" /\ r >= at'))
                      => queued'[r][e] = 6 \/ e \in failed'[0] \cup failed'[1]
      <4>1. /\ done[r][e] <= queued[r][e]
            /\ e > epoch => queued[r][e] = 0
            /\ e <= epoch => queued[r][e] = 6 \/ e \in failed[0] \cup failed[1]
        <5>1. /\ done[r][e] <= queued[r][e]
              /\ e > epoch => queued[r][e] = 0
              /\ e < epoch \/ e = epoch
                   => queued[r][e] = 6 \/ e \in failed[0] \cup failed[1]
          BY <1>1, <2>2 DEF Enqueued
        <5>2. e <= epoch => e < epoch \/ e = epoch
          BY <2>3, <3>2
        <5>3. QED
          BY <5>1, <5>2
      <4>2. r >= at'
        BY <1>1, <1>2 DEF Rank
      <4>3. QED
        BY <1>7, <2>1, <2>3, <3>1, <3>2, <4>1, <4>2
    <3>7. ASSUME NEW r \in Rank, NEW e \in Epoch, NEW f \in Epoch,
                 f < e, e <= epoch', done'[r][e] > 0
          PROVE  done'[r][f] = queued'[r][f]
      <4>1. e # epoch + 1
        <5>1. (e > epoch => queued[r][e] = 0) /\ done[r][e] <= queued[r][e]
          BY <2>2 DEF Enqueued
        <5>2. QED
          BY <2>3, <3>1, <3>3, <3>7, <5>1
      <4>2. e <= epoch
        BY <1>7, <2>3, <3>2, <3>7, <4>1
      <4>3. QED
        BY <2>2, <3>1, <3>7, <4>2 DEF Enqueued
    <3>8. QED
      BY <2>2, <3>1, <3>4, <3>5, <3>6, <3>7 DEF Enqueued
  <2>6. P!Shape'
    BY <1>1, <1>3, <2>4, <2>5, EnqueuedIsShape, PTL
  <2>7. P!Protocol'
    BY <1>1, <1>2, HostKeepsProtocol
  <2>8. QED
    BY <1>3, <1>5, <2>4, <2>6, <2>7 DEF GInv, P!IInv
<1>8. QED
  BY <1>6, <1>7 DEF StartD3D12

\* enqueue_rank puts the operations of one rank on its stream, all six or as
\* many as it gets to before a HIP call throws.
LEMMA EnqueueKeepsGInv ==
  ASSUME GInv, HInv', NEW n \in 0..6, EnqueueRank(n)
  PROVE  GInv'
<1>1. /\ Types /\ Progress /\ Fresh /\ failed \in [Rank -> SUBSET Epoch]
      /\ OwnTensors /\ P!IInv /\ host = "enqueue" /\ IsPair
      /\ Types' /\ Progress' /\ at \in Rank
  BY DEF GInv, HInv, EnqueueRank, Progress, Rank
<1>2. epoch \in Epoch /\ transport = "open"
  BY <1>1, ShimAssumption DEF GInv, HInv, Types, Progress, Dispatching, Epoch
<1>3. /\ UNCHANGED <<transport, gpu, epoch>>
      /\ queued' = [queued EXCEPT ![at][epoch] = n]
      /\ failed' = IF n = 6 THEN failed ELSE [failed EXCEPT ![at] = @ \cup {epoch}]
      /\ IF n = 6 /\ at = 0 THEN at' = 1 /\ host' = "enqueue" ELSE host' = "idle"
  BY <1>1 DEF EnqueueRank, Return, library
<1>4. OwnTensors'
  <2>1. at + 1 = 1 \/ at + 1 = 2
    BY <1>1 DEF Rank
  <2>2. Ordered[at + 1].rank = at
    BY <1>1, <2>1, OrderedRanks DEF Types, Rank
  <2>3. origin' = [origin EXCEPT ![at][epoch] = at]
    BY <2>2 DEF EnqueueRank
  <2>4. QED
    BY <1>1, <1>2, <2>3 DEF OwnTensors
<1>5. (failed \in [Rank -> SUBSET Epoch])'
  BY <1>1, <1>2, <1>3
<1>6. Idle'
  BY <1>2, <1>3 DEF Idle, Building
<1>7. Enqueued
  BY <1>1, EnqueuedIsShape DEF P!IInv
<1>8. /\ queued' \in [Rank -> [Epoch -> 0..6]] /\ queued'[at][epoch] = n
      /\ \A r \in Rank, e \in Epoch : r # at \/ e # epoch => queued'[r][e] = queued[r][e]
  <2>1. queued \in [Rank -> [Epoch -> 0..6]]
    BY <1>7 DEF Enqueued
  <2>2. QED
    BY <1>1, <1>2, <1>3, <2>1
<1>9. Fresh'
  <2> SUFFICES ASSUME host' = "enqueue", NEW r \in Rank, r >= at'
               PROVE  queued'[r][epoch'] = 0
    BY DEF Fresh
  <2>1. at = 0 /\ at' = 1 /\ n = 6
    BY <1>3
  <2>2. r # at /\ r >= at
    BY <2>1 DEF Rank
  <2>3. queued[r][epoch] = 0
    BY <1>1, <2>2 DEF Fresh
  <2>4. QED
    BY <1>2, <1>3, <1>8, <2>2, <2>3
<1>10. Enqueued'
  <2>1. /\ done' = done /\ heap' = heap /\ fence' = fence /\ output' = output
        /\ epoch' = epoch
    BY <1>3 DEF gpu
  <2>2. \A e \in Epoch : e \in Int
    BY DEF Epoch
  <2>3. /\ \A q \in Rank : failed[q] \subseteq failed'[q]
        /\ failed'[0] \cup failed'[1] \subseteq failed[0] \cup failed[1] \cup {epoch}
        /\ n # 6 => epoch \in failed'[0] \cup failed'[1]
        /\ n = 6 => failed' = failed
    BY <1>1, <1>3 DEF Rank
  <2>4. failed'[0] \cup failed'[1] \subseteq 1..epoch'
    BY <1>2, <1>7, <2>1, <2>3 DEF Enqueued, Epoch
  <2>5. host' = "enqueue" => epoch' \notin failed'[0] \cup failed'[1]
    BY <1>1, <1>2, <1>3, <1>7, <2>1, <2>3 DEF Enqueued
  <2>6. ASSUME NEW r \in Rank, NEW e \in Epoch
        PROVE  /\ done'[r][e] <= queued'[r][e]
               /\ e > epoch' => queued'[r][e] = 0
               /\ e < epoch' \/ (e = epoch' /\ ~(host' = "enqueue" /\ r >= at'))
                    => queued'[r][e] = 6 \/ e \in failed'[0] \cup failed'[1]
    <3>1. /\ done[r][e] <= queued[r][e]
          /\ e > epoch => queued[r][e] = 0
          /\ e < epoch \/ (e = epoch /\ ~(r >= at))
               => queued[r][e] = 6 \/ e \in failed[0] \cup failed[1]
          /\ done[r][e] \in 0..6 /\ queued[r][e] \in 0..6
      BY <1>1, <1>7 DEF Enqueued
    <3>2. failed[0] \cup failed[1] \subseteq failed'[0] \cup failed'[1]
      BY <2>3 DEF Rank
    <3>3. CASE r = at /\ e = epoch
      <4>1. queued[r][e] = 0
        BY <1>1, <3>3 DEF Fresh, Rank
      <4>2. done[r][e] <= n
        BY <3>1, <4>1
      <4>3. QED
        BY <1>8, <2>1, <2>2, <2>3, <3>3, <4>2
    <3>4. CASE r # at /\ e = epoch
      <4>1. queued'[r][e] = queued[r][e]
        BY <1>8, <3>4
      <4>2. CASE host' = "enqueue"
        <5>1. at = 0 /\ at' = 1 /\ r >= at'
          BY <1>3, <3>4, <4>2 DEF Rank
        <5>2. QED
          BY <2>1, <2>2, <3>1, <3>4, <4>1, <4>2, <5>1
      <4>3. CASE host' # "enqueue" /\ n = 6
        <5>1. at = 1 /\ ~(r >= at)
          BY <1>1, <1>3, <3>4, <4>3 DEF Rank
        <5>2. QED
          BY <2>1, <2>2, <3>1, <3>2, <3>4, <4>1, <5>1
      <4>4. CASE n # 6
        BY <2>1, <2>2, <2>3, <3>1, <3>4, <4>1, <4>4
      <4>5. QED
        BY <4>2, <4>3, <4>4
    <3>5. CASE e # epoch
      <4>1. queued'[r][e] = queued[r][e]
        BY <1>8, <3>5
      <4>2. QED
        BY <2>1, <3>1, <3>2, <3>5, <4>1
    <3>6. QED
      BY <3>3, <3>4, <3>5
  <2>7. ASSUME NEW r \in Rank, NEW e \in Epoch, NEW f \in Epoch,
               f < e, e <= epoch', done'[r][e] > 0
        PROVE  done'[r][f] = queued'[r][f]
    <3>1. f # epoch
      BY <1>2, <2>1, <2>2, <2>7
    <3>2. done[r][f] = queued[r][f]
      BY <1>7, <2>1, <2>7 DEF Enqueued
    <3>3. QED
      BY <1>8, <2>1, <3>1, <3>2
  <2>8. QED
    BY <1>7, <1>8, <2>1, <2>4, <2>5, <2>6, <2>7 DEF Enqueued
<1>11. P!Shape'
  BY <1>1, <1>5, <1>9, <1>10, EnqueuedIsShape, PTL
<1>12. P!Protocol'
  <2>1. failed[0] \subseteq failed'[0] /\ failed[1] \subseteq failed'[1]
    BY <1>1, <1>3 DEF Rank
  <2>2. QED
    BY <1>1, <1>3, <2>1, HostKeepsProtocol
<1>13. QED
  BY <1>4, <1>5, <1>6, <1>9, <1>11, <1>12 DEF GInv, P!IInv

\* Every step keeps the whole invariant.  ncclCommDestroy is where the streams
\* must be drained: the last communicator waits for both devices.
LEMMA NextGInv == GInv /\ HInv' /\ [Next]_vars => GInv'
<1> SUFFICES ASSUME GInv, HInv', [Next]_vars PROVE GInv'
  OBVIOUS
<1>1. /\ HInv /\ Types /\ Dispatching /\ Fresh /\ failed \in [Rank -> SUBSET Epoch]
      /\ Idle /\ OwnTensors /\ P!IInv
  BY DEF GInv, HInv
<1>2. ASSUME UNCHANGED <<stream, gpu>>, host # "enqueue", host' # "enqueue", Idle'
      PROVE  GInv'
  <2>1. P!IInv'
    BY <1>1, <1>2, QuietKeepsProtocol
  <2>2. Fresh' /\ OwnTensors' /\ (failed \in [Rank -> SUBSET Epoch])'
    BY <1>1, <1>2 DEF Fresh, OwnTensors, stream
  <2>3. QED
    BY <1>2, <2>1, <2>2 DEF GInv
<1> USE DEF library, group, task, threads
<1>3. ASSUME NEW ok \in Outcome, InitReal(ok) \/ InitD3D12(ok) \/ InitWrap(ok)
      PROVE  GInv'
  <2>1. /\ UNCHANGED <<stream, gpu>> /\ host # "enqueue" /\ host' # "enqueue"
        /\ done = queued
    BY <1>1, <1>3 DEF InitReal, InitD3D12, InitWrap, Idle, Building
  <2>2. QED
    BY <1>2, <2>1 DEF Idle, stream, gpu
<1>4. ASSUME NEW r \in Rank, CommDestroy(r) PROVE GInv'
  <2>1. UNCHANGED <<stream, gpu, host>> /\ host = "idle"
    BY <1>4 DEF CommDestroy
  <2>2. transport' # "open" => done = queued
    BY <1>1, <1>4 DEF CommDestroy, Synchronized, Idle
  <2>3. QED
    BY <1>2, <2>1, <2>2 DEF Idle, Building, stream, gpu
<1>5. ASSUME UNCHANGED <<stream, gpu, transport>>, host \notin {"enqueue"} \cup Building,
             host' \notin {"enqueue"} \cup Building
      PROVE  GInv'
  BY <1>1, <1>2, <1>5 DEF Idle, stream, gpu
<1>6. ASSUME GroupStart \/ InnerGroupEnd \/ \E c \in Call : AllReduce(c) PROVE GInv'
  BY <1>5, <1>6 DEF GroupStart, InnerGroupEnd, AllReduce, Building
<1>7. ASSUME GroupEnd PROVE GInv'
  <2>1. Route \notin {"enqueue"} \cup Building
    BY <1>1, RouteFacts DEF Building
  <2>2. QED
    BY <1>5, <1>7, <2>1 DEF GroupEnd, Building
<1>8. ASSUME Answer PROVE GInv'
  BY <1>5, <1>8 DEF Answer, Return, Building
<1>9. ASSUME NEW ok \in Outcome, NativeStart(ok) \/ NativeCall(ok) \/ NativeEnd(ok)
      PROVE  GInv'
  BY <1>5, <1>9 DEF NativeStart, NativeCall, NativeEnd, Return, Building
<1>10. ASSUME StartWorker \/ Join PROVE GInv'
  BY <1>5, <1>10 DEF StartWorker, Join, Return, Building
<1>11. ASSUME StartD3D12 PROVE GInv'
  BY <1>11, StartKeepsGInv
<1>12. ASSUME NEW n \in 0..6, EnqueueRank(n) PROVE GInv'
  BY <1>12, EnqueueKeepsGInv
<1>13. ASSUME NEW r \in Rank, NEW e \in Epoch, Gpu(r, e) PROVE GInv'
  <2>1. P!IInv' /\ done # queued
    BY <1>1, <1>13, GpuKeepsProtocol, GpuIsBusy
  <2>2. UNCHANGED <<host, at, transport, epoch, origin, queued, failed>>
    BY <1>13 DEF Gpu, stream
  <2>3. QED
    BY <1>1, <2>1, <2>2 DEF GInv, Idle, Fresh, OwnTensors
<1>14. ASSUME UNCHANGED <<host, at, transport, stream, gpu>> PROVE GInv'
  <2>1. P!IInv'
    BY <1>1, <1>14, QuietKeepsProtocol
  <2>2. QED
    BY <1>1, <1>14, <2>1 DEF GInv, Idle, Fresh, OwnTensors, stream, gpu
<1>15. ASSUME NEW r \in Rank, Worker(r) PROVE GInv'
  BY <1>14, <1>15 DEF Worker, Arrive, Wake, Work
<1>16. CASE UNCHANGED vars
  BY <1>14, <1>16 DEF vars
<1>17. QED
  BY <1>3, <1>4, <1>6, <1>7, <1>8, <1>9, <1>10, <1>11, <1>12, <1>13, <1>15, <1>16
  DEF Next, Caller, Inside

\* Nothing is on the streams at the start.
LEMMA InitGInv == Init => GInv
<1> SUFFICES ASSUME Init PROVE GInv
  OBVIOUS
<1>1. /\ HInv /\ Types /\ Progress /\ MaxGroups \in Nat
      /\ failed \in [Rank -> SUBSET Epoch] /\ failed[0] = {} /\ failed[1] = {}
  BY InitHInv, ShimAssumption DEF HInv, Init, Rank
<1>2. Idle /\ Fresh /\ OwnTensors
  BY DEF Init, Idle, Fresh, OwnTensors
<1>3. Enqueued
  <2>1. /\ queued \in [Rank -> [Epoch -> 0..6]]
        /\ done \in [Rank -> [Epoch -> 0..6]]
    BY DEF Init
  <2>2. /\ heap \in [Rank -> 0..MaxGroups]
        /\ fence \in [Rank -> 0..(2 * MaxGroups)]
        /\ output \in [Rank -> [Epoch -> 0..MaxGroups]]
    <3>1. 0 \in 0..MaxGroups /\ 0 \in 0..(2 * MaxGroups)
      BY <1>1
    <3>2. QED
      BY <3>1 DEF Init
  <2>3. host # "enqueue" /\ epoch = 0 /\ failed[0] \cup failed[1] = {}
    BY <1>1 DEF Init
  <2>4. ASSUME NEW r \in Rank, NEW e \in Epoch
        PROVE  /\ done[r][e] = 0 /\ queued[r][e] = 0
               /\ e \in Nat /\ e > 0
    BY <1>1 DEF Init, Epoch
  <2>5. QED
    BY <2>1, <2>2, <2>3, <2>4 DEF Enqueued
<1>4. P!Shape
  BY <1>1, <1>2, <1>3, EnqueuedIsShape
<1>5. P!Protocol
  BY <1>1
  DEF Init, P!Protocol, P!FenceMeaning, P!Handshake, P!HeapMeaning,
      P!SumOfSameCall, P!Rank, P!Peer, P!Epoch, Rank, Epoch
<1>6. QED
  BY <1>1, <1>2, <1>4, <1>5 DEF GInv, P!IInv

\* The whole invariant of shim and GPUs holds in every state.
LEMMA ShimInvariant == Spec => []GInv
  BY InitGInv, NextGInv, HostInvariant, PTL DEF Spec

\* Both ranks get the sum of the two tensors of the same group, each from its
\* own tensor on its own stream, for any number of groups - unless an enqueue
\* up to that group failed.
THEOREM GroupsSum == Spec => []GroupSum
<1>1. GInv => GroupSum
  BY SameSum DEF GInv, GroupSum, OwnTensors, P!IInv, P!Protocol
<1>2. QED
  BY <1>1, ShimInvariant, PTL

\* The transport's heaps are freed only when both GPUs have executed all that
\* was enqueued on them, and nothing is enqueued without an open transport.
THEOREM TransportOutlivesTheWork == Spec => []NoUseAfterClose
<1>1. GInv => NoUseAfterClose
  BY DEF GInv, Idle, NoUseAfterClose
<1>2. QED
  BY <1>1, ShimInvariant, PTL
=============================================================================
