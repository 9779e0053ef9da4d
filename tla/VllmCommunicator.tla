-------------------------- MODULE VllmCommunicator --------------------------
(***************************************************************************)
(* WindowsAmdMultiGpuCommunicator (vllm_communicator.py) on every rank of  *)
(* a group: construction of its back-ends, the routing of each collective, *)
(* the host-staged Gloo path (host_staged.py), the RCCL path (rccl.py) and *)
(* destroy.  All ranks are given the same calls in the same order.         *)
(*                                                                         *)
(* A back-end is a channel on which the n-th operation of a rank meets the *)
(* n-th operation of the others: "gloo" and "rccl" are external, "d3d12"   *)
(* and "shm" are the objects of D3D12AllReduce and SharedMemoryAllReduce,  *)
(* seen here only through what they promise.  An operation on "gloo" (and  *)
(* the host path of "shm") blocks the host thread; the others are put on   *)
(* the rank's stream, behind the kernel that produces their input.         *)
(*                                                                         *)
(* The k-th input of rank r is Tensor(r, k), Junk until its kernel has run;*)
(* a sum is known by the set of the values added, a concatenation by their *)
(* sequence.                                                               *)
(***************************************************************************)
EXTENDS Naturals, Sequences, FiniteSets, TLC

CONSTANTS Settings,    \* the deployments tried: world size and requested back-ends
          Blocks,      \* what the engine schedules: sequences of calls
          Length,      \* bound: calls in a workload
          MinBytes,    \* WAVMG_D3D12_MIN_BYTES
          MaxBytes,    \* WAVMG_D3D12_MAX_BYTES
          ShmMaxBytes, \* max_size_bytes of SharedMemoryAllReduce
          MaxFaults    \* bound: local failures (a library, HIP or RCCL call that fails)

Ops == {"all_reduce", "all_gather", "reduce_scatter", "gather", "broadcast",
        "hop_out", "hop_back"}
Floats == {"f16"}                \* f16, bf16 and f32
RcclTypes == {"f16", "i32"}      \* the keys of _DTYPES
Types == {"f16", "i32", "bool"}
Channels == {"gloo", "p2p", "rccl", "d3d12", "shm", "self"}

\* The contents of a tensor.
Tensor(r, k) == <<"tensor", r, k>>
Junk == <<"junk">>
Pending == <<"pending">>   \* the call has not returned, or its output is still being computed
Nothing == <<"none">>      \* the call returns no tensor
Refused == <<"refused">>   \* the call raised because of its arguments

CallType == [op: Ops, bytes: Nat, dtype: Types, root: Nat, even: BOOLEAN]

ASSUME VllmAssumption ==
  /\ Settings \subseteq [world: Nat \ {0}, d3d12: BOOLEAN, rccl: BOOLEAN]
  /\ Blocks \subseteq Seq(CallType)
  /\ {Length, MinBytes, MaxBytes, ShmMaxBytes, MaxFaults} \subseteq Nat
  /\ MinBytes <= MaxBytes

VARIABLES
  setting,  \* the deployment, the same environment for every rank
  program,  \* the calls scheduled so far, the same for every rank
  stop,     \* has the engine asked the workers to shut down?
  pc,       \* where each rank's worker thread is
  arrived,  \* per rank, its votes at the construction steps it has reached
  passed,   \* per rank, the number of construction steps it is through
  next,     \* per rank, the call it makes or will make next
  queue,    \* per rank, the work on its stream
  input,    \* per rank, the contents of its input tensors
  result,   \* per rank, the contents of the tensors returned to it
  stage,    \* per rank, the pinned buffers of _host_buffers
  posts,    \* per channel and rank, what it has contributed so far
  open,     \* per rank, the back-ends it holds
  left,     \* per rank, the number of destroy steps it is through
  failed    \* the ranks on which a local call has failed

engine == <<setting, program, stop>>
construction == <<arrived, passed, left, open>>
tensors == <<input, result, stage>>
vars == <<engine, pc, construction, next, queue, tensors, posts, failed>>

Ranks == 0..setting.world - 1
K == 1..Length

HasD3D12 == setting.world = 2 /\ setting.d3d12
HasRccl == setting.rccl
HasShm == setting.world = 2 /\ ~HasRccl /\ ~HasD3D12

(***************************************************************************)
(* Construction.  Each back-end is built by a fixed sequence of steps:     *)
(* "local" ones only this rank takes part in, "source" ones wait for rank  *)
(* 0's broadcast, "meet" ones wait for everybody, and at a "vote" all ranks*)
(* raise if one of them has failed before it.                              *)
(***************************************************************************)
TransportSteps == <<"local">>
D3D12Steps == <<"local", "source", "local", "vote", "vote">>
RcclSteps == IF setting.world = 1 THEN <<"local">> ELSE <<"local", "source", "meet">>
ShmSteps == <<"local", "source", "local", "meet", "meet">>

Steps ==
  TransportSteps \o (IF HasD3D12 THEN D3D12Steps ELSE <<>>)
                 \o (IF HasRccl THEN RcclSteps ELSE <<>>)
                 \o (IF HasShm THEN ShmSteps ELSE <<>>)

Backends == {b \in {"d3d12", "rccl", "shm"} :
               \/ b = "d3d12" /\ HasD3D12
               \/ b = "rccl" /\ HasRccl /\ setting.world > 1
               \/ b = "shm" /\ HasShm}

\* Whom rank r waits for at a construction step of this kind.
Awaited(kind) == IF kind = "source" THEN {0} ELSE Ranks

MayFail == Cardinality(failed) < MaxFaults
Fails(r) == MayFail /\ failed' = failed \cup {r}

\* A check that only logs, so that nobody learns of the error.
SwallowError(r) == pc' = [pc EXCEPT ![r] = "done"]

\* A failed check raises, and the exception ends the worker.
Raise(r) == pc' = [pc EXCEPT ![r] = "raised"]

\* r gets through a construction step; after the last one __init__ returns.
Pass(r, i) ==
  /\ passed' = [passed EXCEPT ![r] = i]
  /\ IF i = Len(Steps)
     THEN /\ pc' = [pc EXCEPT ![r] = "idle"]
          /\ open' = [open EXCEPT ![r] = Backends]
     ELSE UNCHANGED <<pc, open>>

\* Library loads, argument checks, buffer and HIP calls.
BuildLocal(r) ==
  LET i == passed[r] + 1 IN
  /\ pc[r] = "building" /\ Steps[i] = "local"
  /\ arrived' = [arrived EXCEPT ![r] = Append(@, "ok")]
  /\ \/ Pass(r, i) /\ UNCHANGED failed
     \/ Raise(r) /\ Fails(r) /\ UNCHANGED <<passed, open>>
  /\ UNCHANGED <<engine, left, next, queue, tensors, posts>>

\* A rank brings one contribution to each step it takes with others.
CastVote(r, i) == Steps[i] # "local" /\ Len(arrived[r]) < i

\* r comes to a step it takes with others; before a vote its part may have failed.
Arrive(r) ==
  LET i == passed[r] + 1 IN
  /\ pc[r] = "building" /\ CastVote(r, i)
  /\ \/ arrived' = [arrived EXCEPT ![r] = Append(@, "ok")] /\ UNCHANGED failed
     \/ /\ Steps[i] = "vote" /\ Fails(r)
        /\ arrived' = [arrived EXCEPT ![r] = Append(@, "error")]
  /\ UNCHANGED <<engine, pc, passed, left, open, next, queue, tensors, posts>>

\* The others are there: r goes on, or raises because it was outvoted or because
\* the call itself (ncclCommInitRank, a barrier) fails on this rank.
Meet(r) ==
  LET i == passed[r] + 1
      outvoted == Steps[i] = "vote" /\ \E s \in Ranks : arrived[s][i] = "error"
  IN
  /\ pc[r] = "building" /\ Steps[i] # "local" /\ Len(arrived[r]) = i
  /\ \A s \in Awaited(Steps[i]) : Len(arrived[s]) >= i
  /\ \/ ~outvoted /\ Pass(r, i) /\ UNCHANGED failed
     \/ outvoted /\ Raise(r) /\ UNCHANGED <<passed, open, failed>>
     \/ Steps[i] # "vote" /\ Fails(r) /\ Raise(r) /\ UNCHANGED <<passed, open>>
  /\ UNCHANGED <<engine, arrived, left, next, queue, tensors, posts>>

-----------------------------------------------------------------------------
(* Routing. *)

\* can_handle with a limit that differs between the ranks.
CanHandleOwnLimit(r, c) ==
  c.dtype \in Floats /\ 0 < c.bytes /\ MinBytes + r <= c.bytes /\ c.bytes <= MaxBytes

\* D3D12AllReduce.can_handle; r is the rank that asks.  Each rank reads its limits from its
\* own environment, and nothing compares them: that they are equal is assumed.
CanHandle(r, c) ==
  c.dtype \in Floats /\ 0 < c.bytes /\ MinBytes <= c.bytes /\ c.bytes <= MaxBytes

\* The point-to-point half of a hop of the ring that rank r makes.
IsSend(r, c) == (c.op = "hop_out") = (r = 0)
IsHop(c) == c.op \in {"hop_out", "hop_back"}
DefaultDst(r) == (r + 1) % setting.world
DefaultSrc(r) == (r + setting.world - 1) % setting.world

\* The channel the communicator picks for a call.
Route(r, c) ==
  CASE IsHop(c) -> "p2p"
    [] ~IsHop(c) /\ setting.world = 1 -> "self"
    [] c.op = "all_reduce" /\ setting.world > 1 ->
         IF HasD3D12 /\ CanHandle(r, c) THEN "d3d12"
         ELSE IF HasRccl THEN "rccl" ELSE IF HasShm THEN "shm" ELSE "gloo"
    [] c.op = "gather" /\ setting.world > 1 -> "gloo"
    [] OTHER -> IF HasRccl THEN "rccl" ELSE "gloo"

\* _prepare and the scatter check of rccl.py
RcclRefuses(c) == c.dtype \notin RcclTypes \/ (c.op = "reduce_scatter" /\ ~c.even)
\* the scatter check of host_staged.py
GlooRefuses(c) == c.op = "reduce_scatter" /\ ~c.even
\* the argument checks of D3D12AllReduce.all_reduce
D3D12Refuses(c) == c.dtype \notin Floats \/ c.bytes > MaxBytes
ShmRefuses(c) == c.bytes > ShmMaxBytes

Refuses(b, c) ==
  CASE b = "rccl" -> RcclRefuses(c)
    [] b = "gloo" -> GlooRefuses(c)
    [] b = "d3d12" -> D3D12Refuses(c)
    [] b = "shm" -> ShmRefuses(c)
    [] OTHER -> FALSE

\* Does the call keep the host thread until it is done?
HoldsHost(b, c) == b \in {"gloo", "p2p"} \/ (b = "shm" /\ c.dtype \notin Floats)

\* The ranks whose contribution r needs before a call can end.
Needed(r, c) ==
  CASE c.op = "broadcast" -> {r, c.root}
    [] c.op = "gather" -> IF r = c.root THEN Ranks ELSE {r}
    [] OTHER -> Ranks

InRankOrder(v) == <<"cat", [i \in 1..setting.world |-> v[i - 1]]>>
SumOf(v) == <<"sum", {v[s] : s \in Ranks}>>
Chunk(r, v) == <<"chunk", r, {v[s] : s \in Ranks}>>

\* What HostStagedGloo returns to r when the ranks contributed v.
HostResult(r, c, v) ==
  CASE c.op = "all_reduce" -> SumOf(v)
    [] c.op = "all_gather" -> InRankOrder(v)
    [] c.op = "reduce_scatter" -> Chunk(r, v)
    [] c.op = "gather" -> IF r = c.root THEN InRankOrder(v) ELSE Nothing
    [] c.op = "broadcast" -> v[c.root]

\* What RCCL, D3D12 and the mapped-host path leave in the output tensor.
StreamResult(r, c, v) ==
  CASE c.op = "all_reduce" -> SumOf(v)
    [] c.op = "all_gather" -> InRankOrder(v)
    [] c.op = "reduce_scatter" -> Chunk(r, v)
    [] c.op = "broadcast" -> v[c.root]

\* Shape, stride and dtype of a tensor.
BufferKey(c) == <<c.bytes, c.dtype>>

\* _stage_for gives the cached buffer or a new one; here v is copied into it.
Staged(r, c, v) == [stage EXCEPT ![r] = BufferKey(c) :> v @@ @]

\* A copy with non_blocking=True.
CopiesAtOnce(r) == TRUE

\* copy_(non_blocking=False) on the current stream waits for the work before it.
CopiesInOrder(r) == queue[r] = <<>>

\* Every host-staged collective in place.
AlwaysInPlace(c) == TRUE

\* Only broadcast copies the stage back over its argument.
WrittenBack(c) == c.op = "broadcast"

-----------------------------------------------------------------------------
Init ==
  /\ setting \in Settings
  /\ program = <<>> /\ stop = FALSE
  /\ pc = [r \in Ranks |-> "building"]
  /\ arrived = [r \in Ranks |-> <<>>]
  /\ passed = [r \in Ranks |-> 0]
  /\ next = [r \in Ranks |-> 1]
  /\ queue = [r \in Ranks |-> <<>>]
  /\ input = [r \in Ranks |-> [k \in K |-> Junk]]
  /\ result = [r \in Ranks |-> [k \in K |-> Pending]]
  /\ stage = [r \in Ranks |-> <<>>]
  /\ posts = [b \in Channels |-> [r \in Ranks |-> <<>>]]
  /\ open = [r \in Ranks |-> {}]
  /\ left = [r \in Ranks |-> 0]
  /\ failed = {}

\* A host-path call after a stream-path call of SharedMemoryAllReduce: what it
\* returns is the subject of SharedMemoryAllReduce, not of the routing.
MixesShmPaths(p) ==
  HasShm /\ \E i, j \in DOMAIN p :
    /\ i < j /\ p[i].op = "all_reduce" /\ p[j].op = "all_reduce"
    /\ p[i].dtype \in Floats /\ p[j].dtype \notin Floats

\* The engine gives every worker the same next calls ...
Schedule(b) ==
  /\ ~stop
  /\ \E r \in Ranks : pc[r] = "idle" /\ next[r] > Len(program)
  /\ Len(program) + Len(b) <= Length
  /\ \A i \in DOMAIN b : b[i].root < setting.world /\ (IsHop(b[i]) => setting.world > 1)
  /\ ~MixesShmPaths(program \o b)
  /\ program' = program \o b
  /\ UNCHANGED <<setting, stop, pc, construction, next, queue, tensors, posts, failed>>

\* ... until it tells them to shut down.
Stop ==
  /\ ~stop
  /\ \E r \in Ranks : pc[r] = "idle" /\ next[r] > Len(program)
  /\ stop' = TRUE
  /\ UNCHANGED <<setting, program, pc, construction, next, queue, tensors, posts, failed>>

-----------------------------------------------------------------------------
Kernel(k) == [task |-> "kernel", k |-> k]
Collective(b, k) == [task |-> b, k |-> k]

\* A worker reaches its next call: the kernel that computes the input is put on
\* the stream, and the call is refused, put behind it, or begins to block.
Issue(r) ==
  LET k == next[r]
      c == program[k]
      b == Route(r, c)
  IN
  /\ pc[r] = "idle"
  /\ k <= Len(program)
  /\ \/ /\ Refuses(b, c)
        /\ Raise(r)
        /\ result' = [result EXCEPT ![r][k] = Refused]
        /\ UNCHANGED <<next, queue, failed>>
     \/ /\ ~Refuses(b, c) /\ HoldsHost(b, c)
        /\ pc' = [pc EXCEPT ![r] = "copying"]
        /\ queue' = [queue EXCEPT ![r] = Append(@, Kernel(k))]
        /\ UNCHANGED <<next, result, failed>>
     \/ /\ ~Refuses(b, c) /\ ~HoldsHost(b, c)
        /\ queue' = [queue EXCEPT ![r] = @ \o <<Kernel(k), Collective(b, k)>>]
        /\ next' = [next EXCEPT ![r] = k + 1]
        /\ UNCHANGED <<pc, result, failed>>
     \/ /\ ~Refuses(b, c) /\ b # "self"  \* a HIP or RCCL call fails
        /\ Raise(r) /\ Fails(r)
        /\ UNCHANGED <<next, queue, result>>
  /\ UNCHANGED <<engine, construction, input, stage, posts>>

CallOf(r) == program[next[r]]
RouteOf(r) == Route(r, CallOf(r))

\* The input is copied to the stage and its bytes handed to Gloo (for the host
\* path of shm, to the rank's slot); a receive has nothing to copy.
CopyToStage(r) ==
  LET c == CallOf(r)
      v == input[r][next[r]]
  IN
  /\ pc[r] = "copying" /\ CopiesInOrder(r)
  /\ pc' = [pc EXCEPT ![r] = "waiting"]
  /\ IF IsHop(c) /\ ~IsSend(r, c) THEN UNCHANGED <<stage, posts>>
     ELSE /\ stage' = Staged(r, c, v)
          /\ posts' = [posts EXCEPT ![RouteOf(r)][r] = Append(@, v)]
  /\ UNCHANGED <<engine, construction, next, queue, input, result, failed>>

\* The call that blocks rank r has what it waits for.
Returns(r, value) ==
  /\ result' = [result EXCEPT ![r][next[r]] = value]
  /\ next' = [next EXCEPT ![r] = @ + 1]
  /\ pc' = [pc EXCEPT ![r] = "idle"]
  /\ UNCHANGED <<engine, construction, queue, posts, failed>>

\* A host-staged collective ends; all_reduce and broadcast ran in the stage, and
\* broadcast copies it back over its argument.
HostReturn(r) ==
  LET c == CallOf(r)
      b == RouteOf(r)
      n == Len(posts[b][r])
      out == HostResult(r, c, [s \in Needed(r, c) |-> posts[b][s][n]])
  IN
  /\ pc[r] = "waiting" /\ ~IsHop(c)
  /\ \A s \in Needed(r, c) : Len(posts[b][s]) >= n
  /\ stage' = IF c.op \in {"all_reduce", "broadcast"} THEN Staged(r, c, out) ELSE stage
  /\ input' = IF WrittenBack(c) THEN [input EXCEPT ![r][next[r]] = out] ELSE input
  /\ Returns(r, out)

\* The receives rank r has finished, and the messages s has sent to r: s sends
\* all of its messages to DefaultDst(s).
Received(r) == Cardinality({k \in 1..next[r] - 1 : IsHop(program[k]) /\ ~IsSend(r, program[k])})
SentTo(s, r) == IF DefaultDst(s) = r THEN posts["p2p"][s] ELSE <<>>

\* dist.recv completes with the next message from the source ...
RecvReturn(r) ==
  LET mail == SentTo(DefaultSrc(r), r) IN
  /\ pc[r] = "waiting" /\ IsHop(CallOf(r)) /\ ~IsSend(r, CallOf(r))
  /\ Len(mail) > Received(r)
  /\ Returns(r, mail[Received(r) + 1])
  /\ UNCHANGED <<input, stage>>

\* ... and dist.send once the receiver has taken the message.
SendReturn(r) ==
  /\ pc[r] = "waiting" /\ IsHop(CallOf(r)) /\ IsSend(r, CallOf(r))
  /\ Received(DefaultDst(r)) >= Len(SentTo(r, DefaultDst(r)))
  /\ Returns(r, Nothing)
  /\ UNCHANGED <<input, stage>>

\* The GPU executes the head of rank r's stream: a kernel fills an input; a
\* collective first contributes its input and ends when the others have.
Stream(r) ==
  LET t == Head(queue[r])
      c == program[t.k]
      n == Cardinality({j \in 1..t.k : Route(r, program[j]) = t.task})
      v == [s \in Needed(r, c) |-> posts[t.task][s][n]]
  IN
  /\ queue[r] # <<>>
  /\ \/ /\ t.task = "kernel"
        /\ input' = [input EXCEPT ![r][t.k] = Tensor(r, t.k)]
        /\ queue' = [queue EXCEPT ![r] = Tail(@)]
        /\ UNCHANGED <<result, posts>>
     \/ /\ t.task # "kernel" /\ Len(posts[t.task][r]) < n
        /\ posts' = [posts EXCEPT ![t.task][r] = Append(@, input[r][t.k])]
        /\ UNCHANGED <<input, result, queue>>
     \/ /\ t.task # "kernel" /\ Len(posts[t.task][r]) = n
        /\ \A s \in Needed(r, c) : Len(posts[t.task][s]) >= n
        /\ result' = [result EXCEPT ![r][t.k] =
                        IF t.task = "self" THEN v[r] ELSE StreamResult(r, c, v)]
        /\ queue' = [queue EXCEPT ![r] = Tail(@)]
        /\ UNCHANGED <<input, posts>>
  /\ UNCHANGED <<engine, pc, construction, next, stage, failed>>

-----------------------------------------------------------------------------
(* Shutdown. *)

\* destroy() that closes the heaps without waiting for anybody.
DestroyAtOnce ==
  (IF HasD3D12 THEN <<"d3d12">> ELSE <<>>)
    \o (IF HasRccl /\ setting.world > 1 THEN <<"sync", "rccl">> ELSE <<>>)
    \o (IF HasShm THEN <<"sync", "meet", "shm">> ELSE <<>>)

\* destroy(): D3D12 synchronizes, meets the peer and closes; RCCL synchronizes
\* and destroys; shared memory synchronizes, meets the peer and closes.
DestroySteps ==
  (IF HasD3D12 THEN <<"sync", "meet", "d3d12">> ELSE <<>>)
    \o (IF HasRccl /\ setting.world > 1 THEN <<"sync", "rccl">> ELSE <<>>)
    \o (IF HasShm THEN <<"sync", "meet", "shm">> ELSE <<>>)

Leaving(r) == pc[r] = "idle" /\ stop /\ next[r] > Len(program)

\* The next step of destroy(); when it raises, the steps behind it are skipped.
Destroy(r) ==
  LET i == left[r] + 1
      s == DestroySteps[i]
  IN
  /\ Leaving(r) /\ i <= Len(DestroySteps)
  /\ s = "sync" => queue[r] = <<>>
  /\ s = "meet" => \A t \in Ranks : left[t] >= left[r]
  /\ \/ /\ open' = [open EXCEPT ![r] = @ \ {s}]
        /\ left' = [left EXCEPT ![r] = i]
        /\ UNCHANGED <<pc, failed>>
     \/ Raise(r) /\ Fails(r) /\ UNCHANGED <<open, left>>
  /\ UNCHANGED <<engine, arrived, passed, next, queue, tensors, posts>>

Exit(r) ==
  /\ Leaving(r) /\ left[r] = Len(DestroySteps)
  /\ pc' = [pc EXCEPT ![r] = "done"]
  /\ UNCHANGED <<engine, construction, next, queue, tensors, posts, failed>>

\* The peers the host thread of r is waiting for, in Gloo, the RCCL bootstrap
\* or the barrier of the mapped-host path.
WaitsFor(r) ==
  CASE pc[r] = "building" /\ Len(arrived[r]) > passed[r] ->
         Awaited(Steps[Len(arrived[r])])
    [] pc[r] = "waiting" ->
         IF ~IsHop(CallOf(r)) THEN Needed(r, CallOf(r))
         ELSE {IF IsSend(r, CallOf(r)) THEN DefaultDst(r) ELSE DefaultSrc(r)}
    [] Leaving(r) /\ left[r] < Len(DestroySteps) ->
         IF DestroySteps[left[r] + 1] = "meet" THEN Ranks ELSE {}
    [] OTHER -> {}

\* One of them has ended with an exception: the connection closes or the barrier
\* times out, and r raises too.  Work on a stream is not released this way.
PeerGone(r) ==
  /\ \E s \in WaitsFor(r) : pc[s] = "raised"
  /\ Raise(r)
  /\ UNCHANGED <<engine, construction, next, queue, tensors, posts, failed>>

Host(r) ==
  \/ BuildLocal(r) \/ Arrive(r) \/ Meet(r)
  \/ Issue(r) \/ CopyToStage(r) \/ HostReturn(r) \/ RecvReturn(r) \/ SendReturn(r)
  \/ Destroy(r) \/ Exit(r) \/ PeerGone(r)

Next ==
  \/ \E b \in Blocks : Schedule(b)
  \/ Stop
  \/ \E r \in Ranks : Host(r) \/ Stream(r)

Spec == Init /\ [][Next]_vars

(***************************************************************************)
(* A worker's thread goes on while it can, the GPU of a live worker works  *)
(* off its stream, and the engine shuts idle workers down.  No actor can   *)
(* move for ever in a bounded workload, so one condition on all of them    *)
(* says as much as one condition each.                                     *)
(***************************************************************************)
Fairness ==
  WF_vars(Stop \/ \E r \in Ranks : Host(r) \/ (pc[r] # "raised" /\ Stream(r)))

FairSpec == Spec /\ Fairness

-----------------------------------------------------------------------------
\* What the k-th call must give rank r, said without naming a back-end.
Expected(r, k) ==
  LET c == program[k]
      in == [s \in Ranks |-> Tensor(s, k)]
  IN
  CASE IsHop(c) ->
         IF IsSend(r, c) THEN Nothing
         ELSE IF r < 2 THEN Tensor(DefaultSrc(r), k) ELSE Tensor(r - 1, k + 1)
    [] ~IsHop(c) /\ setting.world = 1 -> in[r]
    [] c.op = "broadcast" /\ setting.world > 1 -> in[c.root]
    [] c.op = "gather" /\ setting.world > 1 /\ r # c.root -> Nothing
    [] c.op \in {"all_gather", "gather"} /\ setting.world > 1 /\ (c.op = "gather" => r = c.root) ->
         <<"cat", [i \in 1..setting.world |-> in[i - 1]]>>
    [] c.op = "all_reduce" /\ setting.world > 1 -> <<"sum", {in[s] : s \in Ranks}>>
    [] c.op = "reduce_scatter" /\ setting.world > 1 -> <<"chunk", r, {in[s] : s \in Ranks}>>

\* Every tensor a collective returns holds the collective of all ranks' inputs of
\* that very call, whichever back-end served it, whatever was still on the
\* streams, and whatever failed elsewhere; and a call is refused on every rank or
\* on none, so the channels of vllm_communicator.py stay in step.
ResultsAreCollective ==
  \A k \in 1..Len(program) :
    /\ \A r \in Ranks : result[r][k] \in {Pending, Refused, Expected(r, k)}
    /\ (\E r \in Ranks : result[r][k] = Refused) =>
         \A r \in Ranks : result[r][k] \in {Pending, Refused}

\* A collective leaves its argument alone, except that the host-staged broadcast
\* (host_staged.py) writes the source's data over it.
InputsKept ==
  \A r \in Ranks, k \in 1..Len(program) :
    input[r][k] \in {Junk, Tensor(r, k)} \cup
      (IF program[k].op = "broadcast" /\ Route(r, program[k]) = "gloo"
       THEN {Tensor(program[k].root, k)} ELSE {})

\* destroy() gives up a back-end only when no work of its own stream needs it and,
\* for the memory a peer's GPU reads (D3D12 heaps, the shared mapping), no work of
\* the peer's stream either.
NoUseAfterDestroy ==
  \A r, s \in Ranks : \A b \in Backends :
    (/\ left[r] > 0 /\ b \notin open[r]
     /\ r = s \/ b # "rccl"
     /\ pc[s] # "raised")
      => \A i \in DOMAIN queue[s] : queue[s][i].task # b

\* Whatever fails while the communicators are built, no worker stays in __init__.
ConstructionEnds == <>(\A r \in Ranks : pc[r] # "building")

\* As long as no local call fails, every worker gets through its workload and
\* through destroy, or refuses the same call as the others.
WorkersFinish ==
  <>(failed # {} \/ \A r \in Ranks : pc[r] \in {"done", "raised"})
=============================================================================
