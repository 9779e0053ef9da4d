--------------------------- MODULE D3D12AllReduce ---------------------------
(***************************************************************************)
(* D3D12AllReduce (d3d12_all_reduce.py): a SUM over two ranks, each in a   *)
(* process and on a GPU of its own.  Every rank creates one cross-adapter  *)
(* heap with a fence and opens its peer's.  all_reduce only ENQUEUES six   *)
(* operations on the caller's HIP stream; the GPU executes them later:     *)
(*                                                                         *)
(*    1 copy    the tensor into the rank's own heap                        *)
(*    2 signal  the own fence with 2e-1        (ready)                     *)
(*    3 wait    for the peer's fence >= 2e-1                               *)
(*    4 add     the peer's heap to the tensor, into the output             *)
(*    5 signal  the peer's fence with 2e       (consumed)                  *)
(*    6 wait    for the own fence >= 2e                                    *)
(*                                                                         *)
(* A fence signal SETS the fence; nothing in D3D12 keeps it from going     *)
(* back.  A payload is known by the epoch (the number of the call) that    *)
(* wrote it; an output by the peer payload that went into it.              *)
(***************************************************************************)
EXTENDS Naturals

CONSTANTS Calls,     \* all-reduces the workload makes on each rank
          Streams,   \* HIP streams a caller may have current
          MayFail    \* may create, open or an enqueued operation raise?

ASSUME D3D12Assumption ==
  Calls \in Nat /\ Streams # {} /\ MayFail \in BOOLEAN

Rank == {0, 1}
Peer(r) == 1 - r
Epoch == 1..Calls

VARIABLES
  phase,   \* where the Python object of the rank is in its life
  vote,    \* per rank, what it contributed to the two agreements
  own,     \* the ranks that hold the heap they created
  peer,    \* the ranks that hold their import of the peer's heap
  epoch,   \* calls started (self._epoch)
  queued,  \* per call, how many of its operations the host has enqueued
  done,    \* per call, how many of its operations the GPU has executed
  stream,  \* per call, the stream that was current
  mixed,   \* ranks that made a call beside one unfinished on another stream
  failed,  \* calls that raised after the epoch was advanced
  heap,    \* per rank, the epoch whose payload its heap holds
  fence,   \* per rank, the value of its fence
  output   \* per call, the epoch of the peer payload that was added; 0 = none

host == <<phase, vote, own, peer>>
calls == <<epoch, queued, stream, mixed, failed>>
gpu == <<done, heap, fence, output>>
vars == <<host, calls, gpu>>

Init ==
  /\ phase = [r \in Rank |-> "new"]
  /\ vote = [r \in Rank |-> [round \in {1, 2} |-> "none"]]
  /\ own = {}
  /\ peer = {}
  /\ epoch = [r \in Rank |-> 0]
  /\ queued = [r \in Rank |-> [e \in Epoch |-> 0]]
  /\ done = [r \in Rank |-> [e \in Epoch |-> 0]]
  /\ stream = [r \in Rank |-> [e \in Epoch |-> "none"]]
  /\ mixed = {}
  /\ failed = [r \in Rank |-> {}]
  /\ heap = [r \in Rank |-> 0]
  /\ fence = [r \in Rank |-> 0]
  /\ output = [r \in Rank |-> [e \in Epoch |-> 0]]
-----------------------------------------------------------------------------
(* The D3D12 layer: a rank creates a heap and a fence, imports the peer's   *)
(* (possible while the peer holds them) and closes both.                    *)
CreateBuffer(r, ok) ==
  /\ ok \/ MayFail
  /\ own' = IF ok THEN own \cup {r} ELSE own

OpenBuffer(r, ok) ==
  /\ ok => Peer(r) \in own
  /\ ok \/ MayFail \/ Peer(r) \notin own
  /\ peer' = IF ok THEN peer \cup {r} ELSE peer

CloseBuffers(r) == own' = own \ {r} /\ peer' = peer \ {r}

\* A signal sets the fence of rank q; a wait is over once it has the value.
SetFence(q, value) == fence' = [fence EXCEPT ![q] = value]
FenceReached(q, value) == fence[q] >= value
-----------------------------------------------------------------------------
\* __init__, lines before the broadcast: a check of the rank's own arguments, device or
\* environment raises.  If that is rank 0, rank 1 is left without the name.
Refuse(r) ==
  /\ MayFail
  /\ phase[r] = "new"
  /\ phase' = [phase EXCEPT ![r] = "refused"]
  /\ UNCHANGED <<vote, own, peer, calls, gpu>>

\* broadcast_object_list: rank 0 chooses the name of the heaps, rank 1 waits for it.
TakeName(r) ==
  /\ phase[r] = "new"
  /\ r = 1 => phase[0] \notin {"new", "refused"}
  /\ phase' = [phase EXCEPT ![r] = "named"]
  /\ UNCHANGED <<vote, own, peer, calls, gpu>>

\* HipRuntime() or MappedPeerKernel() raises: outside the try statement, so the rank
\* leaves without a vote.
LoadFails(r) ==
  /\ MayFail
  /\ phase[r] = "named"
  /\ phase' = [phase EXCEPT ![r] = "unloaded"]
  /\ UNCHANGED <<vote, own, peer, calls, gpu>>

\* Defect: an exception of the heap's creation is raised before the agreement.
CreateOwnRaises(r, ok) ==
  /\ phase[r] = "named"
  /\ CreateBuffer(r, ok)
  /\ vote' = [vote EXCEPT ![r][1] = IF ok THEN "ok" ELSE @]
  /\ phase' = [phase EXCEPT ![r] = IF ok THEN "created" ELSE "raised"]
  /\ UNCHANGED <<peer, calls, gpu>>

(* __init__ up to the first agreement: the libraries are loaded, and the    *)
(* own heap and fence created under the broadcast name; an exception of the *)
(* latter is kept and becomes the rank's vote.                              *)
CreateOwn(r, ok) ==
  /\ phase[r] = "named"
  /\ CreateBuffer(r, ok)
  /\ vote' = [vote EXCEPT ![r][1] = IF ok THEN "ok" ELSE "error"]
  /\ phase' = [phase EXCEPT ![r] = "created"]
  /\ UNCHANGED <<peer, calls, gpu>>

\* Defect: each rank goes by its own vote.
AgreeWithSelf(r, round, before, after) ==
  /\ phase[r] = before
  /\ \A q \in Rank : vote[q][round] # "none"
  /\ IF vote[r][round] = "ok"
       THEN /\ phase' = [phase EXCEPT ![r] = after]
            /\ UNCHANGED <<own, peer>>
       ELSE /\ phase' = [phase EXCEPT ![r] = "raised"]
            /\ CloseBuffers(r)
  /\ UNCHANGED <<vote, calls, gpu>>

(* _agree_or_raise: a MIN all-reduce over the CPU group returns when both   *)
(* ranks have voted; one error makes both ranks close what they hold and    *)
(* raise.                                                                   *)
AgreeOrRaise(r, round, before, after) ==
  /\ phase[r] = before
  /\ \A q \in Rank : vote[q][round] # "none"
  /\ IF \A q \in Rank : vote[q][round] = "ok"
       THEN /\ phase' = [phase EXCEPT ![r] = after]
            /\ UNCHANGED <<own, peer>>
       ELSE /\ phase' = [phase EXCEPT ![r] = "raised"]
            /\ CloseBuffers(r)
  /\ UNCHANGED <<vote, calls, gpu>>

(* __init__ up to the second agreement: import the peer's heap by name,     *)
(* which fails when no such object exists (any more).                       *)
OpenPeer(r, ok) ==
  /\ phase[r] = "agreed"
  /\ OpenBuffer(r, ok)
  /\ vote' = [vote EXCEPT ![r][2] = IF ok THEN "ok" ELSE "error"]
  /\ phase' = [phase EXCEPT ![r] = "opened"]
  /\ UNCHANGED <<own, calls, gpu>>

(* all_reduce, once its checks have passed: the epoch advances and the      *)
(* caller's current stream is taken.                                        *)
BeginCall(r, s) ==
  /\ phase[r] = "ready"
  /\ epoch[r] < Calls
  /\ epoch' = [epoch EXCEPT ![r] = @ + 1]
  /\ stream' = [stream EXCEPT ![r][epoch[r] + 1] = s]
  /\ mixed' = IF \E f \in 1..epoch[r] :
                    stream[r][f] # s /\ done[r][f] # queued[r][f]
                THEN mixed \cup {r} ELSE mixed
  /\ phase' = [phase EXCEPT ![r] = "calling"]
  /\ UNCHANGED <<vote, own, peer, queued, failed, gpu>>

\* all_reduce hands the next of its six operations to the stream, and
\* returns after the last.
Enqueue(r) ==
  /\ phase[r] = "calling"
  /\ queued' = [queued EXCEPT ![r][epoch[r]] = @ + 1]
  /\ phase' = [phase EXCEPT ![r] =
                  IF queued[r][epoch[r]] = 5 THEN "ready" ELSE @]
  /\ UNCHANGED <<vote, own, peer, epoch, stream, mixed, failed, gpu>>

\* all_reduce raises between two of its operations.  What is on the stream
\* stays there, the epoch stays advanced and the object stays usable.
FailCall(r) ==
  /\ MayFail
  /\ phase[r] = "calling"
  /\ failed' = [failed EXCEPT ![r] = @ \cup {epoch[r]}]
  /\ phase' = [phase EXCEPT ![r] = "ready"]
  /\ UNCHANGED <<vote, own, peer, epoch, queued, stream, mixed, gpu>>

\* destroy, first line: torch.cuda.synchronize drains every stream.
Synchronize(r) ==
  /\ phase[r] = "ready"
  /\ epoch[r] = Calls \/ failed[r] # {}
  /\ done[r] = queued[r]
  /\ phase' = [phase EXCEPT ![r] = "drained"]
  /\ UNCHANGED <<vote, own, peer, calls, gpu>>

\* Defect: destroy closes without waiting for the peer.
CloseAlone(r) ==
  /\ phase[r] = "drained"
  /\ CloseBuffers(r)
  /\ phase' = [phase EXCEPT ![r] = "closed"]
  /\ UNCHANGED <<vote, calls, gpu>>

\* destroy, the rest: dist.barrier, then both buffers are closed.
BarrierAndClose(r) ==
  /\ phase[r] = "drained"
  /\ phase[Peer(r)] \in {"drained", "closed"}
  /\ CloseBuffers(r)
  /\ phase' = [phase EXCEPT ![r] = "closed"]
  /\ UNCHANGED <<vote, calls, gpu>>
-----------------------------------------------------------------------------
\* The GPU is about to execute the k-th operation of call e: it is enqueued,
\* and so is nothing older on the same stream that is not executed.
Turn(r, e, k) ==
  /\ done[r][e] = k - 1
  /\ queued[r][e] >= k
  /\ \A f \in 1..(e - 1) :
       stream[r][f] = stream[r][e] => done[r][f] = queued[r][f]

Advance(r, e) == done' = [done EXCEPT ![r][e] = @ + 1]

Copy(r, e) ==
  /\ Turn(r, e, 1)
  /\ heap' = [heap EXCEPT ![r] = e]
  /\ Advance(r, e)
  /\ UNCHANGED <<host, calls, fence, output>>

\* Defect: the ready value of the call before.
SignalReadyLate(r, e) ==
  /\ Turn(r, e, 2)
  /\ SetFence(r, 2 * (e - 1))
  /\ Advance(r, e)
  /\ UNCHANGED <<host, calls, heap, output>>

SignalReady(r, e) ==
  /\ Turn(r, e, 2)
  /\ SetFence(r, 2 * e - 1)
  /\ Advance(r, e)
  /\ UNCHANGED <<host, calls, heap, output>>

\* Defect: the peer's payload is not waited for.
SkipWaitReady(r, e) ==
  /\ Turn(r, e, 3)
  /\ Advance(r, e)
  /\ UNCHANGED <<host, calls, heap, fence, output>>

WaitReady(r, e) ==
  /\ Turn(r, e, 3)
  /\ FenceReached(Peer(r), 2 * e - 1)
  /\ Advance(r, e)
  /\ UNCHANGED <<host, calls, heap, fence, output>>

Add(r, e) ==
  /\ Turn(r, e, 4)
  /\ output' = [output EXCEPT ![r][e] = heap[Peer(r)]]
  /\ Advance(r, e)
  /\ UNCHANGED <<host, calls, heap, fence>>

\* Defect: the consumed value of the next call.
SignalConsumedEarly(r, e) ==
  /\ Turn(r, e, 5)
  /\ SetFence(Peer(r), 2 * e + 1)
  /\ Advance(r, e)
  /\ UNCHANGED <<host, calls, heap, output>>

SignalConsumed(r, e) ==
  /\ Turn(r, e, 5)
  /\ SetFence(Peer(r), 2 * e)
  /\ Advance(r, e)
  /\ UNCHANGED <<host, calls, heap, output>>

\* Defect: the heap is reused before the peer has read it.
SkipWaitConsumed(r, e) ==
  /\ Turn(r, e, 6)
  /\ Advance(r, e)
  /\ UNCHANGED <<host, calls, heap, fence, output>>

WaitConsumed(r, e) ==
  /\ Turn(r, e, 6)
  /\ FenceReached(r, 2 * e)
  /\ Advance(r, e)
  /\ UNCHANGED <<host, calls, heap, fence, output>>
-----------------------------------------------------------------------------
Host(r) ==
  \/ Refuse(r) \/ TakeName(r) \/ LoadFails(r)
  \/ \E ok \in BOOLEAN : CreateOwn(r, ok) \/ OpenPeer(r, ok)
  \/ AgreeOrRaise(r, 1, "created", "agreed")
  \/ AgreeOrRaise(r, 2, "opened", "ready")
  \/ \E s \in Streams : BeginCall(r, s)
  \/ Enqueue(r)
  \/ FailCall(r)
  \/ Synchronize(r)
  \/ BarrierAndClose(r)

Gpu(r, e) ==
  \/ Copy(r, e) \/ SignalReady(r, e) \/ WaitReady(r, e)
  \/ Add(r, e) \/ SignalConsumed(r, e) \/ WaitConsumed(r, e)

Next == \E r \in Rank : Host(r) \/ \E e \in Epoch : Gpu(r, e)

Spec == Init /\ [][Next]_vars

\* The workload goes on to its end on both ranks, and a GPU executes an
\* operation that is at the head of its stream and not waiting.
Fairness ==
  \A r \in Rank :
    /\ WF_vars(Host(r))
    /\ \A e \in Epoch : WF_vars(Gpu(r, e))

FairSpec == Spec /\ Fairness
-----------------------------------------------------------------------------
\* The values every variable takes.
TypeOK ==
  /\ phase \in [Rank -> {"new", "refused", "named", "unloaded", "created", "agreed",
                         "opened", "ready", "calling", "drained", "closed", "raised"}]
  /\ vote \in [Rank -> [{1, 2} -> {"none", "ok", "error"}]]
  /\ own \subseteq Rank
  /\ peer \subseteq Rank
  /\ epoch \in [Rank -> 0..Calls]
  /\ queued \in [Rank -> [Epoch -> 0..6]]
  /\ done \in [Rank -> [Epoch -> 0..6]]
  /\ stream \in [Rank -> [Epoch -> Streams \cup {"none"}]]
  /\ mixed \subseteq Rank
  /\ failed \in [Rank -> SUBSET Epoch]
  /\ heap \in [Rank -> 0..Calls]
  /\ fence \in [Rank -> 0..(2 * Calls)]
  /\ output \in [Rank -> [Epoch -> 0..Calls]]

\* No call up to e has raised half-way, on either rank.
CleanUpTo(e) == \A r \in Rank : \A f \in failed[r] : f > e

\* all_reduce returns the sum of the two tensors of the SAME call: what the
\* add kernel of call e reads from the peer's heap is the peer's payload of
\* call e.  It takes a caller that lets the collectives on one stream finish
\* before it makes the next call on another; and a call that raises half-way
\* can spoil its own epoch and later ones, never an earlier one.
SumOfSameCall ==
  \A r \in Rank, e \in Epoch :
    mixed = {} /\ CleanUpTo(e) => output[r][e] \in {0, e}

\* A heap is never overwritten while it may be read: the copy of a rank and
\* the add of its peer are never both at the head of their streams.
HeapExclusive ==
  \A r \in Rank, e, f \in Epoch :
    mixed = {} /\ CleanUpTo(f) => ~(Turn(r, e, 1) /\ Turn(Peer(r), f, 4))

\* Fences only grow, although both GPUs set both of them: a signal that took
\* a fence back would swallow the one a wait is for.
FenceMonotone ==
  [][mixed = {} /\ CleanUpTo(Calls)
       => \A r \in Rank : fence'[r] >= fence[r]]_vars

\* Nothing enqueued by a rank outlives the memory it works on: while a GPU
\* has operations left, its rank holds both heaps and the peer still holds
\* the heap it created.
NoUseAfterClose ==
  \A r \in Rank :
    done[r] # queued[r] => Rank \subseteq own /\ r \in peer

\* The ranks whose constructor raised before it could vote, and all whose constructor
\* raised.
GaveUp == {r \in Rank : phase[r] \in {"refused", "unloaded"}}
Raised == GaveUp \cup {r \in Rank : phase[r] = "raised"}

\* No rank has an object while the constructor of the other raised, whether that one
\* could vote or not.
ConstructorAgrees ==
  \A r \in Rank :
    phase[r] \in {"ready", "calling", "drained", "closed"} => Peer(r) \notin Raised

\* A create or open that fails on one rank does not leave the other waiting in the
\* constructor: only a peer that raised before its try statement does.
ConstructorReturns ==
  \A r \in Rank :
    <>(phase[r] \notin {"new", "named", "created", "agreed", "opened"} \/ Peer(r) \in GaveUp)

\* A call has raised half-way, or was made beside one unfinished elsewhere.
Broken == mixed # {} \/ \E r \in Rank : failed[r] # {}

\* The workload drains: every enqueued all-reduce completes on both GPUs and
\* destroy returns on both ranks, unless the constructor or a call raised.
WorkloadCompletes ==
  <>((\A r \in Rank : phase[r] = "closed") \/ Raised # {} \/ Broken)

\* The detailed protocol implements the two-rank all-reduce: a rank gives
\* its payload with the copy and gets its result with the add.
Abstract == INSTANCE PairAllReduce WITH
  given <- heap, result <- output, broken <- Broken
Implements == Abstract!Spec
=============================================================================
