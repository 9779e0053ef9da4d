---------------------------- MODULE TensorBridge ----------------------------
(***************************************************************************)
(* D3D12TensorBridge (d3d12_transfer.py): threads of one process copy      *)
(* tensors from one GPU to another through one shared heap and one fence.  *)
(* transfer() holds a lock while it enqueues six operations, numbered in   *)
(* the order in which they are enqueued:                                   *)
(*                                                                         *)
(*    on the caller's source stream    1 copy   the tensor into the heap   *)
(*                                     2 signal 2e-1        (ready)        *)
(*    on the destination's default     3 wait   for 2e-1                   *)
(*    stream                           4 copy   the heap into the result   *)
(*                                     5 signal 2e          (consumed)     *)
(*    on the caller's source stream    6 wait   for 2e                     *)
(*                                                                         *)
(* The lock orders the enqueues.  What orders the copies is the streams.   *)
(* A payload is known by the number of the transfer that wrote it.         *)
(***************************************************************************)
EXTENDS Naturals, FiniteSets

CONSTANTS Threads,   \* the threads that share the bridge
          Streams,   \* the source streams they may have current
          MaxCalls,  \* bound: how often each thread calls transfer()
          MayFail    \* may the construction or an enqueue raise?

ASSUME BridgeAssumption ==
  /\ IsFiniteSet(Threads) /\ "none" \notin Threads
  /\ Streams # {} /\ MaxCalls \in Nat /\ MayFail \in BOOLEAN

Epoch == 1..(Cardinality(Threads) * MaxCalls)
Op == 1..6
SourceOps == {1, 2, 6}
DestinationOps == {3, 4, 5}

VARIABLES
  bridge,  \* the two shared buffers: "new", "open", "closed", or "failed" if
           \* __init__ raised
  lock,    \* the thread that holds self._lock, or "none"
  pc,      \* where each thread is
  calls,   \* calls of transfer() each thread has made
  epoch,   \* self._epoch
  queued,  \* per transfer, how many of its operations are enqueued
  stream,  \* per transfer, the source stream that was current
  failed,  \* transfers that raised
  done,    \* per transfer, the operations the GPUs have executed
  heap,    \* the transfer whose payload the heap holds
  fence,   \* the value of the fence
  result   \* per transfer, the payload that was copied out; 0 = none yet

threads == <<bridge, lock, pc, calls>>
enqueued == <<epoch, queued, stream, failed>>
gpu == <<done, heap, fence, result>>
vars == <<threads, enqueued, gpu>>

Init ==
  /\ bridge = "new"
  /\ lock = "none"
  /\ pc = [t \in Threads |-> "out"]
  /\ calls = [t \in Threads |-> 0]
  /\ epoch = 0
  /\ queued = [e \in Epoch |-> 0]
  /\ stream = [e \in Epoch |-> "none"]
  /\ failed = {}
  /\ done = [e \in Epoch |-> {}]
  /\ heap = 0
  /\ fence = 0
  /\ result = [e \in Epoch |-> 0]
-----------------------------------------------------------------------------
\* __init__: both buffers are made, or what was made is closed again and no
\* thread ever has the object.
Construct(ok) ==
  /\ bridge = "new"
  /\ ok \/ MayFail
  /\ bridge' = IF ok THEN "open" ELSE "failed"
  /\ UNCHANGED <<lock, pc, calls, enqueued, gpu>>

\* transfer(): the check for a closed bridge, before the lock is taken.
Check(t) ==
  /\ bridge \in {"open", "closed"}
  /\ pc[t] = "out"
  /\ calls[t] < MaxCalls
  /\ calls' = [calls EXCEPT ![t] = @ + 1]
  /\ pc' = [pc EXCEPT ![t] = IF bridge = "open" THEN "checked" ELSE @]
  /\ UNCHANGED <<bridge, lock, enqueued, gpu>>

\* Defect: the lock is taken and released by hand, and an exception skips the
\* release.
BeginKeepsLock(t, s) ==
  /\ pc[t] = "checked"
  /\ lock = "none"
  /\ epoch' = epoch + 1
  /\ stream' = [stream EXCEPT ![epoch + 1] = s]
  /\ lock' = t
  /\ IF bridge = "open"
       THEN /\ pc' = [pc EXCEPT ![t] = "enqueuing"]
            /\ UNCHANGED failed
       ELSE /\ pc' = [pc EXCEPT ![t] = "out"]
            /\ failed' = failed \cup {epoch + 1}
  /\ UNCHANGED <<bridge, calls, queued, gpu>>

\* transfer() with the lock: the epoch advances.  If the bridge was closed
\* since the check, the first use of a buffer raises and the lock is released.
Begin(t, s) ==
  /\ pc[t] = "checked"
  /\ lock = "none"
  /\ epoch' = epoch + 1
  /\ stream' = [stream EXCEPT ![epoch + 1] = s]
  /\ IF bridge = "open"
       THEN /\ lock' = t
            /\ pc' = [pc EXCEPT ![t] = "enqueuing"]
            /\ UNCHANGED failed
       ELSE /\ pc' = [pc EXCEPT ![t] = "out"]
            /\ failed' = failed \cup {epoch + 1}
            /\ UNCHANGED lock
  /\ UNCHANGED <<bridge, calls, queued, gpu>>

\* Defect: one operation too many.
EnqueueSeven(t) ==
  /\ pc[t] = "enqueuing"
  /\ queued' = [queued EXCEPT ![epoch] = @ + 1]
  /\ IF queued[epoch] = 6
       THEN lock' = "none" /\ pc' = [pc EXCEPT ![t] = "out"]
       ELSE UNCHANGED <<lock, pc>>
  /\ UNCHANGED <<bridge, calls, epoch, stream, failed, gpu>>

\* transfer() enqueues the next of its operations; it returns after the last.
Enqueue(t) ==
  /\ pc[t] = "enqueuing"
  /\ queued' = [queued EXCEPT ![epoch] = @ + 1]
  /\ IF queued[epoch] = 5
       THEN lock' = "none" /\ pc' = [pc EXCEPT ![t] = "out"]
       ELSE UNCHANGED <<lock, pc>>
  /\ UNCHANGED <<bridge, calls, epoch, stream, failed, gpu>>

\* transfer() raises between two operations: the lock is released, the epoch
\* stays advanced, and what is on the streams stays there.
FailTransfer(t) ==
  /\ MayFail
  /\ pc[t] = "enqueuing"
  /\ failed' = failed \cup {epoch}
  /\ lock' = "none"
  /\ pc' = [pc EXCEPT ![t] = "out"]
  /\ UNCHANGED <<bridge, calls, epoch, queued, stream, gpu>>

\* close(): nothing to do on a closed bridge.
StartClose(t) ==
  /\ pc[t] = "out"
  /\ bridge = "open"
  /\ pc' = [pc EXCEPT ![t] = "closing"]
  /\ UNCHANGED <<bridge, lock, calls, enqueued, gpu>>

\* close() takes the lock, behind which nothing more can be enqueued.
LockClose(t) ==
  /\ pc[t] = "closing"
  /\ lock = "none"
  /\ lock' = t
  /\ pc' = [pc EXCEPT ![t] = "draining"]
  /\ UNCHANGED <<bridge, calls, enqueued, gpu>>

\* The enqueued operations in ops that are not executed yet.
Pending(ops) == {e \in Epoch : \E k \in ops : k <= queued[e] /\ k \notin done[e]}

\* Defect: only the source device is synchronized.
FinishCloseEarly(t) ==
  /\ pc[t] = "draining"
  /\ Pending(SourceOps) = {}
  /\ bridge' = "closed"
  /\ lock' = "none"
  /\ pc' = [pc EXCEPT ![t] = "out"]
  /\ UNCHANGED <<calls, enqueued, gpu>>

\* close(): both devices are synchronized, then both buffers are closed - by
\* a second close() as well, which finds them closed - and the lock released.
FinishClose(t) ==
  /\ pc[t] = "draining"
  /\ Pending(SourceOps) = {}
  /\ Pending(DestinationOps) = {}
  /\ bridge' = "closed"
  /\ lock' = "none"
  /\ pc' = [pc EXCEPT ![t] = "out"]
  /\ UNCHANGED <<calls, enqueued, gpu>>
-----------------------------------------------------------------------------
\* The next operation of the stream that holds the operations ops is the k-th
\* of transfer e; others are the earlier transfers on the same stream.
Turn(e, k, ops, others) ==
  /\ k <= queued[e]
  /\ k \notin done[e]
  /\ \A j \in ops : j < k => j \in done[e]
  /\ others \cap Pending(ops) = {}

OnSource(e, k) ==
  Turn(e, k, SourceOps, {f \in 1..(e - 1) : stream[f] = stream[e]})

OnDestination(e, k) == Turn(e, k, DestinationOps, 1..(e - 1))

Execute(e, k) == done' = [done EXCEPT ![e] = @ \cup {k}]

CopyIn(e) ==
  /\ OnSource(e, 1)
  /\ heap' = e
  /\ Execute(e, 1)
  /\ UNCHANGED <<threads, enqueued, fence, result>>

SignalReady(e) ==
  /\ OnSource(e, 2)
  /\ fence' = 2 * e - 1
  /\ Execute(e, 2)
  /\ UNCHANGED <<threads, enqueued, heap, result>>

WaitReady(e) ==
  /\ OnDestination(e, 3)
  /\ fence >= 2 * e - 1
  /\ Execute(e, 3)
  /\ UNCHANGED <<threads, enqueued, heap, fence, result>>

CopyOut(e) ==
  /\ OnDestination(e, 4)
  /\ result' = [result EXCEPT ![e] = heap]
  /\ Execute(e, 4)
  /\ UNCHANGED <<threads, enqueued, heap, fence>>

SignalConsumed(e) ==
  /\ OnDestination(e, 5)
  /\ fence' = 2 * e
  /\ Execute(e, 5)
  /\ UNCHANGED <<threads, enqueued, heap, result>>

\* Defect: the source stream goes on when the payload is merely ready.
WaitConsumedShort(e) ==
  /\ OnSource(e, 6)
  /\ fence >= 2 * e - 1
  /\ Execute(e, 6)
  /\ UNCHANGED <<threads, enqueued, heap, fence, result>>

WaitConsumed(e) ==
  /\ OnSource(e, 6)
  /\ fence >= 2 * e
  /\ Execute(e, 6)
  /\ UNCHANGED <<threads, enqueued, heap, fence, result>>
-----------------------------------------------------------------------------
\* What a thread that is inside a call does.
InCall(t) ==
  \/ \E s \in Streams : Begin(t, s)
  \/ Enqueue(t)
  \/ FailTransfer(t)
  \/ LockClose(t)
  \/ FinishClose(t)

Gpu(e) ==
  \/ CopyIn(e) \/ SignalReady(e) \/ WaitReady(e)
  \/ CopyOut(e) \/ SignalConsumed(e) \/ WaitConsumed(e)

Next ==
  \/ \E ok \in BOOLEAN : Construct(ok)
  \/ \E t \in Threads : Check(t) \/ StartClose(t) \/ InCall(t)
  \/ \E e \in Epoch : Gpu(e)

Spec == Init /\ [][Next]_vars

\* A thread inside a call goes on unless the lock or a synchronize blocks it,
\* and a GPU executes what is next on its stream.  Nobody has to make a call or
\* to close the bridge.
Fairness ==
  /\ \A t \in Threads : WF_vars(InCall(t))
  /\ \A e \in Epoch : WF_vars(Gpu(e))

FairSpec == Spec /\ Fairness
-----------------------------------------------------------------------------
\* The values every variable takes.
TypeOK ==
  /\ bridge \in {"new", "open", "closed", "failed"}
  /\ lock \in Threads \cup {"none"}
  /\ pc \in [Threads -> {"out", "checked", "enqueuing", "closing", "draining"}]
  /\ calls \in [Threads -> 0..MaxCalls]
  /\ epoch \in Epoch \cup {0}
  /\ queued \in [Epoch -> 0..6]
  /\ stream \in [Epoch -> Streams \cup {"none"}]
  /\ failed \subseteq Epoch
  /\ done \in [Epoch -> SUBSET Op]
  /\ heap \in Epoch \cup {0}
  /\ fence \in 0..(2 * Cardinality(Epoch))
  /\ result \in [Epoch -> Epoch \cup {0}]

\* transfer() delivers its own tensor: what is copied to the destination in a
\* transfer that did not raise is the payload of that transfer, whatever the
\* other threads do and whichever transfers before it raised half-way.
TransferDelivers == \A e \in Epoch \ failed : result[e] \in {0, e}

\* close() frees the heap and the fence only when no GPU has an operation on
\* them left, however it races with transfers.
NoUseAfterClose == bridge = "closed" => Pending(Op) = {}

\* A transfer raised with some of its operations on the streams.
HalfEnqueued == \E e \in failed : queued[e] > 0

\* No call blocks for good: every transfer() and close() returns, in a race
\* between them too, and every enqueued copy arrives - unless a transfer raised
\* half-way, after which a late signal may take the fence back.
CallsReturn ==
  /\ \A t \in Threads : pc[t] # "out" ~> (pc[t] = "out" \/ HalfEnqueued)
  /\ \A e \in Epoch : queued[e] = 6 ~> (result[e] # 0 \/ HalfEnqueued)
=============================================================================
