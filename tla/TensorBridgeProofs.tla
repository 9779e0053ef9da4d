------------------------- MODULE TensorBridgeProofs -------------------------
(***************************************************************************)
(* The safety of D3D12TensorBridge for any number of threads, calls and    *)
(* source streams, with and without transfers that raise half-way.         *)
(*                                                                         *)
(* Host says what the lock protects: one thread at a time enqueues, and    *)
(* the transfers before the current one are complete or have raised.       *)
(* Begun counts the epochs that were given out.  InOrder and Handshake say *)
(* what the streams and the fence add when all the callers have the same   *)
(* stream current; without that, TransferDelivers does not hold.           *)
(***************************************************************************)
EXTENDS TensorBridge, FiniteSetTheorems, TLAPS

\* A thread is inside the lock exactly if it enqueues or drains.
LockHeld ==
  \A t \in Threads : lock = t <=> pc[t] \in {"enqueuing", "draining"}

\* While a thread enqueues, the bridge is open and the current transfer is
\* neither complete nor given up.
Enqueuing ==
  \A t \in Threads :
    pc[t] = "enqueuing" =>
      bridge = "open" /\ epoch >= 1 /\ queued[epoch] <= 5 /\ epoch \notin failed

\* Nothing of a future transfer is enqueued or has raised, and the GPUs
\* execute only what is enqueued.
Enqueued ==
  /\ \A e \in Epoch : e > epoch => queued[e] = 0 /\ e \notin failed
  /\ \A e \in Epoch : \A k \in done[e] : k <= queued[e]

Host == LockHeld /\ Enqueuing /\ Enqueued /\ NoUseAfterClose

\* The calls that have taken the lock or found the bridge closed, as pairs of
\* a thread and the number of its call.
Begun ==
  {c \in Threads \X (1..MaxCalls) :
     c[2] <= calls[c[1]] /\ ~(pc[c[1]] = "checked" /\ c[2] = calls[c[1]])}

\* Every epoch was given out to a call of its own, so there are never more
\* epochs than calls.
EpochsAreCalls ==
  /\ \A t \in Threads : pc[t] = "checked" => calls[t] >= 1
  /\ epoch <= Cardinality(Begun)

HInv == TypeOK /\ Host /\ EpochsAreCalls

\* All the callers have the same source stream current.  transfer() leaves
\* that to them: it enqueues on whatever stream is current in its thread.
OneStream == \A s, u \in Streams : s = u

\* A transfer before the current one has all six operations on the streams
\* unless it raised, and every transfer that began is on a source stream.
Complete ==
  /\ \A e \in Epoch \ failed :
       e <= epoch =>
         \/ queued[e] = 6
         \/ e = epoch /\ \E t \in Threads : pc[t] = "enqueuing"
  /\ \A e \in Epoch : e <= epoch => stream[e] \in Streams

\* The streams execute in order: the operations of one transfer, and those of
\* an earlier transfer before those of a later one.
InOrder ==
  /\ \A e \in Epoch :
       /\ 2 \in done[e] => 1 \in done[e]
       /\ 6 \in done[e] => 2 \in done[e]
       /\ 4 \in done[e] => 3 \in done[e]
       /\ 5 \in done[e] => 4 \in done[e]
  /\ \A e, f \in Epoch :
       f < e =>
         /\ done[e] \cap SourceOps # {} =>
              \A k \in SourceOps : k <= queued[f] => k \in done[f]
         /\ done[e] \cap DestinationOps # {} =>
              \A k \in DestinationOps : k <= queued[f] => k \in done[f]

\* What the fence and the two waits tell about a transfer that did not raise.
\* The heap holds its payload from the copy in to the copy out.
Handshake ==
  \A e \in Epoch \ failed :
    /\ e <= epoch /\ fence >= 2 * e - 1 => 2 \in done[e]
    /\ e <= epoch /\ fence >= 2 * e => 5 \in done[e]
    /\ 3 \in done[e] => 2 \in done[e]
    /\ 6 \in done[e] => 5 \in done[e]
    /\ 1 \in done[e] /\ 4 \notin done[e] => heap = e

\* The fence and the heap never name a transfer that has not begun.
Known == fence <= 2 * epoch /\ heap <= epoch

GInv == HInv /\ Complete /\ InOrder /\ Known /\ Handshake /\ TransferDelivers
-----------------------------------------------------------------------------
\* The epochs are numbered from 1 to the number of all the calls of transfer()
\* that the threads can make.
LEMMA EpochIsInterval ==
  \E n \in Nat : /\ Epoch = 1..n
                 /\ Cardinality(Epoch) = n
                 /\ IsFiniteSet(Threads \X (1..MaxCalls))
                 /\ Cardinality(Threads \X (1..MaxCalls)) = n
<1>1. MaxCalls \in Nat /\ IsFiniteSet(Threads)
  BY BridgeAssumption
<1>2. Cardinality(Threads) \in Nat
  BY <1>1, FS_CardinalityType
<1>3. IsFiniteSet(1..MaxCalls) /\ Cardinality(1..MaxCalls) = MaxCalls
  BY <1>1, FS_Interval, SMT
<1>4. /\ IsFiniteSet(Threads \X (1..MaxCalls))
      /\ Cardinality(Threads \X (1..MaxCalls)) = Cardinality(Threads) * MaxCalls
  BY <1>1, <1>3, FS_Product
<1>5. Cardinality(Threads) * MaxCalls \in Nat
  BY <1>1, <1>2
<1>6. Cardinality(Epoch) = Cardinality(Threads) * MaxCalls
  BY <1>5, FS_Interval, SMT DEF Epoch
<1>7. QED
  BY <1>4, <1>5, <1>6 DEF Epoch

\* Begun is a finite set with at most as many members as there are epochs.
LEMMA BegunBound ==
  /\ IsFiniteSet(Begun)
  /\ Cardinality(Begun) \in Nat
  /\ \A n \in Nat : Epoch = 1..n => Cardinality(Begun) <= n
<1>1. Begun \in SUBSET (Threads \X (1..MaxCalls))
  BY DEF Begun
<1>2. PICK n \in Nat : /\ Epoch = 1..n
                       /\ Cardinality(Epoch) = n
                       /\ IsFiniteSet(Threads \X (1..MaxCalls))
                       /\ Cardinality(Threads \X (1..MaxCalls)) = n
  BY EpochIsInterval
<1>3. IsFiniteSet(Begun) /\ Cardinality(Begun) <= n
  BY <1>1, <1>2, FS_Subset
<1>4. Cardinality(Begun) \in Nat
  BY <1>3, FS_CardinalityType
<1>5. ASSUME NEW m \in Nat, Epoch = 1..m PROVE m = n
  <2>1. Cardinality(1..m) = m
    BY FS_Interval, SMT
  <2>2. QED
    BY <1>2, <1>5, <2>1
<1>6. QED
  BY <1>3, <1>4, <1>5

\* What a step of a GPU does to the rest of the state: one enqueued operation
\* that was not executed becomes executed, and the host's state is untouched.
LEMMA GpuEffect ==
  ASSUME TypeOK, NEW e \in Epoch, Gpu(e)
  PROVE  /\ UNCHANGED <<threads, enqueued>>
         /\ \E k \in Op : /\ k <= queued[e] /\ k \notin done[e]
                          /\ done' = [done EXCEPT ![e] = @ \cup {k}]
<1> USE DEF OnSource, OnDestination, Turn, Execute, Op
<1>1. CASE CopyIn(e)
  BY <1>1 DEF CopyIn
<1>2. CASE SignalReady(e)
  BY <1>2 DEF SignalReady
<1>3. CASE WaitReady(e)
  BY <1>3 DEF WaitReady
<1>4. CASE CopyOut(e)
  BY <1>4 DEF CopyOut
<1>5. CASE SignalConsumed(e)
  BY <1>5 DEF SignalConsumed
<1>6. CASE WaitConsumed(e)
  BY <1>6 DEF WaitConsumed
<1>7. QED
  BY <1>1, <1>2, <1>3, <1>4, <1>5, <1>6 DEF Gpu

\* The count of the begun calls keeps up with the epoch, and taking the lock
\* for a checked call leaves room for one more epoch.
LEMMA EpochsStep ==
  ASSUME TypeOK, EpochsAreCalls, [Next]_vars
  PROVE  EpochsAreCalls' /\ Cardinality(Begun') <= Cardinality(Epoch)
<1> DEFINE C == Threads \X (1..MaxCalls)
<1>1. PICK n \in Nat : /\ Epoch = 1..n
                       /\ Cardinality(Epoch) = n
                       /\ IsFiniteSet(C)
                       /\ Cardinality(C) = n
  BY EpochIsInterval
<1>2. IsFiniteSet(Begun) /\ Cardinality(Begun) \in Nat
  BY BegunBound
<1>3. Begun' \in SUBSET C
  BY DEF Begun
<1>4. IsFiniteSet(Begun') /\ Cardinality(Begun') <= n
  BY <1>1, <1>3, FS_Subset
<1>5. Cardinality(Begun') \in Nat
  BY <1>4, FS_CardinalityType
<1>6. epoch \in Nat /\ MaxCalls \in Nat
  BY <1>1, BridgeAssumption DEF TypeOK
<1>7. ASSUME Begun \subseteq Begun', UNCHANGED epoch
      PROVE  epoch' <= Cardinality(Begun')
  <2>1. Cardinality(Begun) <= Cardinality(Begun')
    BY <1>4, <1>7, FS_Subset
  <2>2. QED
    BY <1>2, <1>5, <1>6, <1>7, <2>1 DEF EpochsAreCalls
<1>8. ASSUME NEW t \in Threads, Check(t)
      PROVE  EpochsAreCalls'
  <2>1. Begun \subseteq Begun' /\ UNCHANGED epoch
    BY <1>6, <1>8 DEF Begun, Check, TypeOK, enqueued
  <2>2. QED
    BY <1>6, <1>7, <1>8, <2>1 DEF EpochsAreCalls, Check, TypeOK
<1>9. ASSUME NEW t \in Threads, NEW s \in Streams, Begin(t, s)
      PROVE  EpochsAreCalls'
  <2> DEFINE c == <<t, calls[t]>>
  <2>1. /\ pc[t] = "checked" /\ calls[t] >= 1 /\ calls[t] <= MaxCalls
        /\ calls[t] \in Nat
    BY <1>6, <1>9 DEF Begin, EpochsAreCalls, TypeOK
  <2>2. c \in C /\ c \notin Begun
    BY <1>6, <2>1 DEF Begun
  <2>3. Begun \cup {c} \subseteq Begun'
    <3>1. /\ calls' = calls /\ pc'[t] # "checked"
          /\ \A u \in Threads : u # t => pc'[u] = pc[u]
      BY <1>9 DEF Begin, TypeOK
    <3>2. Begun \subseteq Begun'
      BY <3>1, <2>1 DEF Begun
    <3>3. c \in Begun'
      BY <3>1, <2>1, <2>2 DEF Begun
    <3>4. QED
      BY <3>2, <3>3
  <2>4. Cardinality(Begun \cup {c}) = Cardinality(Begun) + 1
    BY <1>2, <2>2, FS_AddElement
  <2>5. Cardinality(Begun \cup {c}) <= Cardinality(Begun')
    BY <1>4, <2>3, FS_Subset
  <2>6. epoch' <= Cardinality(Begun')
    BY <1>2, <1>5, <1>6, <1>9, <2>4, <2>5 DEF EpochsAreCalls, Begin
  <2>7. QED
    BY <1>9, <2>6 DEF EpochsAreCalls, Begin, TypeOK
<1>10. ASSUME \A t \in Threads : pc'[t] = "checked" <=> pc[t] = "checked",
              UNCHANGED <<calls, epoch>>
       PROVE  EpochsAreCalls'
  <2>1. Begun \subseteq Begun'
    BY <1>10 DEF Begun
  <2>2. QED
    BY <1>7, <1>10, <2>1 DEF EpochsAreCalls
<1>11. ASSUME NEW ok \in BOOLEAN, Construct(ok) PROVE EpochsAreCalls'
  BY <1>10, <1>11 DEF Construct, enqueued
<1>12. ASSUME NEW t \in Threads, StartClose(t) PROVE EpochsAreCalls'
  BY <1>10, <1>12 DEF StartClose, enqueued, TypeOK
<1>13. ASSUME NEW t \in Threads, Enqueue(t) PROVE EpochsAreCalls'
  BY <1>10, <1>13 DEF Enqueue, TypeOK
<1>14. ASSUME NEW t \in Threads, FailTransfer(t) PROVE EpochsAreCalls'
  BY <1>10, <1>14 DEF FailTransfer, TypeOK
<1>15. ASSUME NEW t \in Threads, LockClose(t) PROVE EpochsAreCalls'
  BY <1>10, <1>15 DEF LockClose, enqueued, TypeOK
<1>16. ASSUME NEW t \in Threads, FinishClose(t) PROVE EpochsAreCalls'
  BY <1>10, <1>16 DEF FinishClose, enqueued, TypeOK
<1>17. ASSUME NEW e \in Epoch, Gpu(e) PROVE EpochsAreCalls'
  BY <1>10, <1>17, GpuEffect DEF threads, enqueued
<1>18. ASSUME UNCHANGED vars PROVE EpochsAreCalls'
  <2>1. pc' = pc /\ calls' = calls /\ epoch' = epoch
    BY <1>18 DEF vars, threads, enqueued
  <2>2. QED
    BY <1>10, <2>1
<1>19. QED
  BY <1>1, <1>4, <1>8, <1>9, <1>11, <1>12, <1>13, <1>14, <1>15, <1>16, <1>17,
     <1>18 DEF Next, InCall

\* The type invariant is kept.  That an enqueue leaves no seventh operation
\* and that no epoch exceeds the number of calls come from Host and
\* EpochsAreCalls.
LEMMA TypeStep == HInv /\ [Next]_vars => TypeOK'
<1> SUFFICES ASSUME HInv, [Next]_vars PROVE TypeOK'
  OBVIOUS
<1>1. PICK n \in Nat : Epoch = 1..n /\ Cardinality(Epoch) = n
  BY EpochIsInterval
<1>2. epoch \in 0..n /\ TypeOK /\ MaxCalls \in Nat
  BY <1>1, BridgeAssumption DEF HInv, TypeOK
<1>3. ASSUME NEW t \in Threads, NEW s \in Streams, Begin(t, s) PROVE TypeOK'
  <2>1. epoch + 1 \in Epoch
    <3>1. epoch' <= Cardinality(Begun') /\ Cardinality(Begun') <= n
      BY <1>1, EpochsStep DEF HInv, EpochsAreCalls
    <3>2. Cardinality(Begun') \in Nat
      <4>1. Begun' \in SUBSET (Threads \X (1..MaxCalls))
        BY DEF Begun
      <4>2. IsFiniteSet(Begun')
        BY <4>1, EpochIsInterval, FS_Subset
      <4>3. QED
        BY <4>2, FS_CardinalityType
    <3>3. epoch' = epoch + 1
      BY <1>3 DEF Begin
    <3>4. QED
      BY <1>1, <1>2, <3>1, <3>2, <3>3
  <2>2. QED
    BY <1>2, <1>3, <2>1 DEF Begin, TypeOK, gpu
<1>4. ASSUME NEW ok \in BOOLEAN, Construct(ok) PROVE TypeOK'
  BY <1>2, <1>4 DEF Construct, TypeOK, enqueued, gpu
<1>5. ASSUME NEW t \in Threads, Check(t) PROVE TypeOK'
  BY <1>2, <1>5 DEF Check, TypeOK, enqueued, gpu
<1>6. ASSUME NEW t \in Threads, StartClose(t) PROVE TypeOK'
  BY <1>2, <1>6 DEF StartClose, TypeOK, enqueued, gpu
<1>7. ASSUME NEW t \in Threads, Enqueue(t) PROVE TypeOK'
  <2>1. epoch \in Epoch /\ queued[epoch] \in 0..5
    BY <1>1, <1>2, <1>7 DEF HInv, Host, Enqueuing, Enqueue, TypeOK
  <2>2. queued' \in [Epoch -> 0..6]
    BY <1>2, <1>7, <2>1 DEF Enqueue, TypeOK
  <2>3. QED
    BY <1>2, <1>7, <2>2 DEF Enqueue, TypeOK, gpu
<1>8. ASSUME NEW t \in Threads, FailTransfer(t) PROVE TypeOK'
  <2>1. epoch \in Epoch
    BY <1>1, <1>2, <1>8 DEF HInv, Host, Enqueuing, FailTransfer
  <2>2. QED
    BY <1>2, <1>8, <2>1 DEF FailTransfer, TypeOK, gpu
<1>9. ASSUME NEW t \in Threads, LockClose(t) PROVE TypeOK'
  BY <1>2, <1>9 DEF LockClose, TypeOK, enqueued, gpu
<1>10. ASSUME NEW t \in Threads, FinishClose(t) PROVE TypeOK'
  BY <1>2, <1>10 DEF FinishClose, TypeOK, enqueued, gpu
<1>11. ASSUME NEW e \in Epoch, Gpu(e) PROVE TypeOK'
  <2>1. done' \in [Epoch -> SUBSET Op] /\ UNCHANGED <<threads, enqueued>>
    BY <1>2, <1>11, GpuEffect DEF TypeOK
  <2>2. /\ heap' \in Epoch \cup {0}
        /\ fence' \in 0..(2 * Cardinality(Epoch))
        /\ result' \in [Epoch -> Epoch \cup {0}]
    BY <1>1, <1>2, <1>11
    DEF TypeOK, Gpu, CopyIn, SignalReady, WaitReady, CopyOut, SignalConsumed,
        WaitConsumed
  <2>3. QED
    BY <1>2, <2>1, <2>2 DEF TypeOK, threads, enqueued
<1>12. CASE UNCHANGED vars
  BY <1>2, <1>12 DEF TypeOK, vars, threads, enqueued, gpu
<1>13. QED
  BY <1>3, <1>4, <1>5, <1>6, <1>7, <1>8, <1>9, <1>10, <1>11, <1>12
  DEF Next, InCall

\* The lock keeps its meaning: at most one thread is between taking and
\* releasing it, and only the thread that enqueues moves the transfers on.
LEMMA HostStep == HInv /\ [Next]_vars => Host'
<1> SUFFICES ASSUME HInv, [Next]_vars PROVE Host'
  OBVIOUS
<1>1. PICK n \in Nat : Epoch = 1..n /\ Cardinality(Epoch) = n
  BY EpochIsInterval
<1>2. TypeOK /\ TypeOK' /\ epoch \in 0..n /\ epoch' \in 0..n
  BY <1>1, TypeStep DEF HInv, TypeOK
<1>3. "none" \notin Threads
  BY BridgeAssumption
<1>4. LockHeld /\ Enqueuing /\ Enqueued /\ NoUseAfterClose
  BY DEF HInv, Host
<1> USE DEF LockHeld, Enqueuing, Enqueued
<1>5. ASSUME NEW t \in Threads, NEW s \in Streams, Begin(t, s) PROVE Host'
  <2>1. LockHeld'
    BY <1>2, <1>3, <1>4, <1>5 DEF Begin, TypeOK
  <2>2. /\ epoch' = epoch + 1 /\ UNCHANGED <<bridge, queued, done>>
        /\ failed' \subseteq failed \cup {epoch + 1}
        /\ \A u \in Threads : pc'[u] = "enqueuing" =>
             \/ u = t /\ bridge = "open" /\ UNCHANGED failed
             \/ u # t /\ pc[u] = "enqueuing"
    BY <1>2, <1>5 DEF Begin, gpu, TypeOK
  <2>3. \A u \in Threads : pc[u] # "enqueuing"
    BY <1>3, <1>4, <1>5 DEF Begin
  <2>4. epoch' \in Epoch /\ epoch' > epoch
    BY <1>1, <1>2, <2>2
  <2>5. Enqueuing'
    BY <1>1, <1>2, <1>4, <2>2, <2>3, <2>4
  <2>6. Enqueued'
    BY <1>1, <1>2, <1>4, <2>2
  <2>7. NoUseAfterClose'
    BY <1>4, <2>2 DEF NoUseAfterClose, Pending
  <2>8. QED
    BY <2>1, <2>5, <2>6, <2>7 DEF Host
<1>6. ASSUME NEW t \in Threads, Enqueue(t) PROVE Host'
  <2>1. LockHeld'
    BY <1>2, <1>3, <1>4, <1>6 DEF Enqueue, TypeOK
  <2>2. /\ \A u \in Threads : pc[u] = "enqueuing" => u = t
        /\ bridge = "open" /\ epoch \in Epoch /\ queued[epoch] \in 0..5
    BY <1>1, <1>2, <1>4, <1>6 DEF Enqueue, TypeOK
  <2>3. Enqueuing'
    BY <1>2, <1>4, <1>6, <2>2 DEF Enqueue, TypeOK
  <2>4. Enqueued'
    <3>1. \A e \in Epoch : e > epoch' => queued'[e] = 0 /\ e \notin failed'
      BY <1>1, <1>2, <1>4, <1>6, <2>2 DEF Enqueue, TypeOK
    <3>2. ASSUME NEW e \in Epoch, NEW k \in done'[e] PROVE k <= queued'[e]
      <4>1. k \in Op /\ k <= queued[e] /\ queued[e] \in 0..6
        BY <1>2, <1>4, <1>6, <3>2 DEF Enqueue, TypeOK, gpu
      <4>2. queued'[e] \in {queued[e], queued[e] + 1}
        BY <1>2, <1>6, <2>2 DEF Enqueue, TypeOK
      <4>3. QED
        BY <4>1, <4>2 DEF Op
    <3>3. QED
      BY <3>1, <3>2
  <2>5. NoUseAfterClose'
    BY <1>6, <2>2 DEF NoUseAfterClose, Enqueue
  <2>6. QED
    BY <2>1, <2>3, <2>4, <2>5 DEF Host
<1>7. ASSUME NEW t \in Threads, FailTransfer(t) PROVE Host'
  <2>1. LockHeld'
    BY <1>2, <1>3, <1>4, <1>7 DEF FailTransfer, TypeOK
  <2>2. \A u \in Threads : pc'[u] # "enqueuing"
    BY <1>2, <1>4, <1>7 DEF FailTransfer, TypeOK
  <2>3. Enqueued'
    BY <1>1, <1>2, <1>4, <1>7 DEF FailTransfer, gpu
  <2>4. NoUseAfterClose'
    BY <1>4, <1>7 DEF NoUseAfterClose, Pending, FailTransfer, gpu
  <2>5. QED
    BY <2>1, <2>2, <2>3, <2>4 DEF Host
<1>8. ASSUME NEW t \in Threads, FinishClose(t) PROVE Host'
  <2>1. LockHeld'
    BY <1>2, <1>3, <1>4, <1>8 DEF FinishClose, TypeOK
  <2>2. \A u \in Threads : pc'[u] # "enqueuing"
    BY <1>2, <1>4, <1>8 DEF FinishClose, TypeOK
  <2>3. Enqueued'
    BY <1>4, <1>8 DEF FinishClose, enqueued, gpu
  <2>4. NoUseAfterClose'
    BY <1>8
    DEF NoUseAfterClose, Pending, FinishClose, enqueued, gpu, Op, SourceOps,
        DestinationOps
  <2>5. QED
    BY <2>1, <2>2, <2>3, <2>4 DEF Host
<1>9. ASSUME NEW e \in Epoch, Gpu(e) PROVE Host'
  <2>1. PICK k \in Op : /\ k <= queued[e] /\ k \notin done[e]
                        /\ done' = [done EXCEPT ![e] = @ \cup {k}]
    BY <1>2, <1>9, GpuEffect
  <2>2. UNCHANGED <<bridge, lock, pc, epoch, queued, failed>>
    BY <1>2, <1>9, GpuEffect DEF threads, enqueued
  <2>3. LockHeld' /\ Enqueuing' /\ Enqueued'
    BY <1>2, <1>4, <2>1, <2>2 DEF TypeOK
  <2>4. NoUseAfterClose'
    BY <1>4, <2>1, <2>2 DEF NoUseAfterClose, Pending
  <2>5. QED
    BY <2>3, <2>4 DEF Host
<1>10. ASSUME UNCHANGED <<epoch, queued, failed, done>>,
              bridge' = "closed" => bridge = "closed",
              bridge = "open" => bridge' = "open",
              \A u \in Threads : pc'[u] = "enqueuing" <=> pc[u] = "enqueuing",
              LockHeld'
       PROVE  Host'
  BY <1>4, <1>10 DEF Host, NoUseAfterClose, Pending
<1>11. ASSUME NEW ok \in BOOLEAN, Construct(ok) PROVE Host'
  BY <1>4, <1>10, <1>11 DEF Construct, enqueued, gpu
<1>12. ASSUME NEW t \in Threads, Check(t) PROVE Host'
  BY <1>2, <1>4, <1>10, <1>12 DEF Check, enqueued, gpu, TypeOK
<1>13. ASSUME NEW t \in Threads, StartClose(t) PROVE Host'
  BY <1>2, <1>4, <1>10, <1>13 DEF StartClose, enqueued, gpu, TypeOK
<1>14. ASSUME NEW t \in Threads, LockClose(t) PROVE Host'
  <2>1. LockHeld'
    BY <1>2, <1>3, <1>4, <1>14 DEF LockClose, TypeOK
  <2>2. QED
    BY <1>2, <1>4, <1>10, <1>14, <2>1 DEF LockClose, enqueued, gpu, TypeOK
<1>15. ASSUME UNCHANGED vars PROVE Host'
  BY <1>4, <1>10, <1>15 DEF vars, threads, enqueued, gpu
<1>16. QED
  BY <1>5, <1>6, <1>7, <1>8, <1>9, <1>11, <1>12, <1>13, <1>14, <1>15
  DEF Next, InCall

\* The initial state: nobody holds the lock and no transfer has begun.
LEMMA InitHInv == Init => HInv
<1> SUFFICES ASSUME Init PROVE HInv
  OBVIOUS
<1>1. PICK n \in Nat : Epoch = 1..n /\ Cardinality(Epoch) = n
  BY EpochIsInterval
<1>2. TypeOK
  BY <1>1, BridgeAssumption DEF Init, TypeOK
<1>3. Host
  BY <1>1, BridgeAssumption
  DEF Init, Host, LockHeld, Enqueuing, Enqueued, NoUseAfterClose
<1>4. EpochsAreCalls
  BY BegunBound DEF Init, EpochsAreCalls
<1>5. QED
  BY <1>2, <1>3, <1>4 DEF HInv

\* The lock invariant holds for every number of threads, calls and streams.
LEMMA HostInvariant == Spec => []HInv
<1>1. HInv /\ [Next]_vars => HInv'
  BY TypeStep, HostStep, EpochsStep DEF HInv
<1>2. QED
  BY InitHInv, <1>1, PTL DEF Spec

\* close() waits for both devices behind the lock: when the heap and the fence
\* are freed no GPU has an operation on them left, and none is enqueued later,
\* whichever transfers raced with it or raised.
THEOREM BridgeOutlivesTheWork == Spec => []NoUseAfterClose
  BY HostInvariant, PTL DEF HInv, Host

\* The type invariant: in particular no transfer enqueues a seventh operation
\* and the epoch never exceeds the number of calls.
THEOREM BridgeTypes == Spec => []TypeOK
  BY HostInvariant, PTL DEF HInv
-----------------------------------------------------------------------------
\* What it means that operation k of transfer e is next on its stream, when
\* there is one source stream: the earlier operations of e on that stream and
\* those of every earlier transfer have been executed.
LEMMA TurnFacts ==
  ASSUME OneStream, HInv, Complete, NEW e \in Epoch, NEW k \in Op,
         \/ k \in SourceOps /\ OnSource(e, k)
         \/ k \in DestinationOps /\ OnDestination(e, k)
  PROVE  /\ e <= epoch /\ k <= queued[e] /\ k \notin done[e]
         /\ k \in SourceOps =>
              /\ \A j \in SourceOps : j < k => j \in done[e]
              /\ \A f \in Epoch : \A j \in SourceOps :
                   f < e /\ j <= queued[f] => j \in done[f]
         /\ k \in DestinationOps =>
              /\ \A j \in DestinationOps : j < k => j \in done[e]
              /\ \A f \in Epoch : \A j \in DestinationOps :
                   f < e /\ j <= queued[f] => j \in done[f]
<1>1. PICK n \in Nat : Epoch = 1..n
  BY EpochIsInterval
<1>2. k <= queued[e] /\ k \notin done[e]
  BY DEF OnSource, OnDestination, Turn
<1>3. e <= epoch
  BY <1>1, <1>2 DEF HInv, Host, Enqueued, TypeOK, Op
<1>4. ASSUME k \in SourceOps
      PROVE  /\ \A j \in SourceOps : j < k => j \in done[e]
             /\ \A f \in Epoch : \A j \in SourceOps :
                  f < e /\ j <= queued[f] => j \in done[f]
  <2>1. OnSource(e, k)
    BY <1>4 DEF SourceOps, DestinationOps
  <2>2. \A j \in SourceOps : j < k => j \in done[e]
    BY <2>1 DEF OnSource, Turn
  <2>3. ASSUME NEW f \in Epoch, NEW j \in SourceOps, f < e, j <= queued[f]
        PROVE  j \in done[f]
    <3>1. f \in 1..(e - 1) /\ f <= epoch
      BY <1>1, <1>3, <2>3 DEF HInv, TypeOK
    <3>2. stream[f] = stream[e]
      BY <1>3, <3>1 DEF Complete, OneStream
    <3>3. f \notin Pending(SourceOps)
      BY <2>1, <3>1, <3>2 DEF OnSource, Turn
    <3>4. QED
      BY <2>3, <3>3 DEF Pending
  <2>4. QED
    BY <2>2, <2>3
<1>5. ASSUME k \in DestinationOps
      PROVE  /\ \A j \in DestinationOps : j < k => j \in done[e]
             /\ \A f \in Epoch : \A j \in DestinationOps :
                  f < e /\ j <= queued[f] => j \in done[f]
  <2>1. OnDestination(e, k)
    BY <1>5 DEF SourceOps, DestinationOps
  <2>2. \A j \in DestinationOps : j < k => j \in done[e]
    BY <2>1 DEF OnDestination, Turn
  <2>3. ASSUME NEW f \in Epoch, NEW j \in DestinationOps, f < e, j <= queued[f]
        PROVE  j \in done[f]
    <3>1. f \in 1..(e - 1)
      BY <1>1, <2>3
    <3>2. f \notin Pending(DestinationOps)
      BY <2>1, <3>1 DEF OnDestination, Turn
    <3>3. QED
      BY <2>3, <3>2 DEF Pending
  <2>4. QED
    BY <2>2, <2>3
<1>6. QED
  BY <1>2, <1>3, <1>4, <1>5

\* A later transfer has begun, so an earlier one that did not raise has all of
\* its operations on the streams.
LEMMA EarlierIsComplete ==
  ASSUME HInv, Complete, NEW e \in Epoch, NEW f \in Epoch \ failed,
         f < e, e <= epoch
  PROVE  queued[f] = 6
<1>1. PICK n \in Nat : Epoch = 1..n
  BY EpochIsInterval
<1>2. QED
  BY <1>1 DEF HInv, TypeOK, Complete

\* What the threads do keeps the order of the streams and the handshake.
LEMMA HostKeepsGInv ==
  ASSUME GInv, HInv', [Next]_vars, UNCHANGED gpu
  PROVE  GInv'
<1>1. PICK n \in Nat : Epoch = 1..n
  BY EpochIsInterval
<1>2. /\ HInv /\ TypeOK /\ Host /\ Complete /\ InOrder /\ Known /\ Handshake
      /\ TransferDelivers
      /\ epoch \in 0..n /\ epoch' \in 0..n
      /\ fence \in Nat /\ heap \in Nat
  BY <1>1 DEF GInv, HInv, TypeOK
<1>3. UNCHANGED <<done, heap, fence, result>>
  BY DEF gpu
<1>4. ASSUME NEW e \in Epoch, e > epoch PROVE queued[e] = 0 /\ done[e] = {}
  <2>1. queued[e] = 0
    BY <1>2, <1>4 DEF Host, Enqueued
  <2>2. \A k \in done[e] : k <= 0 /\ k \in 1..6
    BY <1>2, <2>1 DEF Host, Enqueued, TypeOK, Op
  <2>3. QED
    BY <2>1, <2>2
<1>5. ASSUME epoch' >= epoch, failed \subseteq failed',
             \A e \in Epoch : e < epoch => queued'[e] = queued[e],
             Complete'
      PROVE  GInv'
  <2>1. Known' /\ TransferDelivers'
    <3>1. Known'
      <4>1. epoch \in Int /\ epoch' \in Int
        BY <1>2
      <4>2. fence <= 2 * epoch /\ heap <= epoch
        BY <1>2 DEF Known
      <4>3. fence' = fence /\ heap' = heap /\ fence \in Int /\ heap \in Int
        BY <1>2, <1>3
      <4>4. epoch <= epoch'
        BY <1>5
      <4>5. fence' <= 2 * epoch' /\ heap' <= epoch'
        <5>1. \A a, b, c \in Int : a <= b /\ c <= 2 * a => c <= 2 * b
          OBVIOUS
        <5>2. \A a, b, c \in Int : a <= b /\ c <= a => c <= b
          OBVIOUS
        <5>3. QED
          BY <4>1, <4>2, <4>3, <4>4, <5>1, <5>2
      <4>6. QED
        BY <4>5 DEF Known
    <3>2. TransferDelivers'
      BY <1>2, <1>3, <1>5 DEF TransferDelivers
    <3>3. QED
      BY <3>1, <3>2
  <2>2. InOrder'
    <3>1. \A e \in Epoch :
            /\ 2 \in done'[e] => 1 \in done'[e]
            /\ 6 \in done'[e] => 2 \in done'[e]
            /\ 4 \in done'[e] => 3 \in done'[e]
            /\ 5 \in done'[e] => 4 \in done'[e]
      BY <1>2, <1>3 DEF InOrder
    <3>2. ASSUME NEW e \in Epoch, NEW f \in Epoch, f < e
          PROVE  /\ done'[e] \cap SourceOps # {} =>
                      \A k \in SourceOps : k <= queued'[f] => k \in done'[f]
                 /\ done'[e] \cap DestinationOps # {} =>
                      \A k \in DestinationOps : k <= queued'[f] => k \in done'[f]
      <4>1. CASE f < epoch
        BY <1>2, <1>3, <1>5, <3>2, <4>1 DEF InOrder
      <4>2. CASE f >= epoch
        BY <1>1, <1>2, <1>3, <1>4, <3>2, <4>2
      <4>3. QED
        BY <1>1, <1>2, <4>1, <4>2
    <3>3. QED
      BY <3>1, <3>2 DEF InOrder
  <2>3. Handshake'
    <3> SUFFICES ASSUME NEW e \in Epoch \ failed'
                 PROVE  /\ e <= epoch' /\ fence >= 2 * e - 1 => 2 \in done[e]
                        /\ e <= epoch' /\ fence >= 2 * e => 5 \in done[e]
                        /\ 3 \in done[e] => 2 \in done[e]
                        /\ 6 \in done[e] => 5 \in done[e]
                        /\ 1 \in done[e] /\ 4 \notin done[e] => heap = e
      BY <1>3 DEF Handshake
    <3>1. CASE e <= epoch
      BY <1>2, <1>5, <3>1 DEF Handshake
    <3>2. CASE e > epoch
      BY <1>1, <1>2, <1>4, <3>2 DEF Known
    <3>3. QED
      BY <1>1, <1>2, <3>1, <3>2
  <2>4. QED
    BY <1>5, <2>1, <2>2, <2>3 DEF GInv
<1>6. ASSUME NEW t \in Threads, NEW s \in Streams, Begin(t, s) PROVE GInv'
  <2>1. \A u \in Threads : pc[u] # "enqueuing"
    BY <1>2, <1>6, BridgeAssumption DEF Host, LockHeld, Begin
  <2>2. epoch' = epoch + 1 /\ UNCHANGED queued /\ failed \subseteq failed'
    BY <1>6 DEF Begin
  <2>3. epoch + 1 \notin failed' => pc'[t] = "enqueuing"
    BY <1>2, <1>6 DEF Begin, TypeOK
  <2>4. Complete'
    BY <1>1, <1>2, <1>6, <2>1, <2>2, <2>3 DEF Complete, Begin, TypeOK
  <2>5. QED
    BY <1>2, <1>5, <2>2, <2>4
<1>7. ASSUME NEW t \in Threads, Enqueue(t) PROVE GInv'
  <2>1. epoch \in Epoch /\ queued[epoch] \in 0..5 /\ UNCHANGED <<epoch, failed>>
    BY <1>1, <1>2, <1>7 DEF Host, Enqueuing, Enqueue, TypeOK
  <2>2. queued'[epoch] = 6 \/ pc'[t] = "enqueuing"
    BY <1>2, <1>7, <2>1 DEF Enqueue, TypeOK
  <2>3. \A e \in Epoch : e # epoch => queued'[e] = queued[e]
    BY <1>2, <1>7 DEF Enqueue, TypeOK
  <2>4. Complete'
    BY <1>2, <1>7, <2>1, <2>2, <2>3 DEF Complete, Enqueue
  <2>5. QED
    BY <1>1, <1>2, <1>5, <2>1, <2>3, <2>4
<1>8. ASSUME NEW t \in Threads, FailTransfer(t) PROVE GInv'
  <2>1. Complete'
    BY <1>2, <1>8 DEF Complete, FailTransfer
  <2>2. QED
    BY <1>2, <1>5, <1>8, <2>1 DEF FailTransfer
<1>9. ASSUME UNCHANGED enqueued,
             \A u \in Threads : pc[u] = "enqueuing" => pc'[u] = "enqueuing"
      PROVE  GInv'
  <2>1. Complete'
    BY <1>2, <1>9 DEF Complete, enqueued
  <2>2. QED
    BY <1>2, <1>5, <1>9, <2>1 DEF enqueued
<1>10. ASSUME NEW ok \in BOOLEAN, Construct(ok) PROVE GInv'
  BY <1>9, <1>10 DEF Construct
<1>11. ASSUME NEW t \in Threads, Check(t) PROVE GInv'
  BY <1>2, <1>9, <1>11 DEF Check, TypeOK
<1>12. ASSUME NEW t \in Threads, StartClose(t) PROVE GInv'
  BY <1>2, <1>9, <1>12 DEF StartClose, TypeOK
<1>13. ASSUME NEW t \in Threads, LockClose(t) PROVE GInv'
  BY <1>2, <1>9, <1>13 DEF LockClose, TypeOK
<1>14. ASSUME NEW t \in Threads, FinishClose(t) PROVE GInv'
  BY <1>2, <1>9, <1>14 DEF FinishClose, TypeOK
<1>15. ASSUME NEW e \in Epoch, Gpu(e) PROVE GInv'
  BY <1>2, <1>3, <1>15, GpuEffect DEF TypeOK
<1>16. ASSUME UNCHANGED vars PROVE GInv'
  BY <1>9, <1>16 DEF vars, threads
<1>17. QED
  BY <1>6, <1>7, <1>8, <1>10, <1>11, <1>12, <1>13, <1>14, <1>15, <1>16
  DEF Next, InCall

\* Any operation that takes its turn keeps the order of the streams.
LEMMA GpuKeepsOrder ==
  ASSUME OneStream, GInv, NEW e \in Epoch, NEW k \in Op,
         \/ k \in SourceOps /\ OnSource(e, k)
         \/ k \in DestinationOps /\ OnDestination(e, k),
         Execute(e, k), UNCHANGED <<threads, enqueued>>
  PROVE  Complete' /\ InOrder'
<1>1. HInv /\ TypeOK /\ Complete /\ InOrder
  BY DEF GInv, HInv
<1>2. UNCHANGED <<pc, epoch, queued, stream, failed>>
  BY DEF threads, enqueued
<1>3. \A f \in Epoch : done'[f] = IF f = e THEN done[f] \cup {k} ELSE done[f]
  BY <1>1 DEF Execute, TypeOK
<1>4. Complete'
  BY <1>1, <1>2 DEF Complete
<1>5. \A f \in Epoch :
        /\ 2 \in done'[f] => 1 \in done'[f]
        /\ 6 \in done'[f] => 2 \in done'[f]
        /\ 4 \in done'[f] => 3 \in done'[f]
        /\ 5 \in done'[f] => 4 \in done'[f]
  <2>1. /\ k = 2 => 1 \in done[e]
        /\ k = 6 => 2 \in done[e]
        /\ k = 4 => 3 \in done[e]
        /\ k = 5 => 4 \in done[e]
    BY <1>1, TurnFacts DEF SourceOps, DestinationOps
  <2>2. ASSUME NEW f \in Epoch
        PROVE  /\ 2 \in done'[f] => 1 \in done'[f]
               /\ 6 \in done'[f] => 2 \in done'[f]
               /\ 4 \in done'[f] => 3 \in done'[f]
               /\ 5 \in done'[f] => 4 \in done'[f]
    <3>1. /\ 2 \in done[f] => 1 \in done[f]
          /\ 6 \in done[f] => 2 \in done[f]
          /\ 4 \in done[f] => 3 \in done[f]
          /\ 5 \in done[f] => 4 \in done[f]
      BY <1>1 DEF InOrder
    <3>2. QED
      BY <1>3, <2>1, <3>1
  <2>3. QED
    BY <2>2
<1>6. ASSUME NEW g \in Epoch, NEW f \in Epoch, f < g
      PROVE  /\ done'[g] \cap SourceOps # {} =>
                  \A j \in SourceOps : j <= queued'[f] => j \in done'[f]
             /\ done'[g] \cap DestinationOps # {} =>
                  \A j \in DestinationOps : j <= queued'[f] => j \in done'[f]
  <2>1. CASE g = e
    <3>1. /\ k \in SourceOps =>
               \A j \in SourceOps : j <= queued[f] => j \in done[f]
          /\ k \in DestinationOps =>
               \A j \in DestinationOps : j <= queued[f] => j \in done[f]
      BY <1>1, <1>6, <2>1, TurnFacts
    <3>2. done'[f] = done[f] /\ done'[g] = done[g] \cup {k}
      <4>1. f \in Int /\ g \in Int
        BY EpochIsInterval
      <4>2. f # e
        BY <1>6, <2>1, <4>1
      <4>3. QED
        BY <1>3, <2>1, <4>2
    <3>3. QED
      BY <1>1, <1>2, <1>6, <3>1, <3>2 DEF InOrder
  <2>2. CASE g # e
    <3>1. done'[g] = done[g]
      BY <1>3, <1>6, <2>2
    <3>2. \A j : j \in done[f] => j \in done'[f]
      BY <1>3, <1>6
    <3>3. QED
      BY <1>1, <1>2, <1>6, <3>1, <3>2 DEF InOrder
  <2>3. QED
    BY <2>1, <2>2
<1>7. QED
  BY <1>4, <1>5, <1>6 DEF InOrder

\* The six operations keep the handshake: the fence reaches 2e-1 only when the
\* copy of e is in the heap and 2e only when it is out of it, so the copy of
\* the next transfer, behind the wait for 2e, cannot overtake it.
LEMMA GpuKeepsGInv ==
  ASSUME OneStream, GInv, HInv', NEW e \in Epoch, Gpu(e)
  PROVE  GInv'
<1>1. PICK n \in Nat : Epoch = 1..n
  BY EpochIsInterval
<1>2. /\ HInv /\ TypeOK /\ Complete /\ InOrder /\ Known /\ Handshake
      /\ TransferDelivers
      /\ epoch \in 0..n /\ e \in 1..n /\ fence \in Nat /\ heap \in Nat
  BY <1>1 DEF GInv, HInv, TypeOK
<1>3. UNCHANGED <<threads, enqueued>> /\ UNCHANGED <<epoch, queued, failed>>
  BY <1>2, GpuEffect DEF threads, enqueued
\* What is known of an earlier transfer that did not raise, when the k-th
\* operation of e is next.
<1>4. ASSUME NEW f \in Epoch \ failed, f < e,
             \/ \E k \in SourceOps : OnSource(e, k)
             \/ \E k \in DestinationOps : OnDestination(e, k)
      PROVE  2 \in done[f] /\ 4 \in done[f] /\ 5 \in done[f]
  <2>1. e <= epoch
    BY <1>2, <1>4, TurnFacts DEF SourceOps, DestinationOps, Op
  <2>2. queued[f] = 6
    BY <1>2, <1>4, <2>1, EarlierIsComplete
  <2>3. CASE \E k \in SourceOps : OnSource(e, k)
    <3>1. 6 \in done[f]
      BY <1>2, <1>4, <2>2, <2>3, TurnFacts DEF SourceOps, Op
    <3>2. QED
      BY <1>2, <1>4, <3>1 DEF Handshake, InOrder
  <2>4. CASE \E k \in DestinationOps : OnDestination(e, k)
    <3>1. 5 \in done[f]
      BY <1>2, <1>4, <2>2, <2>4, TurnFacts DEF DestinationOps, Op
    <3>2. QED
      BY <1>2, <1>4, <3>1 DEF Handshake, InOrder
  <2>5. QED
    BY <1>4, <2>3, <2>4
<1>5. ASSUME NEW k \in Op, Execute(e, k)
      PROVE  \A f \in Epoch : done'[f] = IF f = e THEN done[f] \cup {k} ELSE done[f]
  BY <1>2, <1>5 DEF Execute, TypeOK
<1>6. CASE CopyIn(e)
  <2>1. OnSource(e, 1) /\ heap' = e /\ Execute(e, 1) /\ UNCHANGED <<fence, result>>
    BY <1>6 DEF CopyIn
  <2>2. e <= epoch /\ Complete' /\ InOrder'
    BY <1>2, <1>3, <2>1, TurnFacts, GpuKeepsOrder DEF SourceOps, Op
  <2>3. \A f \in Epoch : done'[f] = IF f = e THEN done[f] \cup {1} ELSE done[f]
    BY <1>5, <2>1 DEF Op
  <2>4. \A f \in Epoch : f > e => 1 \notin done[f]
    <3>1. 1 <= queued[e] /\ 1 \notin done[e]
      BY <2>1 DEF OnSource, Turn
    <3>2. QED
      BY <1>1, <1>2, <3>1 DEF InOrder, SourceOps
  <2>5. Handshake'
    <3> SUFFICES ASSUME NEW f \in Epoch \ failed
                 PROVE  /\ f <= epoch /\ fence >= 2 * f - 1 => 2 \in done'[f]
                        /\ f <= epoch /\ fence >= 2 * f => 5 \in done'[f]
                        /\ 3 \in done'[f] => 2 \in done'[f]
                        /\ 6 \in done'[f] => 5 \in done'[f]
                        /\ 1 \in done'[f] /\ 4 \notin done'[f] => heap' = f
      BY <1>3, <2>1 DEF Handshake
    <3>1. /\ f <= epoch /\ fence >= 2 * f - 1 => 2 \in done[f]
          /\ f <= epoch /\ fence >= 2 * f => 5 \in done[f]
          /\ 3 \in done[f] => 2 \in done[f]
          /\ 6 \in done[f] => 5 \in done[f]
      BY <1>2 DEF Handshake
    <3>2. f < e => 4 \in done[f]
      BY <1>4, <2>1 DEF SourceOps
    <3>3. f < e \/ f = e \/ f > e
      BY <1>1, <1>2
    <3>4. CASE f = e
      <4>1. done'[f] = done[f] \cup {1} /\ heap' = f
        BY <2>1, <2>3, <3>4
      <4>2. QED
        BY <3>1, <4>1
    <3>5. CASE f # e
      <4>1. done'[f] = done[f] /\ (1 \in done[f] => 4 \in done[f])
        BY <1>2, <2>3, <2>4, <3>2, <3>3, <3>5
      <4>2. QED
        BY <3>1, <4>1
    <3>6. QED
      BY <3>4, <3>5
  <2>6. Known' /\ TransferDelivers'
    BY <1>2, <1>3, <2>1, <2>2 DEF Known, TransferDelivers
  <2>7. QED
    BY <2>2, <2>5, <2>6 DEF GInv
\* The two signals: a fence value of f or later tells about f.
<1>7. ASSUME NEW k \in {2, 5}, fence' = IF k = 2 THEN 2 * e - 1 ELSE 2 * e,
             \/ k \in SourceOps /\ OnSource(e, k)
             \/ k \in DestinationOps /\ OnDestination(e, k),
             Execute(e, k), UNCHANGED <<heap, result>>
      PROVE  GInv'
  <2>1. e <= epoch /\ Complete' /\ InOrder'
    BY <1>2, <1>3, <1>7, TurnFacts, GpuKeepsOrder DEF Op
  <2>2. \A f \in Epoch : done'[f] = IF f = e THEN done[f] \cup {k} ELSE done[f]
    BY <1>5, <1>7 DEF Op
  <2>3. \A f \in Epoch \ failed : f < e => 2 \in done[f] /\ 5 \in done[f]
    BY <1>4, <1>7
  <2>4. k = 5 => 3 \in done[e]
    BY <1>2, <1>7, TurnFacts DEF SourceOps, DestinationOps, Op
  <2>5. Handshake'
    <3> SUFFICES ASSUME NEW f \in Epoch \ failed
                 PROVE  /\ f <= epoch /\ fence' >= 2 * f - 1 => 2 \in done'[f]
                        /\ f <= epoch /\ fence' >= 2 * f => 5 \in done'[f]
                        /\ 3 \in done'[f] => 2 \in done'[f]
                        /\ 6 \in done'[f] => 5 \in done'[f]
                        /\ 1 \in done'[f] /\ 4 \notin done'[f] => heap' = f
      BY <1>3 DEF Handshake
    <3>1. /\ 3 \in done[f] => 2 \in done[f]
          /\ 6 \in done[f] => 5 \in done[f]
          /\ 1 \in done[f] /\ 4 \notin done[f] => heap = f
      BY <1>2 DEF Handshake
    <3>2. CASE f < e
      BY <1>7, <2>2, <2>3, <3>1, <3>2
    <3>3. CASE f = e
      <4>1. fence' >= 2 * f => k = 5
        BY <1>2, <1>7, <3>3
      <4>2. done'[f] = done[f] \cup {k} /\ heap' = heap /\ k \in {2, 5}
        BY <1>7, <2>2, <3>3
      <4>3. k = 5 => 2 \in done[f]
        BY <2>4, <3>1, <3>3
      <4>4. QED
        BY <3>1, <4>1, <4>2, <4>3
    <3>4. CASE f > e
      <4>1. ~(fence' >= 2 * f - 1) /\ ~(fence' >= 2 * f)
        BY <1>1, <1>2, <1>7, <3>4
      <4>2. f # e
        BY <1>1, <1>2, <3>4
      <4>3. done'[f] = done[f] /\ heap' = heap
        BY <1>7, <2>2, <4>2
      <4>4. QED
        BY <3>1, <4>1, <4>3
    <3>5. QED
      BY <1>1, <1>2, <3>2, <3>3, <3>4
  <2>6. Known'
    <3>1. fence' <= 2 * epoch
      BY <1>1, <1>2, <1>7, <2>1
    <3>2. QED
      BY <1>2, <1>3, <1>7, <3>1 DEF Known
  <2>7. TransferDelivers'
    BY <1>2, <1>3, <1>7 DEF TransferDelivers
  <2>8. QED
    BY <2>1, <2>5, <2>6, <2>7 DEF GInv
<1>8. CASE SignalReady(e)
  BY <1>7, <1>8 DEF SignalReady, SourceOps
<1>9. CASE SignalConsumed(e)
  BY <1>7, <1>9 DEF SignalConsumed, DestinationOps
\* The two waits: the fence has told that the other side is done.
<1>10. ASSUME NEW k \in {3, 6}, fence >= IF k = 3 THEN 2 * e - 1 ELSE 2 * e,
              \/ k \in SourceOps /\ OnSource(e, k)
              \/ k \in DestinationOps /\ OnDestination(e, k),
              Execute(e, k), UNCHANGED <<heap, fence, result>>
       PROVE  GInv'
  <2>1. e <= epoch /\ Complete' /\ InOrder'
    BY <1>2, <1>3, <1>10, TurnFacts, GpuKeepsOrder DEF Op
  <2>2. \A f \in Epoch : done'[f] = IF f = e THEN done[f] \cup {k} ELSE done[f]
    BY <1>5, <1>10 DEF Op
  <2>3. e \notin failed => (k = 3 => 2 \in done[e]) /\ (k = 6 => 5 \in done[e])
    BY <1>2, <1>10, <2>1 DEF Handshake
  <2>4. Handshake'
    <3> SUFFICES ASSUME NEW f \in Epoch \ failed
                 PROVE  /\ f <= epoch /\ fence >= 2 * f - 1 => 2 \in done'[f]
                        /\ f <= epoch /\ fence >= 2 * f => 5 \in done'[f]
                        /\ 3 \in done'[f] => 2 \in done'[f]
                        /\ 6 \in done'[f] => 5 \in done'[f]
                        /\ 1 \in done'[f] /\ 4 \notin done'[f] => heap = f
      BY <1>3, <1>10 DEF Handshake
    <3>1. /\ f <= epoch /\ fence >= 2 * f - 1 => 2 \in done[f]
          /\ f <= epoch /\ fence >= 2 * f => 5 \in done[f]
          /\ 3 \in done[f] => 2 \in done[f]
          /\ 6 \in done[f] => 5 \in done[f]
          /\ 1 \in done[f] /\ 4 \notin done[f] => heap = f
      BY <1>2 DEF Handshake
    <3>2. CASE f = e
      <4>1. done'[f] = done[f] \cup {k} /\ k \in {3, 6}
        BY <1>10, <2>2, <3>2
      <4>2. (k = 3 => 2 \in done[f]) /\ (k = 6 => 5 \in done[f])
        BY <2>3, <3>2
      <4>3. QED
        BY <3>1, <4>1, <4>2
    <3>3. CASE f # e
      <4>1. done'[f] = done[f]
        BY <2>2, <3>3
      <4>2. QED
        BY <3>1, <4>1
    <3>4. QED
      BY <3>2, <3>3
  <2>5. Known' /\ TransferDelivers'
    BY <1>2, <1>3, <1>10 DEF Known, TransferDelivers
  <2>6. QED
    BY <2>1, <2>4, <2>5 DEF GInv
<1>11. CASE WaitReady(e)
  BY <1>10, <1>11 DEF WaitReady, DestinationOps
<1>12. CASE WaitConsumed(e)
  BY <1>10, <1>12 DEF WaitConsumed, SourceOps
<1>13. CASE CopyOut(e)
  <2>1. /\ OnDestination(e, 4) /\ Execute(e, 4) /\ UNCHANGED <<heap, fence>>
        /\ result' = [result EXCEPT ![e] = heap]
    BY <1>13 DEF CopyOut
  <2>2. e <= epoch /\ Complete' /\ InOrder' /\ 3 \in done[e] /\ 4 \notin done[e]
    BY <1>2, <1>3, <2>1, TurnFacts, GpuKeepsOrder DEF DestinationOps, Op
  <2>3. \A f \in Epoch : done'[f] = IF f = e THEN done[f] \cup {4} ELSE done[f]
    BY <1>5, <2>1 DEF Op
  <2>4. e \notin failed => heap = e
    BY <1>2, <2>2 DEF Handshake, InOrder
  <2>5. Handshake'
    <3> SUFFICES ASSUME NEW f \in Epoch \ failed
                 PROVE  /\ f <= epoch /\ fence >= 2 * f - 1 => 2 \in done'[f]
                        /\ f <= epoch /\ fence >= 2 * f => 5 \in done'[f]
                        /\ 3 \in done'[f] => 2 \in done'[f]
                        /\ 6 \in done'[f] => 5 \in done'[f]
                        /\ 1 \in done'[f] /\ 4 \notin done'[f] => heap = f
      BY <1>3, <2>1 DEF Handshake
    <3>1. /\ f <= epoch /\ fence >= 2 * f - 1 => 2 \in done[f]
          /\ f <= epoch /\ fence >= 2 * f => 5 \in done[f]
          /\ 3 \in done[f] => 2 \in done[f]
          /\ 6 \in done[f] => 5 \in done[f]
          /\ 1 \in done[f] /\ 4 \notin done[f] => heap = f
      BY <1>2 DEF Handshake
    <3>2. done'[f] = done[f] \/ done'[f] = done[f] \cup {4}
      BY <2>3
    <3>3. QED
      BY <3>1, <3>2
  <2>6. Known'
    BY <1>2, <1>3, <2>1 DEF Known
  <2>7. TransferDelivers'
    BY <1>2, <1>3, <2>1, <2>4 DEF TransferDelivers, TypeOK
  <2>8. QED
    BY <2>2, <2>5, <2>6, <2>7 DEF GInv
<1>14. QED
  BY <1>6, <1>8, <1>9, <1>11, <1>12, <1>13 DEF Gpu

\* With one source stream transfer() delivers its own tensor: what a transfer
\* that did not raise copies to the destination is the payload it copied in,
\* for any number of threads and calls, whichever transfers before it raised
\* half-way and whatever late signals did to the fence.
THEOREM TransfersDeliver ==
  ASSUME OneStream
  PROVE  Spec => []TransferDelivers
<1>1. Init => GInv
  <2> SUFFICES ASSUME Init PROVE GInv
    OBVIOUS
  <2>1. PICK n \in Nat : Epoch = 1..n
    BY EpochIsInterval
  <2>2. HInv
    BY InitHInv
  <2>3. Complete /\ InOrder /\ Known /\ Handshake /\ TransferDelivers
    BY <2>1 DEF Init, Complete, InOrder, Known, Handshake, TransferDelivers
  <2>4. QED
    BY <2>2, <2>3 DEF GInv
<1>2. GInv /\ HInv' /\ [Next]_vars => GInv'
  <2> SUFFICES ASSUME GInv, HInv', [Next]_vars PROVE GInv'
    OBVIOUS
  <2>1. ASSUME NEW e \in Epoch, Gpu(e) PROVE GInv'
    BY <2>1, GpuKeepsGInv
  <2>2. ASSUME UNCHANGED gpu PROVE GInv'
    BY <2>2, HostKeepsGInv
  <2>3. UNCHANGED gpu \/ \E e \in Epoch : Gpu(e)
    BY DEF Next, InCall, Construct, Check, StartClose, Begin, Enqueue,
           FailTransfer, LockClose, FinishClose, vars
  <2>4. QED
    BY <2>1, <2>2, <2>3
<1>3. GInv => TransferDelivers
  BY DEF GInv
<1>4. QED
  BY <1>1, <1>2, <1>3, HostInvariant, PTL DEF Spec
=============================================================================
