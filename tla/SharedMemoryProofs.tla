------------------------- MODULE SharedMemoryProofs -------------------------
(***************************************************************************)
(* The safety of SharedMemoryAllReduce for workloads of any length, with   *)
(* and without timeouts and failing enqueues.  The types need no           *)
(* hypothesis.  The sums, the exclusive use of the slots and the           *)
(* refinement hold when no call of the host path follows one of the stream *)
(* path (HostFirst): without that the run shm_mixed refutes the sums.      *)
(*                                                                         *)
(* The argument joins two protocols.  On the host path the k-th wait of a  *)
(* rank tells which call it is in, and the barrier's own invariant (from   *)
(* PairBarrierProofs) keeps the ranks within one generation of each other. *)
(* On the stream path the words tell how far the peer's GPU is.            *)
(***************************************************************************)
EXTENDS SharedMemoryAllReduce, TLAPS

Q == INSTANCE PairBarrierProofs WITH MaxCalls <- 2 * MaxLen + 2
-----------------------------------------------------------------------------
(* The types, which hold for every workload.                               *)

\* A rank inside the host path is in a call.
InHostCall == {"copied", "adding", "added"}

HostCallBegun == \A r \in Rank : pc[r] \in InHostCall => calls[r] >= 1

\* What SharedMemoryAllReduce knows of its own variables and of the barrier.
TInv == TypeOK /\ HostCallBegun /\ Q!IInv

\* The assumption of the barrier, for the calls this module makes.
LEMMA BarrierBound ==
  2 * MaxLen + 2 \in Nat /\ MayTimeout \in BOOLEAN /\ MaxLen \in Nat
  BY SharedMemoryAssumption

\* The two copies of the barrier's type invariant are one formula.
LEMMA SameTypes == Q!TypeOK <=> B!TypeOK
  BY DEF Q!TypeOK, B!TypeOK, Q!Rank, B!Rank

\* The mapped-host all-reduce uses the barrier only through its own calls.
LEMMA BarrierStep ==
  ASSUME Next
  PROVE  Q!Next \/ UNCHANGED Q!vars
<1> USE DEF Q!vars, barrier, Rank, Q!Rank, B!Rank, Q!Peer, B!Peer, Peer
<1>1. ASSUME NEW r \in Rank, Construct(r) PROVE Q!Next
  BY <1>1 DEF Construct, B!Create, B!Holders, Q!Create, Q!Holders, Q!Next
<1>2. ASSUME NEW r \in Rank, BarrierSignal(r) PROVE Q!Next
  BY <1>2 DEF BarrierSignal, B!Signal, Q!Signal, Q!Next
<1>3. ASSUME NEW r \in Rank, BarrierPass(r) PROVE Q!Next
  BY <1>3 DEF BarrierPass, B!Consume, Q!Consume, Q!Next
<1>4. ASSUME NEW r \in Rank, BarrierTimeout(r) PROVE Q!Next
  BY <1>4 DEF BarrierTimeout, B!Expire, Q!Expire, Q!Next
<1>5. ASSUME NEW r \in Rank, Unmap(r) PROVE Q!Next
  BY <1>5 DEF Unmap, B!Close, Q!Close, Q!Next
<1>6. ASSUME NEW r \in Rank, NEW n \in 0..6, StreamCall(r, n)
      PROVE  UNCHANGED Q!vars
  BY <1>6 DEF StreamCall
<1>7. ASSUME NEW r \in Rank,
             RefuseCall(r) \/ HostCopy(r) \/ HostAdd(r) \/ Synchronize(r)
      PROVE  UNCHANGED Q!vars
  BY <1>7 DEF RefuseCall, HostCopy, HostAdd, Synchronize
<1>8. ASSUME NEW r \in Rank, NEW e \in Epoch, Gpu(r, e)
      PROVE  UNCHANGED Q!vars
  BY <1>8 DEF Gpu, WaitConsumed, CopyIn, WriteReady, WaitReady, Add, WriteConsumed
<1>9. QED
  BY <1>1, <1>2, <1>3, <1>4, <1>5, <1>6, <1>7, <1>8 DEF Next, Host

\* So the invariant of the barrier is one of the all-reduce.
LEMMA BarrierKept == Q!IInv /\ [Next]_vars => Q!IInv'
<1>1. [Next]_vars => [Q!Next]_(Q!vars)
  BY BarrierStep DEF vars, barrier, Q!vars
<1>2. QED
  BY <1>1, Q!NextIInv, BarrierBound

\* Nothing has happened yet.
LEMMA InitTInv == Init => TInv
<1> SUFFICES ASSUME Init PROVE TInv
  OBVIOUS
<1>1. Q!Init
  BY DEF Init, B!Init, Q!Init, B!Rank, Q!Rank
<1>2. Q!IInv
  BY <1>1, Q!InitIInv, BarrierBound
<1>3. B!TypeOK
  BY <1>2, SameTypes DEF Q!IInv
<1>4. 0 \in 0..MaxLen /\ 0 \in 0..EpochLimit /\ 0 \in 0..(WordSize - 1)
  BY SharedMemoryAssumption
<1>5. QED
  BY <1>2, <1>3, <1>4 DEF Init, TInv, TypeOK, HostCallBegun, InHostCall

\* The length of a workload is within the bound.
LEMMA WorkloadLength ==
  ASSUME workload \in Workloads
  PROVE  Len(workload) \in Nat /\ Len(workload) <= MaxLen /\ MaxLen \in Nat
  BY SharedMemoryAssumption

\* A step of the GPU is the next operation of its stream ...
LEMMA Op ==
  ASSUME NEW r \in Rank, NEW e \in Epoch, Gpu(r, e)
  PROVE  \E k \in 1..6 : Turn(r, e, k) /\ Advance(r, e)
  BY DEF Gpu, WaitConsumed, CopyIn, WriteReady, WaitReady, Add, WriteConsumed

\* ... and leaves the host and the barrier alone.
LEMMA GpuLeaves ==
  ASSUME NEW r \in Rank, NEW e \in Epoch, Gpu(r, e)
  PROVE  UNCHANGED <<host, stream, barrier>>
  BY DEF Gpu, WaitConsumed, CopyIn, WriteReady, WaitReady, Add, WriteConsumed

\* Every step keeps the types: an epoch is taken below the limit only, and what
\* is written into a word fits it.
LEMMA NextTInv == TInv /\ [Next]_vars => TInv'
<1> SUFFICES ASSUME TInv, [Next]_vars PROVE TInv'
  OBVIOUS
<1>1. Q!IInv'
  BY BarrierKept DEF TInv
<1>2. B!TypeOK'
  BY <1>1, SameTypes DEF Q!IInv, Q!TypeOK, B!TypeOK, Q!Rank, B!Rank
<1>3. TypeOK /\ HostCallBegun
  BY DEF TInv
<1>4. Len(workload) \in Nat /\ Len(workload) <= MaxLen /\ MaxLen \in Nat
  BY <1>3, WorkloadLength DEF TypeOK
<1>5. /\ EpochLimit \in Nat /\ WordSize \in Nat /\ EpochLimit < WordSize
  BY SharedMemoryAssumption
<1>6. ASSUME NEW r \in Rank, NEW n \in 0..6, StreamCall(r, n) PROVE TypeOK'
  <2>1. calls[r] + 1 \in 0..MaxLen /\ calls[r] + 1 \in Call
    BY <1>3, <1>4, <1>6 DEF StreamCall, Calling, TypeOK, Call
  <2>2. epoch[r] + 1 \in 0..EpochLimit
    BY <1>3, <1>5, <1>6 DEF StreamCall, TypeOK
  <2>3. QED
    BY <1>2, <1>3, <1>6, <2>1, <2>2 DEF StreamCall, TypeOK, memory
<1>7. ASSUME NEW r \in Rank, RefuseCall(r) PROVE TypeOK'
  <2>1. calls[r] + 1 \in 0..MaxLen /\ calls[r] + 1 \in Call
    BY <1>3, <1>4, <1>7 DEF RefuseCall, Calling, TypeOK, Call
  <2>2. QED
    BY <1>2, <1>3, <1>7, <2>1 DEF RefuseCall, TypeOK, stream, memory
<1>8. ASSUME NEW r \in Rank, HostCopy(r) PROVE TypeOK'
  <2>1. calls[r] + 1 \in 0..MaxLen
    BY <1>3, <1>4, <1>8 DEF HostCopy, Calling, TypeOK
  <2>2. QED
    BY <1>2, <1>3, <1>8, <2>1 DEF HostCopy, TypeOK, stream, AfterWait
<1>9. ASSUME NEW r \in Rank, HostAdd(r) PROVE TypeOK'
  <2>1. slot[Peer(r)] \in 0..MaxLen
    BY <1>3 DEF TypeOK, Rank, Peer
  <2>2. QED
    BY <1>2, <1>3, <1>9, <2>1 DEF HostAdd, TypeOK, stream, AfterWait
<1>10. ASSUME NEW r \in Rank, Construct(r) \/ Synchronize(r) \/ Unmap(r)
       PROVE TypeOK'
  BY <1>2, <1>3, <1>10
  DEF Construct, Synchronize, Unmap, TypeOK, stream, memory, AfterWait
<1>11. ASSUME NEW r \in Rank, BarrierSignal(r) PROVE TypeOK'
  BY <1>2, <1>3, <1>11 DEF BarrierSignal, TypeOK, host, stream, memory
<1>12. ASSUME NEW r \in Rank, BarrierPass(r) PROVE TypeOK'
  BY <1>2, <1>3, <1>12 DEF BarrierPass, TypeOK, stream, memory, AfterWait
<1>13. ASSUME NEW r \in Rank, BarrierTimeout(r) PROVE TypeOK'
  <2>1. pc[r] \in {"copied", "added"} => calls[r] \in Call
    BY <1>3, <1>4 DEF TypeOK, Call, HostCallBegun, InHostCall
  <2>2. QED
    BY <1>2, <1>3, <1>13, <2>1 DEF BarrierTimeout, TypeOK, stream, memory, AfterWait
<1>14. ASSUME NEW r \in Rank, NEW e \in Epoch, Gpu(r, e) PROVE TypeOK'
  <2>1. e \in Nat /\ Word(e) \in 0..(WordSize - 1)
    BY <1>4, <1>5 DEF Word, Epoch
  <2>2. done' \in [Rank -> [Epoch -> 0..6]]
    <3>1. PICK k \in 1..6 : Turn(r, e, k) /\ Advance(r, e)
      BY <1>14, Op
    <3>2. done[r][e] + 1 \in 0..6
      BY <3>1 DEF Turn
    <3>3. QED
      BY <1>3, <3>1, <3>2 DEF Advance, TypeOK
  <2>3. slot[Peer(r)] \in 0..MaxLen /\ callOf[r][e] \in 0..MaxLen
    BY <1>3 DEF TypeOK, Rank, Peer
  <2>4. /\ slot' \in [Rank -> 0..MaxLen]
        /\ ready' \in [Rank -> 0..(WordSize - 1)]
        /\ consumed' \in [Rank -> 0..(WordSize - 1)]
        /\ result' \in [Rank -> [Call -> 0..MaxLen]]
    <3>1. CASE WaitConsumed(r, e) \/ WaitReady(r, e)
      BY <1>3, <3>1 DEF WaitConsumed, WaitReady, TypeOK, memory
    <3>2. CASE CopyIn(r, e)
      BY <1>3, <2>3, <3>2 DEF CopyIn, TypeOK
    <3>3. CASE WriteReady(r, e)
      BY <1>3, <2>1, <3>3 DEF WriteReady, TypeOK
    <3>4. CASE Add(r, e)
      BY <1>3, <2>3, <3>4 DEF Add, TypeOK
    <3>5. CASE WriteConsumed(r, e)
      BY <1>3, <2>1, <3>5 DEF WriteConsumed, TypeOK
    <3>6. QED
      BY <1>14, <3>1, <3>2, <3>3, <3>4, <3>5 DEF Gpu
  <2>5. UNCHANGED <<workload, pc, calls, raised, epoch, queued, callOf>>
    BY <1>14, GpuLeaves DEF host, stream
  <2>6. QED
    BY <1>2, <1>3, <2>2, <2>4, <2>5 DEF TypeOK
<1>15. ASSUME UNCHANGED vars PROVE TypeOK'
  BY <1>2, <1>3, <1>15 DEF vars, host, stream, memory, TypeOK
<1>16. TypeOK'
  BY <1>6, <1>7, <1>8, <1>9, <1>10, <1>11, <1>12, <1>13, <1>14, <1>15
  DEF Next, Host
<1>17. HostCallBegun'
  <2>1. ASSUME NEW r \in Rank, NEW q \in Rank, Host(r), pc'[q] \in InHostCall
        PROVE  calls'[q] >= 1
    BY <1>3, <1>4, <2>1
    DEF Host, Construct, StreamCall, RefuseCall, HostCopy, HostAdd, Synchronize,
        BarrierSignal, BarrierPass, BarrierTimeout, Unmap, Calling, AfterWait,
        HostCallBegun, InHostCall, TypeOK, host
  <2>2. ASSUME NEW r \in Rank, NEW e \in Epoch, Gpu(r, e) PROVE HostCallBegun'
    BY <1>3, <2>2, GpuLeaves DEF HostCallBegun, host
  <2>3. ASSUME UNCHANGED vars PROVE HostCallBegun'
    BY <1>3, <2>3 DEF HostCallBegun, vars, host
  <2>4. QED
    BY <2>1, <2>2, <2>3 DEF Next, HostCallBegun
<1>18. QED
  BY <1>1, <1>16, <1>17 DEF TInv

\* The types of the mapped-host all-reduce, and that no word and no counter of
\* it leaves its width, for every workload.
THEOREM MappedHostTypes == Spec => []TypeOK
<1>1. TInv => TypeOK
  BY DEF TInv
<1>2. QED
  BY <1>1, InitTInv, NextTInv, PTL DEF Spec
-----------------------------------------------------------------------------
(* The words, for every workload and whatever fails.  A fence of D3D12 has *)
(* two writers and can be set back after a failure; a word has one writer, *)
(* whose stream is in order.                                               *)

\* Only epochs that were given out are on the stream.
Numbered(r) ==
  \A e \in Epoch : /\ e > epoch[r] => queued[r][e] = 0
                   /\ done[r][e] <= queued[r][e]

\* The GPU executes its stream in order.
InOrder(r) ==
  \A e, f \in Epoch : f < e /\ done[r][e] > 0 => done[r][f] = queued[r][f]

\* A ready word was written by the rank itself in that epoch, a consumed word
\* by its peer.
WordMeaning(r) ==
  /\ ready[r] # 0 => ready[r] \in Epoch /\ done[r][ready[r]] >= 3
  /\ consumed[r] # 0 => consumed[r] \in Epoch /\ done[Peer(r)][consumed[r]] = 6

WInv == TInv /\ \A r \in Rank : Numbered(r) /\ InOrder(r) /\ WordMeaning(r)

\* No step takes a word back.
WordsRise == \A r \in Rank : ready'[r] >= ready[r] /\ consumed'[r] >= consumed[r]

\* What the arguments about the words use of the types.
LEMMA WordTypes ==
  ASSUME TypeOK, NEW r \in Rank
  PROVE  /\ Peer(r) \in Rank /\ Peer(Peer(r)) = r
         /\ epoch[r] \in Nat /\ epoch[r] <= EpochLimit
         /\ ready[r] \in Nat /\ consumed[r] \in Nat
         /\ \A e \in Epoch : /\ e \in Nat /\ e >= 1
                             /\ queued[r][e] \in Nat /\ queued[r][e] <= 6
                             /\ done[r][e] \in Nat /\ done[r][e] <= 6
<1>1. Peer(r) \in Rank /\ Peer(Peer(r)) = r
  BY DEF Peer, Rank
<1>2. epoch[r] \in 0..EpochLimit /\ EpochLimit \in Nat
  BY SharedMemoryAssumption DEF TypeOK
<1>3. ready[r] \in 0..(WordSize - 1) /\ consumed[r] \in 0..(WordSize - 1)
  BY DEF TypeOK
<1>4. ASSUME NEW e \in Epoch
      PROVE  /\ e \in Nat /\ e >= 1
             /\ queued[r][e] \in Nat /\ queued[r][e] <= 6
             /\ done[r][e] \in Nat /\ done[r][e] <= 6
  <2>1. queued[r][e] \in 0..6 /\ done[r][e] \in 0..6
    BY DEF TypeOK
  <2>2. e \in Nat /\ e >= 1
    BY SharedMemoryAssumption DEF Epoch
  <2>3. QED
    BY <2>1, <2>2
<1>5. QED
  BY <1>1, <1>2, <1>3, <1>4

\* Nothing is on the streams.
LEMMA InitWInv == Init => WInv
<1> SUFFICES ASSUME Init PROVE WInv
  OBVIOUS
<1>1. TInv
  BY InitTInv
<1>2. ASSUME NEW r \in Rank
      PROVE  /\ ready[r] = 0 /\ consumed[r] = 0
             /\ \A e \in Epoch : done[r][e] = 0 /\ queued[r][e] = 0
  BY <1>2 DEF Init
<1>3. QED
  BY <1>1, <1>2 DEF WInv, Numbered, InOrder, WordMeaning

\* A stream-path call takes a new epoch, on which nothing is enqueued yet.
LEMMA StreamCallKeepsWords ==
  ASSUME WInv, NEW p \in Rank, NEW n \in 0..6, StreamCall(p, n), NEW r \in Rank
  PROVE  Numbered(r)' /\ InOrder(r)'
<1>1. TypeOK /\ Numbered(r) /\ InOrder(r)
  BY DEF WInv, TInv
<1>2. UNCHANGED done
  BY DEF StreamCall
<1>3. CASE r # p
  <2>1. epoch'[r] = epoch[r] /\ queued'[r] = queued[r]
    BY <1>1, <1>3 DEF StreamCall, TypeOK
  <2>2. QED
    BY <1>1, <1>2, <2>1 DEF Numbered, InOrder
<1>4. CASE r = p
  <2>1. epoch'[r] = epoch[r] + 1
    BY <1>1, <1>4 DEF StreamCall, TypeOK
  <2>2. \A e \in Epoch : queued'[r][e] = IF e = epoch[r] + 1 THEN n ELSE queued[r][e]
    BY <1>1, <1>4 DEF StreamCall, TypeOK
  <2>3. ASSUME NEW e \in Epoch, e > epoch[r] PROVE queued[r][e] = 0 /\ done[r][e] = 0
    <3>1. queued[r][e] = 0 /\ done[r][e] <= 0
      BY <1>1, <2>3 DEF Numbered
    <3>2. QED
      BY <1>1, <3>1, WordTypes
  <2>4. ASSUME NEW e \in Epoch
        PROVE  (e > epoch'[r] => queued'[r][e] = 0) /\ done'[r][e] <= queued'[r][e]
    <3>1. e \in Nat /\ epoch[r] \in Nat /\ n \in Nat
      BY <1>1, WordTypes
    <3>2. CASE e = epoch[r] + 1
      BY <1>2, <2>1, <2>2, <2>3, <3>1, <3>2
    <3>3. CASE e # epoch[r] + 1
      <4>1. done[r][e] <= queued[r][e]
        BY <1>1 DEF Numbered
      <4>2. QED
        BY <1>2, <2>1, <2>2, <2>3, <3>1, <3>3, <4>1
    <3>4. QED
      BY <3>2, <3>3
  <2>5. ASSUME NEW e \in Epoch, NEW f \in Epoch, f < e, done'[r][e] > 0
        PROVE  done'[r][f] = queued'[r][f]
    <3>1. e \in Nat /\ f \in Nat /\ epoch[r] \in Nat
      BY <1>1, WordTypes
    <3>2. e <= epoch[r]
      BY <1>2, <2>3, <2>5, <3>1
    <3>3. f # epoch[r] + 1
      BY <2>5, <3>1, <3>2
    <3>4. done[r][f] = queued[r][f]
      BY <1>1, <1>2, <2>5 DEF InOrder
    <3>5. QED
      BY <1>2, <2>2, <3>3, <3>4
  <2>6. QED
    BY <2>4, <2>5 DEF Numbered, InOrder
<1>5. QED
  BY <1>3, <1>4

\* The other steps of a host leave streams and words alone.
LEMMA HostKeepsWords ==
  ASSUME WInv, TInv', NEW p \in Rank, Host(p)
  PROVE  WInv' /\ WordsRise
<1>1. UNCHANGED <<done, ready, consumed>>
  BY DEF Host, Construct, StreamCall, RefuseCall, HostCopy, HostAdd, Synchronize,
         BarrierSignal, BarrierPass, BarrierTimeout, Unmap, memory
<1>2. (\E n \in 0..6 : StreamCall(p, n)) \/ UNCHANGED <<epoch, queued>>
  BY DEF Host, Construct, RefuseCall, HostCopy, HostAdd, Synchronize,
         BarrierSignal, BarrierPass, BarrierTimeout, Unmap, stream
<1>3. ASSUME NEW r \in Rank PROVE Numbered(r)' /\ InOrder(r)' /\ WordMeaning(r)'
  <2>1. Numbered(r) /\ InOrder(r) /\ WordMeaning(r)
    BY DEF WInv
  <2>2. Numbered(r)' /\ InOrder(r)'
    BY <1>1, <1>2, <2>1, StreamCallKeepsWords DEF Numbered, InOrder
  <2>3. QED
    BY <1>1, <2>1, <2>2 DEF WordMeaning
<1>4. WordsRise
  BY <1>1, WordTypes DEF WordsRise, WInv, TInv
<1>5. QED
  BY <1>3, <1>4 DEF WInv

\* An operation runs in the order of its stream; the one that writes a word is
\* of a later epoch than the one that wrote it before.
LEMMA GpuKeepsWords ==
  ASSUME WInv, TInv', NEW p \in Rank, NEW e \in Epoch, Gpu(p, e)
  PROVE  WInv' /\ WordsRise
<1>1. TypeOK /\ \A r \in Rank : Numbered(r) /\ InOrder(r) /\ WordMeaning(r)
  BY DEF WInv, TInv
<1>2. PICK k \in 1..6 : Turn(p, e, k) /\ Advance(p, e)
  BY Op
<1>3. UNCHANGED <<epoch, queued>>
  BY GpuLeaves DEF stream
<1>4. /\ e \in Nat /\ e >= 1 /\ k \in Nat /\ k >= 1
      /\ done[p][e] = k - 1 /\ k <= queued[p][e] /\ queued[p][e] \in Nat
      /\ \A f \in 1..(e - 1) : done[p][f] = queued[p][f]
  BY <1>1, <1>2, WordTypes DEF Turn
<1>5. /\ done'[p][e] = k
      /\ \A r \in Rank, f \in Epoch : r # p \/ f # e => done'[r][f] = done[r][f]
  BY <1>1, <1>2, <1>4 DEF Advance, TypeOK
<1>6. Word(e) = e
  <2>1. e <= epoch[p]
    BY <1>1, <1>4, WordTypes DEF Numbered
  <2>2. e < WordSize
    BY <1>1, <1>4, <2>1, WordTypes, SharedMemoryAssumption
  <2>3. QED
    BY <1>4, <2>2, SharedMemoryAssumption DEF Word
<1>7. ASSUME NEW v \in Epoch, done[p][v] >= k PROVE v < e
  <2>1. v \in Nat /\ v # e /\ done[p][v] > 0
    <3>1. v \in Nat /\ done[p][v] \in Nat
      BY <1>1, WordTypes
    <3>2. v # e
      BY <1>4, <1>7
    <3>3. QED
      BY <1>4, <1>7, <3>1, <3>2
  <2>2. CASE v > e
    <3>1. done[p][e] = queued[p][e]
      BY <1>1, <2>1, <2>2 DEF InOrder
    <3>2. QED
      BY <1>4, <3>1
  <2>3. QED
    BY <1>4, <2>1, <2>2
<1>8. \A r \in Rank, f \in Epoch : done'[r][f] >= done[r][f]
  BY <1>1, <1>4, <1>5, WordTypes
<1>9. ASSUME NEW r \in Rank PROVE Numbered(r)'
  <2>1. Numbered(r)
    BY <1>1
  <2>2. \A f \in Epoch : done'[r][f] <= queued[r][f]
    BY <1>4, <1>5, <2>1 DEF Numbered
  <2>3. QED
    BY <1>3, <2>1, <2>2 DEF Numbered
<1>10. ASSUME NEW r \in Rank, NEW g \in Epoch, NEW f \in Epoch, f < g, done'[r][g] > 0
       PROVE  done'[r][f] = queued'[r][f]
  <2>1. f \in Nat /\ g \in Nat /\ f >= 1
    BY <1>1, WordTypes
  <2>2. CASE r # p
    BY <1>1, <1>3, <1>5, <1>10, <2>2 DEF InOrder
  <2>3. CASE r = p /\ g = e
    <3>1. f # e /\ f \in 1..(e - 1)
      BY <1>4, <1>10, <2>1, <2>3
    <3>2. QED
      BY <1>3, <1>4, <1>5, <2>3, <3>1
  <2>4. CASE r = p /\ g # e
    <3>1. done[p][f] = queued[p][f]
      BY <1>1, <1>5, <1>10, <2>4 DEF InOrder
    <3>2. f # e
      BY <1>4, <3>1
    <3>3. QED
      BY <1>3, <1>5, <2>4, <3>1, <3>2
  <2>5. QED
    BY <2>2, <2>3, <2>4
<1>11. /\ \/ UNCHANGED ready
          \/ k = 3 /\ ready' = [ready EXCEPT ![p] = e]
       /\ \/ UNCHANGED consumed
          \/ k = 6 /\ consumed' = [consumed EXCEPT ![Peer(p)] = e]
  <2>1. ASSUME Turn(p, e, 3) PROVE k = 3
    BY <1>4, <2>1 DEF Turn
  <2>2. ASSUME Turn(p, e, 6) PROVE k = 6
    BY <1>4, <2>2 DEF Turn
  <2>3. QED
    BY <1>6, <2>1, <2>2
    DEF Gpu, WaitConsumed, CopyIn, WriteReady, WaitReady, Add, WriteConsumed, memory
<1>12. ASSUME NEW r \in Rank PROVE WordMeaning(r)' /\ ready'[r] >= ready[r] /\ consumed'[r] >= consumed[r]
  <2>1. WordMeaning(r) /\ ready[r] \in Nat /\ consumed[r] \in Nat
        /\ Peer(r) \in Rank /\ Peer(Peer(r)) = r
    BY <1>1, WordTypes
  <2>2. (ready'[r] # 0 => ready'[r] \in Epoch /\ done'[r][ready'[r]] >= 3) /\ ready'[r] >= ready[r]
    <3>1. CASE ready'[r] = ready[r]
      <4>1. ASSUME NEW f \in Epoch, done[r][f] >= 3 PROVE done'[r][f] >= 3
        <5>1. done[r][f] \in Nat /\ done'[r][f] >= done[r][f]
          BY <1>1, <1>8, WordTypes
        <5>2. CASE r = p /\ f = e
          BY <1>4, <1>5, <4>1, <5>2
        <5>3. CASE r # p \/ f # e
          BY <1>5, <4>1, <5>3
        <5>4. QED
          BY <5>2, <5>3
      <4>2. QED
        BY <2>1, <3>1, <4>1 DEF WordMeaning
    <3>2. CASE ready'[r] # ready[r]
      <4>1. k = 3 /\ r = p /\ ready'[r] = e
        BY <1>1, <1>11, <3>2 DEF TypeOK
      <4>2. ready[r] # 0 => ready[r] < e
        BY <1>7, <2>1, <4>1 DEF WordMeaning
      <4>3. QED
        BY <1>4, <1>5, <2>1, <4>1, <4>2
    <3>3. QED
      BY <3>1, <3>2
  <2>3. /\ consumed'[r] # 0 => consumed'[r] \in Epoch /\ done'[Peer(r)][consumed'[r]] = 6
        /\ consumed'[r] >= consumed[r]
    <3>1. CASE consumed'[r] = consumed[r]
      <4>1. ASSUME NEW f \in Epoch, done[Peer(r)][f] = 6 PROVE done'[Peer(r)][f] = 6
        <5>1. f # e \/ Peer(r) # p
          BY <1>4, <4>1
        <5>2. QED
          BY <1>5, <2>1, <4>1, <5>1
      <4>2. QED
        BY <2>1, <3>1, <4>1 DEF WordMeaning
    <3>2. CASE consumed'[r] # consumed[r]
      <4>1. k = 6 /\ r = Peer(p) /\ consumed'[r] = e
        BY <1>1, <1>11, <3>2 DEF TypeOK
      <4>2. Peer(r) = p
        BY <4>1, <1>1, WordTypes
      <4>3. consumed[r] # 0 => consumed[r] < e
        BY <1>7, <2>1, <4>1, <4>2 DEF WordMeaning
      <4>4. QED
        BY <1>4, <1>5, <2>1, <4>1, <4>2, <4>3
    <3>3. QED
      BY <3>1, <3>2
  <2>4. QED
    BY <2>2, <2>3 DEF WordMeaning, Peer
<1>13. QED
  BY <1>9, <1>10, <1>12 DEF WInv, InOrder, WordsRise

\* No step takes a control word of the mapping back, for every workload, with
\* timeouts, half-enqueued calls and the epoch limit: hipStreamWaitValue32 of
\* the peer, once satisfied for an epoch, stays so.
THEOREM WordsAreMonotone == Spec => [][WordsRise]_vars
<1>1. WInv /\ [Next]_vars => WInv' /\ [WordsRise]_vars
  <2> SUFFICES ASSUME WInv, [Next]_vars PROVE WInv' /\ [WordsRise]_vars
    OBVIOUS
  <2>1. TInv'
    BY NextTInv DEF WInv
  <2>2. CASE UNCHANGED vars
    <3>1. \A r \in Rank : Numbered(r)' /\ InOrder(r)' /\ WordMeaning(r)'
      BY <2>2 DEF WInv, Numbered, InOrder, WordMeaning, vars, stream, memory
    <3>2. QED
      BY <2>1, <2>2, <3>1 DEF WInv
  <2>3. CASE Next
    BY <2>1, <2>3, HostKeepsWords, GpuKeepsWords DEF Next
  <2>4. QED
    BY <2>2, <2>3
<1>2. QED
  BY <1>1, InitWInv, PTL DEF Spec
-----------------------------------------------------------------------------
(* The host path: which generation of the barrier a rank is in.            *)

\* In every workload the calls of the host path come first.
HostFirst ==
  \A w \in Workloads : \E n \in 0..Len(w) :
    \A c \in 1..Len(w) : w[c] = "host" <=> c <= n

\* How many they are.
HostCalls ==
  CHOOSE n \in 0..Len(workload) :
    \A c \in 1..Len(workload) : workload[c] = "host" <=> c <= n

\* No call of rank r up to c has raised.
Clean(r, c) == \A d \in raised[r] : d > c

\* Rank r has left its call c.
Ended(r, c) == calls[r] > c \/ (calls[r] = c /\ pc[r] \notin InHostCall)

\* Where a rank can be, and with which calls behind it.
Place(r) ==
  /\ calls[r] <= Len(workload)
  /\ at[r] = "waiting" => pc[r] \in DOMAIN AfterWait
  /\ pc[r] \in {"new", "constructing", "failed"} => calls[r] = 0
  /\ pc[r] \in InHostCall =>
       calls[r] >= 1 /\ calls[r] <= HostCalls /\ calls[r] \notin raised[r]
  /\ pc[r] \in {"destroying", "unmapping", "closed"} => calls[r] = Len(workload)
  /\ \A d \in raised[r] : d <= calls[r]

\* Where a rank is in the host path tells how often it has entered the
\* barrier, as long as none of its calls raised.
Pace(r) ==
  LET inside == IF at[r] = "waiting" THEN 1 ELSE 0
  IN  raised[r] = {} /\ calls[r] <= HostCalls =>
        /\ pc[r] \in {"new", "constructing"} => entered[r] = inside /\ expired[r] = 0
        /\ pc[r] = "failed" => entered[r] <= 1
        /\ pc[r] = "idle" => entered[r] = 2 * calls[r] + 1 /\ expired[r] = 0
        /\ pc[r] = "copied" =>
             entered[r] = 2 * calls[r] - 1 + inside /\ expired[r] = 0
        /\ pc[r] = "adding" => entered[r] = 2 * calls[r] /\ expired[r] = 0
        /\ pc[r] = "added" => entered[r] = 2 * calls[r] + inside /\ expired[r] = 0

\* A rank that left its call c of the host path has passed the second barrier
\* of that call.
Separation(r) ==
  \A c \in 1..HostCalls : Clean(r, c) /\ Ended(r, c) => passed[r] >= 2 * c + 1

HInv == TInv /\ \A r \in Rank : Place(r) /\ Pace(r) /\ Separation(r)

\* What HostFirst says of the workload that runs.
LEMMA HostPrefix ==
  ASSUME HostFirst, workload \in Workloads
  PROVE  /\ HostCalls \in Nat /\ HostCalls <= Len(workload)
         /\ Len(workload) \in Nat /\ Len(workload) <= MaxLen /\ MaxLen \in Nat
         /\ \A c \in 1..Len(workload) : workload[c] = "host" <=> c <= HostCalls
<1>1. Len(workload) \in Nat /\ Len(workload) <= MaxLen /\ MaxLen \in Nat
  BY WorkloadLength
<1>2. \E n \in 0..Len(workload) :
        \A c \in 1..Len(workload) : workload[c] = "host" <=> c <= n
  BY DEF HostFirst
<1>3. /\ HostCalls \in 0..Len(workload)
      /\ \A c \in 1..Len(workload) : workload[c] = "host" <=> c <= HostCalls
  BY <1>2 DEF HostCalls
<1>4. QED
  BY <1>1, <1>3

\* Nobody changes the workload.
LEMMA WorkloadFixed ==
  ASSUME [Next]_vars
  PROVE  workload' = workload /\ HostCalls' = HostCalls
<1>1. workload' = workload
  <2>1. ASSUME NEW r \in Rank, Host(r) PROVE workload' = workload
    BY <2>1
    DEF Host, Construct, StreamCall, RefuseCall, HostCopy, HostAdd, Synchronize,
        BarrierSignal, BarrierPass, BarrierTimeout, Unmap, host
  <2>2. ASSUME NEW r \in Rank, NEW e \in Epoch, Gpu(r, e)
        PROVE  workload' = workload
    BY <2>2, GpuLeaves DEF host
  <2>3. QED
    BY <2>1, <2>2 DEF Next, vars, host
<1>2. QED
  BY <1>1 DEF HostCalls

\* A rank that does not move keeps its place.
LEMMA StillRank ==
  ASSUME NEW q \in Rank, Place(q), Pace(q), Separation(q),
         workload' = workload, HostCalls' = HostCalls,
         pc'[q] = pc[q], calls'[q] = calls[q], raised'[q] = raised[q],
         at'[q] = at[q], entered'[q] = entered[q], passed'[q] = passed[q],
         expired'[q] = expired[q]
  PROVE  Place(q)' /\ Pace(q)' /\ Separation(q)'
<1>1. Place(q)'
  BY DEF Place
<1>2. Pace(q)'
  BY DEF Pace
<1>3. Separation(q)'
  BY DEF Separation, Clean, Ended
<1>4. QED
  BY <1>1, <1>2, <1>3

\* At the start nobody has entered the barrier.
LEMMA InitHInv == HostFirst /\ Init => HInv
<1> SUFFICES ASSUME HostFirst, Init PROVE HInv
  OBVIOUS
<1>1. TInv
  BY InitTInv
<1>2. HostCalls \in Nat /\ Len(workload) \in Nat
  BY HostPrefix DEF Init
<1>3. ASSUME NEW r \in Rank PROVE Place(r) /\ Pace(r) /\ Separation(r)
  <2>1. /\ pc[r] = "new" /\ calls[r] = 0 /\ raised[r] = {}
        /\ at[r] = "new" /\ entered[r] = 0 /\ passed[r] = 0 /\ expired[r] = 0
    BY DEF Init, B!Init, B!Rank, Rank
  <2>2. QED
    BY <1>2, <2>1 DEF Place, Pace, Separation, Clean, Ended, InHostCall
<1>4. QED
  BY <1>1, <1>3 DEF HInv

\* A rank that goes on on the stream path leaves the host path behind.
LEMMA BeyondHostCalls ==
  ASSUME NEW r \in Rank, Place(r), Pace(r), Separation(r),
         workload' = workload, HostCalls' = HostCalls, HostCalls \in Nat,
         calls[r] \in Nat, Len(workload) \in Nat, raised[r] \subseteq Nat,
         pc[r] = "idle", pc'[r] = "idle", calls'[r] = calls[r] + 1,
         raised'[r] = raised[r] \/ raised'[r] = raised[r] \cup {calls[r] + 1},
         calls[r] + 1 \in 1..Len(workload), calls[r] + 1 > HostCalls,
         UNCHANGED <<at, entered, passed, expired>>
  PROVE  Place(r)' /\ Pace(r)' /\ Separation(r)'
<1>1. Place(r)'
  BY DEF Place, InHostCall, AfterWait
<1>2. Pace(r)'
  BY DEF Pace
<1>3. ASSUME NEW c \in 1..HostCalls, Clean(r, c)'
      PROVE  passed'[r] >= 2 * c + 1
  <2>1. Clean(r, c) /\ Ended(r, c)
    BY <1>3 DEF Clean, Ended, InHostCall
  <2>2. QED
    BY <2>1 DEF Separation
<1>4. QED
  BY <1>1, <1>2, <1>3 DEF Separation

\* What the step of a rank does to the rank itself.
LEMMA HostKeepsOwn ==
  ASSUME HostFirst, HInv, NEW r \in Rank, Host(r), workload' = workload,
         HostCalls' = HostCalls
  PROVE  Place(r)' /\ Pace(r)' /\ Separation(r)'
<1>1. /\ HostCalls \in Nat /\ HostCalls <= Len(workload)
      /\ Len(workload) \in Nat
      /\ \A c \in 1..Len(workload) : workload[c] = "host" <=> c <= HostCalls
  BY HostPrefix DEF HInv, TInv, TypeOK
<1>2. /\ Place(r) /\ Pace(r) /\ Separation(r)
      /\ calls \in [Rank -> 0..MaxLen] /\ raised \in [Rank -> SUBSET Call]
      /\ pc \in [Rank -> {"new", "idle", "adding", "unmapping", "closed", "failed"}
                           \cup DOMAIN AfterWait]
      /\ calls[r] \in Nat /\ raised[r] \subseteq Nat
  BY SharedMemoryAssumption DEF HInv, TInv, TypeOK, Call
<1>3. /\ at \in [Rank -> {"new", "out", "waiting", "closed"}]
      /\ entered \in [Rank -> Nat] /\ passed \in [Rank -> Nat]
      /\ expired \in [Rank -> Nat]
      /\ entered[r] = passed[r] + expired[r] + (IF at[r] = "waiting" THEN 1 ELSE 0)
  BY BarrierBound
  DEF HInv, TInv, Q!IInv, Q!TypeOK, Q!Accounting, Q!Rank, Rank
<1> USE <1>1, <1>2, <1>3
    DEF Place, Pace, Separation, Clean, Ended, InHostCall, AfterWait
<1>4. CASE Construct(r)
  BY <1>4 DEF Construct, B!Create
<1>5. ASSUME NEW n \in 0..6, StreamCall(r, n)
      PROVE  Place(r)' /\ Pace(r)' /\ Separation(r)'
  <2>1. /\ pc[r] = "idle" /\ pc'[r] = "idle" /\ calls'[r] = calls[r] + 1
        /\ raised'[r] = raised[r] \/ raised'[r] = raised[r] \cup {calls[r] + 1}
        /\ calls[r] + 1 \in 1..Len(workload) /\ calls[r] + 1 > HostCalls
        /\ UNCHANGED <<at, entered, passed, expired>>
    BY <1>5 DEF StreamCall, Calling, barrier
  <2>2. QED
    BY <2>1, BeyondHostCalls
<1>6. CASE RefuseCall(r)
  <2>1. /\ pc[r] = "idle" /\ pc'[r] = "idle" /\ calls'[r] = calls[r] + 1
        /\ raised'[r] = raised[r] \cup {calls[r] + 1}
        /\ calls[r] + 1 \in 1..Len(workload) /\ calls[r] + 1 > HostCalls
        /\ UNCHANGED <<at, entered, passed, expired>>
    BY <1>6 DEF RefuseCall, Calling, barrier
  <2>2. QED
    BY <2>1, BeyondHostCalls
<1>7. CASE HostCopy(r)
  <2>1. /\ pc[r] = "idle" /\ pc'[r] = "copied" /\ calls'[r] = calls[r] + 1
        /\ raised'[r] = raised[r]
        /\ calls[r] + 1 \in 1..Len(workload) /\ calls[r] + 1 <= HostCalls
        /\ UNCHANGED <<at, entered, passed, expired>>
    BY <1>7 DEF HostCopy, Calling, barrier
  <2>2. Place(r)'
    BY <2>1
  <2>3. Pace(r)'
    <3>1. at'[r] # "waiting"
      BY <2>1
    <3>2. ASSUME raised[r] = {}
          PROVE  entered'[r] = 2 * calls'[r] - 1 /\ expired'[r] = 0
      <4>1. entered[r] = 2 * calls[r] + 1 /\ expired[r] = 0
        BY <2>1, <3>2
      <4>2. QED
        BY <2>1, <4>1
    <3>3. QED
      BY <2>1, <3>1, <3>2
  <2>4. ASSUME NEW c \in 1..HostCalls, Clean(r, c)', Ended(r, c)'
        PROVE  passed'[r] >= 2 * c + 1
    <3>1. Clean(r, c)
      BY <2>1, <2>4
    <3>2. Ended(r, c)
      BY <2>1, <2>4
    <3>3. QED
      BY <2>1, <3>1, <3>2
  <2>5. QED
    BY <2>2, <2>3, <2>4
<1>8. CASE HostAdd(r)
  BY <1>8 DEF HostAdd, barrier
<1>9. CASE Synchronize(r)
  BY <1>9 DEF Synchronize, barrier
<1>10. CASE BarrierSignal(r)
  BY <1>10 DEF BarrierSignal, B!Signal, host
<1>11. CASE BarrierPass(r)
  <2>1. /\ pc'[r] = AfterWait[pc[r]] /\ pc[r] \in DOMAIN AfterWait
        /\ at[r] = "waiting" /\ at'[r] = "out" /\ passed'[r] = passed[r] + 1
        /\ UNCHANGED <<calls, raised, entered, expired>>
    BY <1>11 DEF BarrierPass, B!Consume
  <2>2. Place(r)'
    BY <2>1
  <2>3. Pace(r)'
    BY <2>1
  <2>4. ASSUME NEW c \in 1..HostCalls, Clean(r, c)', Ended(r, c)'
        PROVE  passed'[r] >= 2 * c + 1
    <3>1. CASE Ended(r, c)
      <4>1. Clean(r, c)
        BY <2>1, <2>4
      <4>2. passed[r] >= 2 * c + 1
        BY <3>1, <4>1
      <4>3. QED
        BY <2>1, <4>2
    <3>2. CASE ~Ended(r, c)
      <4>1. calls[r] = c /\ pc[r] = "added"
        BY <2>1, <2>4, <3>2
      <4>2. raised[r] = {}
        BY <2>1, <2>4, <4>1
      <4>3. QED
        BY <2>1, <4>1, <4>2
    <3>3. QED
      BY <3>1, <3>2
  <2>5. QED
    BY <2>2, <2>3, <2>4
<1>12. CASE BarrierTimeout(r)
  BY <1>12 DEF BarrierTimeout, B!Expire
<1>13. CASE Unmap(r)
  BY <1>13 DEF Unmap, B!Close
<1>14. QED
  BY <1>4, <1>5, <1>6, <1>7, <1>8, <1>9, <1>10, <1>11, <1>12, <1>13 DEF Host

\* What the step of a rank does to its peer: nothing but the event.
LEMMA HostKeepsPeer ==
  ASSUME HInv, NEW r \in Rank, NEW q \in Rank, q # r, Host(r),
         workload' = workload, HostCalls' = HostCalls
  PROVE  Place(q)' /\ Pace(q)' /\ Separation(q)'
<1>1. /\ pc'[q] = pc[q] /\ calls'[q] = calls[q] /\ raised'[q] = raised[q]
      /\ at'[q] = at[q] /\ entered'[q] = entered[q] /\ passed'[q] = passed[q]
      /\ expired'[q] = expired[q]
  BY DEF HInv, TInv, TypeOK, B!TypeOK, B!Rank, Rank, Host, Construct, StreamCall,
         RefuseCall, HostCopy, HostAdd, Synchronize, BarrierSignal, BarrierPass,
         BarrierTimeout, Unmap, B!Create, B!Signal, B!Consume, B!Expire, B!Close,
         host, barrier
<1>2. QED
  BY <1>1, StillRank DEF HInv

\* Every step keeps the host path's invariant.
LEMMA NextHInv == HostFirst /\ HInv /\ [Next]_vars => HInv'
<1> SUFFICES ASSUME HostFirst, HInv, [Next]_vars PROVE HInv'
  OBVIOUS
<1>1. TInv'
  BY NextTInv DEF HInv
<1>2. workload' = workload /\ HostCalls' = HostCalls
  BY WorkloadFixed
<1>3. ASSUME NEW r \in Rank, Host(r), NEW q \in Rank
      PROVE  Place(q)' /\ Pace(q)' /\ Separation(q)'
  BY <1>2, <1>3, HostKeepsOwn, HostKeepsPeer
<1>4. ASSUME NEW q \in Rank, UNCHANGED <<host, barrier>>
      PROVE  Place(q)' /\ Pace(q)' /\ Separation(q)'
  BY <1>2, <1>4, StillRank DEF HInv, host, barrier
<1>5. ASSUME NEW r \in Rank, NEW e \in Epoch, Gpu(r, e), NEW q \in Rank
      PROVE  Place(q)' /\ Pace(q)' /\ Separation(q)'
  BY <1>4, <1>5, GpuLeaves
<1>6. ASSUME NEW q \in Rank PROVE Place(q)' /\ Pace(q)' /\ Separation(q)'
  BY <1>3, <1>4, <1>5 DEF Next, vars
<1>7. QED
  BY <1>1, <1>6 DEF HInv
-----------------------------------------------------------------------------
(* The stream path: what the words and the slots say of the peer's GPU.    *)

\* The e-th epoch belongs to the e-th call after those of the host path; it is
\* completely on the stream unless that call, or an earlier one, raised.
Numbering(r) ==
  /\ calls[r] <= HostCalls => epoch[r] = 0
  /\ calls[r] > HostCalls =>
       \/ epoch[r] = calls[r] - HostCalls
       \/ epoch[r] = EpochLimit /\ epoch[r] < calls[r] - HostCalls
  /\ \A e \in Epoch :
       /\ e <= epoch[r] => callOf[r][e] = HostCalls + e
       /\ e > epoch[r] => queued[r][e] = 0
       /\ e <= epoch[r] /\ Clean(r, HostCalls + e) => queued[r][e] = 6
       /\ done[r][e] <= queued[r][e]

\* A GPU past its wait for the peer's payload found the payload there, and one
\* that may reuse the slot has a peer that has finished all earlier epochs.
Handshake(r) ==
  \A e \in Epoch :
    /\ CleanUpTo(HostCalls + e) /\ done[r][e] >= 4 => done[Peer(r)][e] >= 3
    /\ done[r][e] >= 1 =>
         \A f \in Epoch :
           f < e /\ CleanUpTo(HostCalls + f) => done[Peer(r)][f] = 6

\* A slot holds the payload of the last call that was copied into it.
SlotMeaning(r) ==
  /\ calls[r] <= HostCalls => slot[r] = calls[r]
  /\ calls[r] > HostCalls => slot[r] >= HostCalls
  /\ slot[r] > HostCalls =>
       slot[r] - HostCalls \in Epoch /\ done[r][slot[r] - HostCalls] >= 2
  /\ \A e \in Epoch : done[r][e] >= 2 => slot[r] >= HostCalls + e

SInv == \A r \in Rank :
  /\ Numbering(r) /\ InOrder(r) /\ WordMeaning(r)
  /\ Handshake(r) /\ SlotMeaning(r)

\* The types the stream path's arguments use.
LEMMA StreamTypes ==
  ASSUME HostFirst, TypeOK
  PROVE  /\ HostCalls \in Nat /\ MaxLen \in Nat /\ EpochLimit \in Nat
         /\ WordSize \in Nat /\ EpochLimit < WordSize
         /\ Len(workload) \in Nat /\ HostCalls <= Len(workload)
         /\ Len(workload) <= MaxLen
         /\ \A e \in Epoch : e \in Nat /\ e >= 1 /\ e <= MaxLen
         /\ calls \in [Rank -> Nat] /\ epoch \in [Rank -> Nat]
         /\ slot \in [Rank -> Nat] /\ ready \in [Rank -> Nat]
         /\ consumed \in [Rank -> Nat] /\ raised \in [Rank -> SUBSET Nat]
         /\ \A r \in Rank, e \in Epoch :
              /\ queued[r][e] \in Nat /\ queued[r][e] <= 6
              /\ done[r][e] \in Nat /\ done[r][e] <= 6
<1>1. /\ HostCalls \in Nat /\ Len(workload) \in Nat /\ HostCalls <= Len(workload)
      /\ Len(workload) <= MaxLen
  BY HostPrefix DEF TypeOK
<1>2. /\ MaxLen \in Nat /\ EpochLimit \in Nat /\ WordSize \in Nat
      /\ EpochLimit < WordSize
  BY SharedMemoryAssumption
<1>3. \A e \in Epoch : e \in Nat /\ e >= 1 /\ e <= MaxLen
  BY <1>2 DEF Epoch
<1>4. /\ calls \in [Rank -> Nat] /\ epoch \in [Rank -> Nat]
      /\ slot \in [Rank -> Nat] /\ ready \in [Rank -> Nat]
      /\ consumed \in [Rank -> Nat]
  BY <1>2 DEF TypeOK
<1>5. raised \in [Rank -> SUBSET Nat]
  BY <1>2 DEF TypeOK, Call
<1>6. ASSUME NEW r \in Rank, NEW e \in Epoch
      PROVE  /\ queued[r][e] \in Nat /\ queued[r][e] <= 6
             /\ done[r][e] \in Nat /\ done[r][e] <= 6
  <2>1. queued[r][e] \in 0..6 /\ done[r][e] \in 0..6
    BY DEF TypeOK
  <2>2. QED
    BY <2>1
<1>7. QED
  BY <1>1, <1>2, <1>3, <1>4, <1>5, <1>6

\* Of the epochs before the one it executes, a GPU has left nothing undone.
LEMMA Finished ==
  ASSUME HostFirst, TypeOK, NEW r \in Rank, Numbering(r), InOrder(r),
         NEW f \in Epoch, NEW g \in Epoch, g < f, done[r][f] > 0,
         CleanUpTo(HostCalls + g)
  PROVE  done[r][g] = 6
<1>1. /\ HostCalls \in Nat /\ f \in Nat /\ g \in Nat /\ epoch[r] \in Nat
      /\ done[r][f] \in Nat /\ queued[r][f] \in Nat
  BY StreamTypes
<1>2. f <= epoch[r]
  BY <1>1 DEF Numbering
<1>3. Clean(r, HostCalls + g)
  BY DEF CleanUpTo, Clean
<1>4. queued[r][g] = 6
  BY <1>1, <1>2, <1>3 DEF Numbering
<1>5. QED
  BY <1>4 DEF InOrder

\* A call that raises leaves fewer calls clean.
LEMMA FewerClean ==
  ASSUME NEW c, \A q \in Rank : raised[q] \subseteq raised'[q]
  PROVE  /\ CleanUpTo(c)' => CleanUpTo(c)
         /\ \A q \in Rank : Clean(q, c)' => Clean(q, c)
  BY DEF CleanUpTo, Clean

\* A step that changes neither streams nor slots keeps what they say.
LEMMA QuietKeepsS ==
  ASSUME SInv, HostCalls' = HostCalls,
         UNCHANGED <<calls, stream, done, slot, ready, consumed>>,
         \A q \in Rank : raised[q] \subseteq raised'[q]
  PROVE  SInv'
<1> USE DEF stream
<1>1. ASSUME NEW q \in Rank PROVE Numbering(q)'
  <2>1. Numbering(q)
    BY DEF SInv
  <2>2. \A e \in Epoch : Clean(q, HostCalls + e)' => Clean(q, HostCalls + e)
    BY FewerClean DEF Clean
  <2>3. QED
    BY <2>1, <2>2 DEF Numbering
<1>2. ASSUME NEW q \in Rank PROVE InOrder(q)' /\ WordMeaning(q)' /\ SlotMeaning(q)'
  BY DEF SInv, InOrder, WordMeaning, SlotMeaning
<1>3. ASSUME NEW q \in Rank PROVE Handshake(q)'
  <2>1. Handshake(q)
    BY DEF SInv
  <2>2. \A e \in Epoch : CleanUpTo(HostCalls + e)' => CleanUpTo(HostCalls + e)
    BY DEF CleanUpTo
  <2>3. QED
    BY <2>1, <2>2 DEF Handshake
<1>4. QED
  BY <1>1, <1>2, <1>3 DEF SInv

\* At the start nothing is on the streams.
LEMMA InitSInv == HostFirst /\ Init => SInv
<1> SUFFICES ASSUME HostFirst, Init PROVE SInv
  OBVIOUS
<1>1. HostCalls \in Nat /\ MaxLen \in Nat
  BY HostPrefix DEF Init
<1>2. \A e \in Epoch : e \in Nat /\ e >= 1
  BY <1>1 DEF Epoch
<1>3. ASSUME NEW r \in Rank
      PROVE  /\ Peer(r) \in Rank
             /\ calls[r] = 0 /\ epoch[r] = 0 /\ slot[r] = 0 /\ ready[r] = 0
             /\ consumed[r] = 0
             /\ \A e \in Epoch : done[r][e] = 0 /\ queued[r][e] = 0
  BY DEF Init, Peer, Rank
<1>4. QED
  BY <1>1, <1>2, <1>3
  DEF SInv, Numbering, InOrder, WordMeaning, Handshake, SlotMeaning

\* A call of the host path writes the slot of a rank whose stream is empty.
LEMMA HostCopyKeepsS ==
  ASSUME HostFirst, HInv, SInv, NEW r \in Rank, HostCopy(r),
         HostCalls' = HostCalls
  PROVE  SInv'
<1>1. TypeOK /\ workload \in Workloads
  BY DEF HInv, TInv, TypeOK
<1>2. /\ calls[r] + 1 <= HostCalls /\ calls'[r] = calls[r] + 1
      /\ slot'[r] = calls[r] + 1 /\ calls[r] \in Nat /\ HostCalls \in Nat
      /\ UNCHANGED <<raised, epoch, queued, callOf, done, ready, consumed>>
  <2>1. calls[r] \in Nat /\ calls[r] + 1 \in 1..Len(workload)
    BY <1>1, StreamTypes DEF HostCopy, Calling
  <2>2. calls[r] + 1 <= HostCalls /\ HostCalls \in Nat
    BY <1>1, <2>1, HostPrefix DEF HostCopy, Calling
  <2>3. QED
    BY <1>1, <2>1, <2>2 DEF HostCopy, stream, TypeOK
<1>3. ASSUME NEW q \in Rank, q # r PROVE calls'[q] = calls[q] /\ slot'[q] = slot[q]
  BY <1>1, <1>3 DEF HostCopy, TypeOK
<1>4. ASSUME NEW q \in Rank PROVE Numbering(q)'
  <2>1. Numbering(q)
    BY DEF SInv
  <2>2. CASE q = r
    BY <1>2, <2>1, <2>2 DEF Numbering, Clean
  <2>3. CASE q # r
    BY <1>2, <1>3, <2>1, <2>3 DEF Numbering, Clean
  <2>4. QED
    BY <2>2, <2>3
<1>5. ASSUME NEW q \in Rank PROVE InOrder(q)' /\ WordMeaning(q)' /\ Handshake(q)'
  BY <1>2 DEF SInv, InOrder, WordMeaning, Handshake, CleanUpTo
<1>6. ASSUME NEW q \in Rank PROVE SlotMeaning(q)'
  <2>1. Numbering(q) /\ SlotMeaning(q)
    BY DEF SInv
  <2>2. CASE q = r
    <3>1. \A e \in Epoch : done[r][e] = 0
      <4>1. epoch[r] = 0 /\ calls[r] <= HostCalls
        BY <1>2, <2>1, <2>2 DEF Numbering
      <4>2. ASSUME NEW e \in Epoch PROVE done[r][e] = 0
        <5>1. e \in Nat /\ e >= 1 /\ done[r][e] \in Nat
          BY <1>1, StreamTypes
        <5>2. queued[r][e] = 0 /\ done[r][e] <= queued[r][e]
          BY <2>1, <2>2, <4>1, <5>1 DEF Numbering
        <5>3. QED
          BY <5>1, <5>2
      <4>3. QED
        BY <4>2
    <3>2. QED
      BY <1>2, <2>2, <3>1 DEF SlotMeaning
  <2>3. CASE q # r
    BY <1>2, <1>3, <2>1, <2>3 DEF SlotMeaning
  <2>4. QED
    BY <2>2, <2>3
<1>7. QED
  BY <1>4, <1>5, <1>6 DEF SInv

\* A refused call raises and takes no epoch.
LEMMA RefuseKeepsS ==
  ASSUME HostFirst, HInv, SInv, NEW r \in Rank, RefuseCall(r),
         HostCalls' = HostCalls
  PROVE  SInv'
<1>1. TypeOK
  BY DEF HInv, TInv
<1>2. /\ calls[r] + 1 > HostCalls /\ calls'[r] = calls[r] + 1
      /\ calls[r] \in Nat /\ HostCalls \in Nat /\ epoch[r] = EpochLimit
      /\ UNCHANGED <<epoch, queued, callOf, done, slot, ready, consumed>>
  <2>1. calls[r] \in Nat /\ calls[r] + 1 \in 1..Len(workload)
    BY <1>1, StreamTypes DEF RefuseCall, Calling
  <2>2. calls[r] + 1 > HostCalls /\ HostCalls \in Nat
    BY <1>1, <2>1, HostPrefix DEF RefuseCall, Calling, TypeOK
  <2>3. epoch[r] = EpochLimit
    BY <1>1, SharedMemoryAssumption DEF RefuseCall, TypeOK
  <2>4. QED
    BY <1>1, <2>1, <2>2, <2>3 DEF RefuseCall, stream, memory, TypeOK
<1>3. \A q \in Rank : raised[q] \subseteq raised'[q]
  BY <1>1 DEF RefuseCall, TypeOK
<1>4. ASSUME NEW q \in Rank, q # r PROVE calls'[q] = calls[q]
  BY <1>1, <1>4 DEF RefuseCall, TypeOK
<1>5. ASSUME NEW q \in Rank PROVE Numbering(q)'
  <2>1. Numbering(q)
    BY DEF SInv
  <2>2. \A e \in Epoch : Clean(q, HostCalls + e)' => Clean(q, HostCalls + e)
    BY <1>2, <1>3 DEF Clean
  <2>3. CASE q = r
    <3>1. EpochLimit \in Nat
      BY SharedMemoryAssumption
    <3>2. calls'[r] > HostCalls =>
            epoch'[r] = calls'[r] - HostCalls
            \/ (epoch'[r] = EpochLimit /\ epoch'[r] < calls'[r] - HostCalls)
      BY <1>2, <2>1, <2>3, <3>1 DEF Numbering
    <3>3. QED
      BY <1>2, <2>1, <2>2, <2>3, <3>2 DEF Numbering
  <2>4. CASE q # r
    BY <1>2, <1>4, <2>1, <2>2, <2>4 DEF Numbering
  <2>5. QED
    BY <2>3, <2>4
<1>6. ASSUME NEW q \in Rank PROVE InOrder(q)' /\ WordMeaning(q)'
  BY <1>2 DEF SInv, InOrder, WordMeaning
<1>7. ASSUME NEW q \in Rank PROVE Handshake(q)'
  <2>1. Handshake(q)
    BY DEF SInv
  <2>2. \A e \in Epoch : CleanUpTo(HostCalls + e)' => CleanUpTo(HostCalls + e)
    BY <1>2, <1>3 DEF CleanUpTo
  <2>3. QED
    BY <1>2, <2>1, <2>2 DEF Handshake
<1>8. ASSUME NEW q \in Rank PROVE SlotMeaning(q)'
  <2>1. SlotMeaning(q)
    BY DEF SInv
  <2>2. CASE q = r
    BY <1>2, <2>1, <2>2 DEF SlotMeaning
  <2>3. CASE q # r
    BY <1>2, <1>4, <2>1, <2>3 DEF SlotMeaning
  <2>4. QED
    BY <2>2, <2>3
<1>9. QED
  BY <1>5, <1>6, <1>7, <1>8 DEF SInv

\* A call of the stream path takes the next epoch, whose operations none is
\* executed yet.
LEMMA StreamCallKeepsS ==
  ASSUME HostFirst, HInv, SInv, NEW r \in Rank, NEW n \in 0..6, StreamCall(r, n),
         HostCalls' = HostCalls
  PROVE  SInv'
<1>1. TypeOK /\ Numbering(r) /\ InOrder(r) /\ SlotMeaning(r)
  BY DEF HInv, TInv, SInv
<1>2. /\ calls[r] + 1 > HostCalls /\ calls[r] + 1 <= MaxLen
      /\ calls'[r] = calls[r] + 1 /\ epoch'[r] = epoch[r] + 1
      /\ calls[r] \in Nat /\ HostCalls \in Nat /\ MaxLen \in Nat
      /\ epoch[r] \in Nat /\ EpochLimit \in Nat /\ epoch[r] < EpochLimit
      /\ UNCHANGED <<done, slot, ready, consumed>>
  <2>1. /\ calls[r] \in Nat /\ calls[r] + 1 \in 1..Len(workload)
        /\ calls[r] + 1 <= MaxLen /\ MaxLen \in Nat
    BY <1>1, StreamTypes DEF StreamCall, Calling
  <2>2. calls[r] + 1 > HostCalls /\ HostCalls \in Nat
    BY <1>1, <2>1, HostPrefix DEF StreamCall, Calling, TypeOK
  <2>3. epoch[r] \in Nat /\ EpochLimit \in Nat
    BY <1>1, StreamTypes
  <2>4. QED
    BY <1>1, <2>1, <2>2, <2>3 DEF StreamCall, memory, TypeOK
<1>3. epoch[r] = calls[r] - HostCalls
  BY <1>1, <1>2 DEF Numbering
<1>4. /\ epoch[r] + 1 \in Epoch /\ HostCalls + (epoch[r] + 1) = calls[r] + 1
      /\ epoch[r] + 1 > epoch[r]
  BY <1>2, <1>3 DEF Epoch
<1>5. queued[r][epoch[r] + 1] = 0 /\ done[r][epoch[r] + 1] = 0
  <2>1. done[r][epoch[r] + 1] <= queued[r][epoch[r] + 1] /\ queued[r][epoch[r] + 1] = 0
    BY <1>1, <1>4 DEF Numbering
  <2>2. PICK e \in Epoch : e = epoch[r] + 1
    BY <1>4
  <2>3. done[r][e] \in Nat
    BY <1>1, StreamTypes
  <2>4. QED
    BY <2>1, <2>2, <2>3
<1>6. /\ queued'[r][epoch[r] + 1] = n /\ callOf'[r][epoch[r] + 1] = calls[r] + 1
      /\ \A e \in Epoch : e # epoch[r] + 1 =>
           queued'[r][e] = queued[r][e] /\ callOf'[r][e] = callOf[r][e]
  BY <1>1, <1>4 DEF StreamCall, TypeOK
<1>7. \A q \in Rank : raised[q] \subseteq raised'[q]
  BY <1>1 DEF StreamCall, TypeOK
<1>8. n = 6 \/ calls[r] + 1 \in raised'[r]
  BY <1>1 DEF StreamCall, TypeOK
<1>9. ASSUME NEW q \in Rank, q # r
      PROVE  /\ calls'[q] = calls[q] /\ epoch'[q] = epoch[q]
             /\ queued'[q] = queued[q] /\ callOf'[q] = callOf[q]
  BY <1>1, <1>9 DEF StreamCall, TypeOK
<1>10. ASSUME NEW q \in Rank PROVE Numbering(q)'
  <2>1. Numbering(q)
    BY DEF SInv
  <2>2. \A e \in Epoch : Clean(q, HostCalls + e)' => Clean(q, HostCalls + e)
    BY <1>2, <1>7 DEF Clean
  <2>3. CASE q = r
    <3>1. /\ calls'[r] <= HostCalls => epoch'[r] = 0
          /\ calls'[r] > HostCalls => epoch'[r] = calls'[r] - HostCalls
      BY <1>2, <1>3
    <3>2. ASSUME NEW e \in Epoch
          PROVE  /\ e <= epoch'[r] => callOf'[r][e] = HostCalls + e
                 /\ e > epoch'[r] => queued'[r][e] = 0
                 /\ e <= epoch'[r] /\ Clean(r, HostCalls + e)' => queued'[r][e] = 6
                 /\ done'[r][e] <= queued'[r][e]
      <4>1. CASE e = epoch[r] + 1
        <5>1. HostCalls + e = calls[r] + 1
          BY <1>4, <4>1
        <5>2. Clean(r, HostCalls + e)' => n = 6
          BY <1>2, <1>8, <5>1 DEF Clean
        <5>3. QED
          BY <1>2, <1>4, <1>5, <1>6, <4>1, <5>1, <5>2
      <4>2. CASE e # epoch[r] + 1
        <5>1. e \in Nat /\ (e <= epoch'[r] <=> e <= epoch[r])
          <6>1. e \in Nat
            BY <1>2 DEF Epoch
          <6>2. QED
            BY <1>2, <4>2, <6>1
        <5>2. queued'[r][e] = queued[r][e] /\ callOf'[r][e] = callOf[r][e]
          BY <1>6, <4>2
        <5>3. QED
          BY <1>1, <1>2, <2>2, <2>3, <5>1, <5>2 DEF Numbering
      <4>3. QED
        BY <4>1, <4>2
    <3>3. QED
      BY <1>2, <2>3, <3>1, <3>2 DEF Numbering
  <2>4. CASE q # r
    BY <1>2, <1>9, <2>1, <2>2, <2>4 DEF Numbering
  <2>5. QED
    BY <2>3, <2>4
<1>11. ASSUME NEW q \in Rank PROVE InOrder(q)'
  <2>1. InOrder(q) /\ Numbering(q)
    BY DEF SInv
  <2>2. CASE q = r
    <3>1. ASSUME NEW e \in Epoch, NEW f \in Epoch, f < e, done[r][e] > 0
          PROVE  done[r][f] = queued'[r][f]
      <4>1. f # epoch[r] + 1
        <5>1. e \in Nat /\ f \in Nat /\ done[r][e] \in Nat /\ queued[r][e] \in Nat
          BY <1>1, StreamTypes
        <5>2. e <= epoch[r]
          BY <1>1, <1>2, <3>1, <5>1 DEF Numbering
        <5>3. QED
          BY <1>2, <3>1, <5>1, <5>2
      <4>2. QED
        BY <1>1, <1>6, <3>1, <4>1 DEF InOrder
    <3>2. QED
      BY <1>2, <2>2, <3>1 DEF InOrder
  <2>3. CASE q # r
    BY <1>2, <1>9, <2>1, <2>3 DEF InOrder
  <2>4. QED
    BY <2>2, <2>3
<1>12. ASSUME NEW q \in Rank PROVE WordMeaning(q)'
  BY <1>2 DEF SInv, WordMeaning
<1>13. ASSUME NEW q \in Rank PROVE Handshake(q)'
  <2>1. Handshake(q)
    BY DEF SInv
  <2>2. \A e \in Epoch : CleanUpTo(HostCalls + e)' => CleanUpTo(HostCalls + e)
    BY <1>2, <1>7 DEF CleanUpTo
  <2>3. QED
    BY <1>2, <2>1, <2>2 DEF Handshake
<1>14. ASSUME NEW q \in Rank PROVE SlotMeaning(q)'
  <2>1. SlotMeaning(q)
    BY DEF SInv
  <2>2. CASE q = r
    BY <1>2, <2>1, <2>2 DEF SlotMeaning
  <2>3. CASE q # r
    BY <1>2, <1>9, <2>1, <2>3 DEF SlotMeaning
  <2>4. QED
    BY <2>2, <2>3
<1>15. QED
  BY <1>10, <1>11, <1>12, <1>13, <1>14 DEF SInv

\* What an operation does to the counts of executed operations, and that an
\* epoch on the stream fits its word.
LEMMA OpEffect ==
  ASSUME HostFirst, TypeOK, NEW r \in Rank, NEW e \in Epoch, NEW k \in 1..6,
         Numbering(r), Turn(r, e, k), Advance(r, e)
  PROVE  /\ e \in Nat /\ e >= 1 /\ e <= epoch[r] /\ k \in Nat
         /\ Word(e) = e /\ Word(e - 1) = e - 1
         /\ callOf[r][e] = HostCalls + e /\ queued[r][e] >= k
         /\ done[r][e] = k - 1 /\ done'[r][e] = k
         /\ \A q \in Rank, f \in Epoch : q # r \/ f # e => done'[q][f] = done[q][f]
         /\ \A q \in Rank, f \in Epoch : done'[q][f] \in Nat /\ done'[q][f] >= done[q][f]
<1>1. /\ e \in Nat /\ e >= 1 /\ queued[r][e] \in Nat /\ epoch[r] \in Nat
      /\ WordSize \in Nat /\ EpochLimit < WordSize /\ EpochLimit \in Nat
  BY StreamTypes
<1>2. done[r][e] = k - 1 /\ queued[r][e] >= k
  BY DEF Turn
<1>3. e <= epoch[r]
  BY <1>1, <1>2 DEF Numbering
<1>4. e < WordSize
  <2>1. epoch[r] <= EpochLimit
    BY <1>1 DEF TypeOK
  <2>2. QED
    BY <1>1, <1>3, <2>1
<1>5. Word(e) = e /\ Word(e - 1) = e - 1
  BY <1>1, <1>4 DEF Word
<1>6. callOf[r][e] = HostCalls + e
  BY <1>3 DEF Numbering
<1>7. /\ done'[r][e] = k
      /\ \A q \in Rank, f \in Epoch : q # r \/ f # e => done'[q][f] = done[q][f]
  BY <1>2 DEF Advance, TypeOK
<1>8. ASSUME NEW q \in Rank, NEW f \in Epoch
      PROVE  done'[q][f] \in Nat /\ done'[q][f] >= done[q][f]
  <2>1. done[q][f] \in Nat
    BY StreamTypes
  <2>2. CASE q = r /\ f = e
    BY <1>2, <1>7, <2>1, <2>2
  <2>3. CASE q # r \/ f # e
    BY <1>7, <2>1, <2>3
  <2>4. QED
    BY <2>2, <2>3
<1>9. QED
  BY <1>1, <1>2, <1>3, <1>5, <1>6, <1>7, <1>8

\* An operation is executed in the order of the stream.
LEMMA OpInOrder ==
  ASSUME HostFirst, TypeOK, SInv, NEW r \in Rank, NEW e \in Epoch, NEW k \in 1..6,
         Turn(r, e, k), Advance(r, e), UNCHANGED <<host, stream>>,
         HostCalls' = HostCalls
  PROVE  \A q \in Rank : Numbering(q)' /\ InOrder(q)'
<1> SUFFICES ASSUME NEW q \in Rank PROVE Numbering(q)' /\ InOrder(q)'
  OBVIOUS
<1>1. Numbering(q) /\ InOrder(q) /\ Numbering(r)
  BY DEF SInv
<1>2. /\ e \in Nat /\ k \in Nat
      /\ done[r][e] = k - 1 /\ done'[r][e] = k
      /\ \A p \in Rank, f \in Epoch : p # r \/ f # e => done'[p][f] = done[p][f]
      /\ queued[r][e] >= k
  <2>1. queued[r][e] >= k /\ done[r][e] = k - 1
    BY DEF Turn
  <2>2. e \in Nat /\ k \in Nat
    BY StreamTypes
  <2>3. QED
    BY <2>1, <2>2 DEF Advance, TypeOK
<1>3. UNCHANGED <<calls, raised, epoch, queued, callOf>>
  BY DEF host, stream
<1>4. Numbering(q)'
  <2>1. \A f \in Epoch : done'[q][f] <= queued[q][f]
    BY <1>1, <1>2 DEF Numbering
  <2>2. QED
    BY <1>1, <1>3, <2>1 DEF Numbering, Clean
<1>5. ASSUME NEW g \in Epoch, NEW f \in Epoch, f < g, done'[q][g] > 0
      PROVE  done'[q][f] = queued[q][f]
  <2>1. f \in Nat /\ g \in Nat /\ queued[r][e] \in Nat /\ f >= 1
    BY StreamTypes
  <2>2. CASE q # r
    BY <1>1, <1>2, <1>5, <2>2 DEF InOrder
  <2>3. CASE q = r /\ g = e
    <3>1. f # e /\ f \in 1..(e - 1)
      BY <1>2, <1>5, <2>1, <2>3
    <3>2. done[r][f] = queued[r][f]
      BY <3>1 DEF Turn
    <3>3. QED
      BY <1>2, <2>3, <3>1, <3>2
  <2>4. CASE q = r /\ g # e
    <3>1. done[r][g] > 0
      BY <1>2, <1>5, <2>4
    <3>2. done[r][f] = queued[r][f]
      BY <1>1, <1>5, <2>4, <3>1 DEF InOrder
    <3>3. f # e
      BY <1>2, <2>1, <3>2
    <3>4. QED
      BY <1>2, <2>4, <3>2, <3>3
  <2>5. QED
    BY <2>2, <2>3, <2>4
<1>6. QED
  BY <1>3, <1>4, <1>5 DEF InOrder

\* What is new in the handshake after an operation: the two waits.
LEMMA OpHandshake ==
  ASSUME HostFirst, TypeOK, TypeOK', SInv, NEW r \in Rank, NEW e \in Epoch,
         NEW k \in 1..6, Turn(r, e, k), Advance(r, e), UNCHANGED <<host, stream>>,
         HostCalls' = HostCalls,
         k = 4 /\ CleanUpTo(HostCalls + e) => done[Peer(r)][e] >= 3,
         k = 1 => \A f \in Epoch :
           f < e /\ CleanUpTo(HostCalls + f) => done[Peer(r)][f] = 6
  PROVE  \A q \in Rank : Handshake(q)'
<1> SUFFICES ASSUME NEW q \in Rank, NEW g \in Epoch
             PROVE  /\ CleanUpTo(HostCalls + g) /\ done'[q][g] >= 4
                         => done'[Peer(q)][g] >= 3
                    /\ done'[q][g] >= 1 =>
                         \A f \in Epoch :
                           f < g /\ CleanUpTo(HostCalls + f) => done'[Peer(q)][f] = 6
  <2>1. UNCHANGED raised
    BY DEF host
  <2>2. QED
    BY <2>1 DEF Handshake, CleanUpTo
<1>1. Numbering(r) /\ Handshake(q) /\ Peer(q) \in Rank
  BY DEF SInv, Peer, Rank
<1>2. /\ k \in Nat /\ done[r][e] = k - 1 /\ done'[r][e] = k
      /\ \A p \in Rank, f \in Epoch : p # r \/ f # e => done'[p][f] = done[p][f]
      /\ \A p \in Rank, f \in Epoch : done'[p][f] \in Nat /\ done'[p][f] >= done[p][f]
  BY <1>1, OpEffect
<1>3. \A p \in Rank, f \in Epoch : done[p][f] \in Nat
  BY StreamTypes
<1>4. \A p \in Rank, f \in Epoch : done'[p][f] <= 6
  <2>1. \A p \in Rank, f \in Epoch : done'[p][f] \in 0..6
    BY DEF TypeOK
  <2>2. QED
    BY <2>1
<1>5. ASSUME CleanUpTo(HostCalls + g), done'[q][g] >= 4
      PROVE  done'[Peer(q)][g] >= 3
  <2>1. done[Peer(q)][g] >= 3
    <3>1. CASE q = r /\ g = e /\ k = 4
      BY <1>5, <3>1
    <3>2. CASE ~(q = r /\ g = e /\ k = 4)
      <4>1. done[q][g] >= 4
        BY <1>2, <1>3, <1>5, <3>2
      <4>2. QED
        BY <1>1, <1>5, <4>1 DEF Handshake
    <3>3. QED
      BY <3>1, <3>2
  <2>2. QED
    BY <1>1, <1>2, <1>3, <2>1
<1>6. ASSUME done'[q][g] >= 1, NEW f \in Epoch, f < g, CleanUpTo(HostCalls + f)
      PROVE  done'[Peer(q)][f] = 6
  <2>1. done[Peer(q)][f] = 6
    <3>1. CASE q = r /\ g = e /\ k = 1
      BY <1>6, <3>1
    <3>2. CASE ~(q = r /\ g = e /\ k = 1)
      <4>1. done[q][g] >= 1
        BY <1>2, <1>3, <1>6, <3>2
      <4>2. QED
        BY <1>1, <1>6, <4>1 DEF Handshake
    <3>3. QED
      BY <3>1, <3>2
  <2>2. done'[Peer(q)][f] \in Nat /\ done'[Peer(q)][f] >= 6 /\ done'[Peer(q)][f] <= 6
    BY <1>1, <1>2, <1>4, <2>1
  <2>3. QED
    BY <2>2
<1>7. QED
  BY <1>5, <1>6

\* Words that are not written keep their meaning, and so do slots, except that
\* the copy is over.
LEMMA OpMemory ==
  ASSUME HostFirst, TypeOK, TypeOK', SInv, NEW r \in Rank, NEW e \in Epoch,
         NEW k \in 1..6, Turn(r, e, k), Advance(r, e), UNCHANGED <<host, stream>>,
         HostCalls' = HostCalls, NEW q \in Rank
  PROVE  /\ ready'[q] = ready[q] /\ consumed'[q] = consumed[q] => WordMeaning(q)'
         /\ slot'[q] = slot[q] /\ (q = r => k # 2) => SlotMeaning(q)'
<1>1. Numbering(r) /\ WordMeaning(q) /\ SlotMeaning(q) /\ Peer(q) \in Rank
  BY DEF SInv, Peer, Rank
<1>2. /\ k \in Nat /\ done[r][e] = k - 1 /\ done'[r][e] = k
      /\ \A p \in Rank, f \in Epoch : p # r \/ f # e => done'[p][f] = done[p][f]
      /\ \A p \in Rank, f \in Epoch : done'[p][f] \in Nat /\ done'[p][f] >= done[p][f]
  BY <1>1, OpEffect
<1>3. \A p \in Rank, f \in Epoch : done[p][f] \in Nat
  BY StreamTypes
<1>4. \A p \in Rank, f \in Epoch : done'[p][f] <= 6
  <2>1. \A p \in Rank, f \in Epoch : done'[p][f] \in 0..6
    BY DEF TypeOK
  <2>2. QED
    BY <2>1
<1>5. ASSUME ready'[q] = ready[q], consumed'[q] = consumed[q] PROVE WordMeaning(q)'
  <2>1. ready[q] # 0 => ready[q] \in Epoch /\ done'[q][ready[q]] >= 3
    BY <1>1, <1>2, <1>3 DEF WordMeaning
  <2>2. ASSUME consumed[q] # 0
        PROVE  consumed[q] \in Epoch /\ done'[Peer(q)][consumed[q]] = 6
    <3>1. consumed[q] \in Epoch /\ done[Peer(q)][consumed[q]] = 6
      BY <1>1, <2>2 DEF WordMeaning
    <3>2. /\ done'[Peer(q)][consumed[q]] \in Nat /\ done'[Peer(q)][consumed[q]] >= 6
          /\ done'[Peer(q)][consumed[q]] <= 6
      BY <1>1, <1>2, <1>4, <3>1
    <3>3. QED
      BY <3>1, <3>2
  <2>3. QED
    BY <1>5, <2>1, <2>2 DEF WordMeaning
<1>6. ASSUME slot'[q] = slot[q], q = r => k # 2 PROVE SlotMeaning(q)'
  <2>1. UNCHANGED calls /\ HostCalls' = HostCalls
    BY DEF host
  <2>2. \A f \in Epoch : done'[q][f] >= 2 => done[q][f] >= 2
    BY <1>2, <1>3, <1>6
  <2>3. \A f \in Epoch : done[q][f] >= 2 => done'[q][f] >= 2
    BY <1>2, <1>3
  <2>4. QED
    BY <1>1, <1>6, <2>1, <2>2, <2>3 DEF SlotMeaning
<1>7. QED
  BY <1>5, <1>6

\* Every operation of a GPU keeps what words and slots say.
LEMMA GpuKeepsS ==
  ASSUME HostFirst, TypeOK, TypeOK', SInv, NEW r \in Rank, NEW e \in Epoch,
         Gpu(r, e), HostCalls' = HostCalls
  PROVE  SInv'
<1>1. UNCHANGED <<host, stream>> /\ Advance(r, e)
  BY GpuLeaves, Op
<1>2. Numbering(r) /\ Peer(r) \in Rank /\ Peer(Peer(r)) = r /\ Peer(r) # r
  BY DEF SInv, Peer, Rank
<1>3. Numbering(Peer(r)) /\ InOrder(Peer(r)) /\ WordMeaning(Peer(r)) /\ WordMeaning(r)
  BY <1>2 DEF SInv
<1>4. /\ HostCalls \in Nat /\ ready[Peer(r)] \in Nat /\ consumed[r] \in Nat
      /\ slot[r] \in Nat /\ calls[r] \in Nat /\ e \in Nat /\ e >= 1
      /\ \A f \in Epoch : f \in Nat
      /\ \A q \in Rank, f \in Epoch : done[q][f] \in Nat
  BY <1>2, StreamTypes
<1>5. CASE WaitConsumed(r, e)
  <2>1. Turn(r, e, 1) /\ 1 \in 1..6 /\ UNCHANGED memory
    BY <1>5 DEF WaitConsumed
  <2>2. Word(e - 1) = e - 1
    BY <1>1, <1>2, <2>1, OpEffect
  <2>3. ASSUME NEW f \in Epoch, f < e, CleanUpTo(HostCalls + f)
        PROVE  done[Peer(r)][f] = 6
    <3> f \in Nat /\ f >= 1
      BY StreamTypes
    <3>1. e > 1 /\ consumed[r] >= e - 1 /\ f <= consumed[r] /\ consumed[r] # 0
      BY <1>4, <1>5, <2>2, <2>3 DEF WaitConsumed
    <3>2. consumed[r] \in Epoch /\ done[Peer(r)][consumed[r]] = 6
      BY <1>3, <3>1 DEF WordMeaning
    <3>3. CASE f = consumed[r]
      BY <3>2, <3>3
    <3>4. CASE f < consumed[r]
      <4>1. done[Peer(r)][consumed[r]] > 0
        BY <3>2
      <4>2. QED
        BY <1>2, <1>3, <2>3, <3>2, <3>4, <4>1, Finished
    <3>5. QED
      BY <1>4, <3>1, <3>3, <3>4
  <2>4. \A q \in Rank : Numbering(q)' /\ InOrder(q)'
    BY <1>1, <2>1, OpInOrder
  <2>5. \A q \in Rank : Handshake(q)'
    BY <1>1, <2>1, <2>3, OpHandshake
  <2>6. \A q \in Rank : WordMeaning(q)' /\ SlotMeaning(q)'
    BY <1>1, <2>1, OpMemory DEF memory
  <2>7. QED
    BY <2>4, <2>5, <2>6 DEF SInv
<1>6. CASE CopyIn(r, e)
  <2>1. Turn(r, e, 2) /\ 2 \in 1..6 /\ UNCHANGED <<ready, consumed>>
    BY <1>6 DEF CopyIn
  <2>2. /\ callOf[r][e] = HostCalls + e /\ done'[r][e] = 2 /\ done[r][e] = 1
        /\ e <= epoch[r] /\ queued[r][e] >= 2
        /\ \A f \in Epoch : f # e => done'[r][f] = done[r][f]
    BY <1>1, <1>2, <2>1, OpEffect
  <2>3. /\ slot'[r] = HostCalls + e
        /\ \A q \in Rank : q # r => slot'[q] = slot[q]
    BY <1>6, <2>2 DEF CopyIn, TypeOK
  <2>4. \A q \in Rank : Numbering(q)' /\ InOrder(q)'
    BY <1>1, <2>1, OpInOrder
  <2>5. \A q \in Rank : Handshake(q)'
    BY <1>1, <2>1, OpHandshake
  <2>6. \A q \in Rank : WordMeaning(q)'
    BY <1>1, <2>1, OpMemory
  <2>7. \A q \in Rank : q # r => SlotMeaning(q)'
    BY <1>1, <2>1, <2>3, OpMemory
  <2>8. SlotMeaning(r)'
    <3>1. calls'[r] = calls[r] /\ calls[r] > HostCalls
      BY <1>1, <1>2, <1>4, <2>2 DEF host, Numbering
    <3>2. ASSUME NEW f \in Epoch, done'[r][f] >= 2 PROVE slot'[r] >= HostCalls + f
      <4>1. f \in Nat /\ queued[r][e] \in Nat /\ done[r][f] \in Nat
        BY StreamTypes
      <4>2. CASE f <= e
        BY <1>4, <2>3, <4>1, <4>2
      <4>3. CASE f > e
        <5>1. done[r][f] > 0 /\ e < f
          BY <1>4, <2>2, <3>2, <4>1, <4>3
        <5>2. done[r][e] = queued[r][e]
          BY <5>1 DEF SInv, InOrder
        <5>3. QED
          BY <2>2, <4>1, <5>2
      <4>4. QED
        BY <1>4, <4>1, <4>2, <4>3
    <3>3. slot'[r] - HostCalls = e
      BY <1>4, <2>3
    <3>4. QED
      BY <1>4, <2>2, <2>3, <3>1, <3>2, <3>3 DEF SlotMeaning
  <2>9. QED
    BY <2>4, <2>5, <2>6, <2>7, <2>8 DEF SInv
<1>7. CASE WriteReady(r, e)
  <2>1. Turn(r, e, 3) /\ 3 \in 1..6 /\ UNCHANGED <<slot, consumed>>
    BY <1>7 DEF WriteReady
  <2>2. Word(e) = e /\ done'[r][e] = 3
    BY <1>1, <1>2, <2>1, OpEffect
  <2>3. ready'[r] = e /\ \A q \in Rank : q # r => ready'[q] = ready[q]
    BY <1>7, <2>2 DEF WriteReady, TypeOK
  <2>4. \A q \in Rank : Numbering(q)' /\ InOrder(q)'
    BY <1>1, <2>1, OpInOrder
  <2>5. \A q \in Rank : Handshake(q)' /\ SlotMeaning(q)'
    BY <1>1, <2>1, OpHandshake, OpMemory
  <2>6. \A q \in Rank : q # r => WordMeaning(q)'
    BY <1>1, <2>1, <2>3, OpMemory
  <2>7. WordMeaning(r)'
    <3>1. ASSUME consumed[r] # 0
          PROVE  consumed[r] \in Epoch /\ done'[Peer(r)][consumed[r]] = 6
      <4>1. consumed[r] \in Epoch /\ done[Peer(r)][consumed[r]] = 6
        BY <1>3, <3>1 DEF WordMeaning
      <4>2. QED
        BY <1>1, <1>2, <2>1, <4>1, OpEffect
    <3>2. QED
      BY <2>1, <2>2, <2>3, <3>1 DEF WordMeaning
  <2>8. QED
    BY <2>4, <2>5, <2>6, <2>7 DEF SInv
<1>8. CASE WaitReady(r, e)
  <2>1. Turn(r, e, 4) /\ 4 \in 1..6 /\ UNCHANGED memory
    BY <1>8 DEF WaitReady
  <2>2. Word(e) = e
    BY <1>1, <1>2, <2>1, OpEffect
  <2>3. ASSUME CleanUpTo(HostCalls + e) PROVE done[Peer(r)][e] >= 3
    <3>1. ready[Peer(r)] >= e /\ ready[Peer(r)] # 0
      BY <1>4, <1>8, <2>2 DEF WaitReady
    <3>2. ready[Peer(r)] \in Epoch /\ done[Peer(r)][ready[Peer(r)]] >= 3
      BY <1>3, <3>1 DEF WordMeaning
    <3>3. CASE e = ready[Peer(r)]
      BY <3>2, <3>3
    <3>4. CASE e < ready[Peer(r)]
      <4>1. done[Peer(r)][ready[Peer(r)]] > 0
        BY <1>2, <1>4, <3>2
      <4>2. done[Peer(r)][e] = 6
        BY <1>2, <1>3, <2>3, <3>2, <3>4, <4>1, Finished
      <4>3. QED
        BY <4>2
    <3>5. QED
      BY <1>4, <3>1, <3>3, <3>4
  <2>4. \A q \in Rank : Numbering(q)' /\ InOrder(q)'
    BY <1>1, <2>1, OpInOrder
  <2>5. \A q \in Rank : Handshake(q)'
    BY <1>1, <2>1, <2>3, OpHandshake
  <2>6. \A q \in Rank : WordMeaning(q)' /\ SlotMeaning(q)'
    BY <1>1, <2>1, OpMemory DEF memory
  <2>7. QED
    BY <2>4, <2>5, <2>6 DEF SInv
<1>9. CASE Add(r, e)
  <2>1. Turn(r, e, 5) /\ 5 \in 1..6 /\ UNCHANGED <<slot, ready, consumed>>
    BY <1>9 DEF Add
  <2>2. \A q \in Rank : Numbering(q)' /\ InOrder(q)'
    BY <1>1, <2>1, OpInOrder
  <2>3. \A q \in Rank : Handshake(q)'
    BY <1>1, <2>1, OpHandshake
  <2>4. \A q \in Rank : WordMeaning(q)' /\ SlotMeaning(q)'
    BY <1>1, <2>1, OpMemory
  <2>5. QED
    BY <2>2, <2>3, <2>4 DEF SInv
<1>10. CASE WriteConsumed(r, e)
  <2>1. Turn(r, e, 6) /\ 6 \in 1..6 /\ UNCHANGED <<slot, ready>>
    BY <1>10 DEF WriteConsumed
  <2>2. Word(e) = e /\ done'[r][e] = 6
    BY <1>1, <1>2, <2>1, OpEffect
  <2>3. consumed'[Peer(r)] = e /\ consumed'[r] = consumed[r]
    BY <1>2, <1>10, <2>2 DEF WriteConsumed, TypeOK
  <2>4. \A q \in Rank : Numbering(q)' /\ InOrder(q)'
    BY <1>1, <2>1, OpInOrder
  <2>5. \A q \in Rank : Handshake(q)' /\ SlotMeaning(q)'
    BY <1>1, <2>1, OpHandshake, OpMemory
  <2>6. WordMeaning(r)'
    BY <1>1, <2>1, <2>3, OpMemory
  <2>7. WordMeaning(Peer(r))'
    <3>1. ready[Peer(r)] # 0 =>
            ready[Peer(r)] \in Epoch /\ done'[Peer(r)][ready[Peer(r)]] >= 3
      BY <1>1, <1>2, <1>3, <2>1, OpEffect DEF WordMeaning
    <3>2. QED
      BY <1>2, <2>1, <2>2, <2>3, <3>1 DEF WordMeaning
  <2>8. \A q \in Rank : q = r \/ q = Peer(r)
    BY DEF Rank, Peer
  <2>9. QED
    BY <2>4, <2>5, <2>6, <2>7, <2>8 DEF SInv
<1>11. QED
  BY <1>5, <1>6, <1>7, <1>8, <1>9, <1>10 DEF Gpu

\* Every step keeps the stream path's invariant.
LEMMA NextSInv == HostFirst /\ HInv /\ HInv' /\ SInv /\ [Next]_vars => SInv'
<1> SUFFICES ASSUME HostFirst, HInv, HInv', SInv, [Next]_vars PROVE SInv'
  OBVIOUS
<1>1. HostCalls' = HostCalls
  BY WorkloadFixed
<1>2. TypeOK /\ TypeOK'
  BY DEF HInv, TInv
<1>3. ASSUME NEW r \in Rank,
             \/ Construct(r) \/ HostAdd(r) \/ Synchronize(r) \/ BarrierSignal(r)
             \/ BarrierPass(r) \/ BarrierTimeout(r) \/ Unmap(r)
      PROVE  SInv'
  <2>1. UNCHANGED <<calls, stream, done, slot, ready, consumed>>
    BY <1>3
    DEF Construct, HostAdd, Synchronize, BarrierSignal, BarrierPass,
        BarrierTimeout, Unmap, host, memory
  <2>2. \A q \in Rank : raised[q] \subseteq raised'[q]
    <3>1. CASE BarrierTimeout(r)
      BY <1>2, <3>1 DEF BarrierTimeout, TypeOK
    <3>2. CASE ~BarrierTimeout(r)
      BY <1>3, <3>2
      DEF Construct, HostAdd, Synchronize, BarrierSignal, BarrierPass, Unmap, host
    <3>3. QED
      BY <3>1, <3>2
  <2>3. QED
    BY <1>1, <2>1, <2>2, QuietKeepsS
<1>4. ASSUME UNCHANGED vars PROVE SInv'
  <2>1. UNCHANGED <<calls, stream, done, slot, ready, consumed, raised>>
    BY <1>4 DEF vars, host, stream, memory
  <2>2. QED
    BY <1>1, <2>1, QuietKeepsS
<1>5. ASSUME NEW r \in Rank, Host(r) PROVE SInv'
  BY <1>1, <1>3, <1>5, HostCopyKeepsS, RefuseKeepsS, StreamCallKeepsS DEF Host
<1>6. ASSUME NEW r \in Rank, NEW e \in Epoch, Gpu(r, e) PROVE SInv'
  BY <1>1, <1>2, <1>6, GpuKeepsS
<1>7. QED
  BY <1>4, <1>5, <1>6 DEF Next
-----------------------------------------------------------------------------
(* The sums, and the exclusive use of the slots.                           *)

\* Rank r has added the peer's payload in its call c of the host path.
Fetched(r, c) ==
  calls[r] > c \/ (calls[r] = c /\ pc[r] \notin {"copied", "adding"})

\* The result of a call is there when the peer's payload has been added, and
\* is then the sum of that call; before that there is none.
ResultMeaning(r) ==
  /\ \A c \in 1..HostCalls :
       /\ ~Fetched(r, c) => result[r][c] = 0
       /\ Fetched(r, c) /\ CleanUpTo(c) => result[r][c] = c
  /\ \A e \in Epoch : HostCalls + e <= MaxLen =>
       /\ done[r][e] < 5 => result[r][HostCalls + e] = 0
       /\ done[r][e] >= 5 /\ CleanUpTo(HostCalls + e)
            => result[r][HostCalls + e] = HostCalls + e

GInv == HInv /\ SInv /\ \A r \in Rank : ResultMeaning(r)

\* A rank that has not begun a call of the host path has not entered the
\* barriers of that call.
LEMMA BarrierBehind ==
  ASSUME HostFirst, HInv, NEW p \in Rank, NEW c \in Nat, c <= HostCalls,
         calls[p] < c, raised[p] = {}
  PROVE  entered[p] < 2 * c
<1>1. /\ Place(p) /\ Pace(p) /\ calls[p] \in Nat /\ HostCalls \in Nat
      /\ HostCalls <= Len(workload) /\ Len(workload) \in Nat
  BY StreamTypes DEF HInv, TInv
<1>2. pc[p] \in {"new", "idle", "adding", "unmapping", "closed", "failed",
                 "constructing", "copied", "added", "destroying"}
  BY DEF HInv, TInv, TypeOK, AfterWait
<1>3. entered[p] \in Nat
  BY BarrierBound DEF HInv, TInv, Q!IInv, Q!TypeOK, Q!Rank, Rank
<1>4. /\ pc[p] \notin {"destroying", "unmapping", "closed"}
      /\ calls[p] <= HostCalls /\ calls[p] + 1 <= c
  BY <1>1 DEF Place
<1>5. entered[p] <= 2 * calls[p] + 1
  <2>1. CASE pc[p] \in {"new", "constructing", "failed"}
    <3>1. entered[p] <= 1
      BY <1>1, <1>3, <1>4, <2>1 DEF Pace
    <3>2. QED
      BY <1>1, <1>3, <3>1
  <2>2. CASE pc[p] = "idle"
    BY <1>1, <1>4, <2>2 DEF Pace
  <2>3. CASE pc[p] = "copied"
    BY <1>1, <1>4, <2>3 DEF Pace
  <2>4. CASE pc[p] = "adding"
    BY <1>1, <1>4, <2>4 DEF Pace
  <2>5. CASE pc[p] = "added"
    BY <1>1, <1>4, <2>5 DEF Pace
  <2>6. QED
    BY <1>2, <1>4, <2>1, <2>2, <2>3, <2>4, <2>5
<1>6. QED
  BY <1>1, <1>3, <1>4, <1>5

\* The facts about a rank that adds on the host path: it has passed the first
\* barrier of the call and has not entered the second.
LEMMA AddingPace ==
  ASSUME HostFirst, HInv, NEW r \in Rank, pc[r] = "adding", CleanUpTo(calls[r])
  PROVE  /\ calls[r] \in Nat /\ calls[r] >= 1 /\ calls[r] <= HostCalls
         /\ HostCalls \in Nat
         /\ entered[r] = 2 * calls[r] /\ passed[r] = 2 * calls[r]
         /\ passed[r] <= entered[Peer(r)] /\ passed[Peer(r)] <= entered[r]
         /\ entered[Peer(r)] \in Nat /\ passed[Peer(r)] \in Nat
<1>1. /\ Place(r) /\ Pace(r) /\ calls[r] \in Nat /\ HostCalls \in Nat
      /\ raised[r] \subseteq Nat
  BY StreamTypes DEF HInv, TInv
<1>2. /\ calls[r] >= 1 /\ calls[r] <= HostCalls /\ at[r] # "waiting"
  BY <1>1 DEF Place, InHostCall, AfterWait
<1>3. raised[r] = {}
  BY <1>1 DEF Place, CleanUpTo
<1>4. entered[r] = 2 * calls[r] /\ expired[r] = 0
  BY <1>1, <1>2, <1>3 DEF Pace
<1>5. Peer(r) \in Rank /\ Q!Rank = Rank /\ Q!Peer(r) = Peer(r) /\ Q!Peer(Peer(r)) = r
  BY DEF Rank, Peer, Q!Rank, Q!Peer
<1>6. \A q \in Rank :
        /\ entered[q] \in Nat /\ passed[q] \in Nat /\ expired[q] \in Nat
        /\ entered[q] = passed[q] + expired[q] + (IF at[q] = "waiting" THEN 1 ELSE 0)
        /\ passed[q] + (IF event[Q!Peer(q)] THEN 1 ELSE 0) <= entered[Q!Peer(q)]
  BY <1>5, BarrierBound
  DEF HInv, TInv, Q!IInv, Q!TypeOK, Q!Accounting, Q!SignalsAreEarned
<1>7. passed[r] = 2 * calls[r]
  BY <1>2, <1>4, <1>6
<1>8. passed[r] <= entered[Peer(r)] /\ passed[Peer(r)] <= entered[r]
  BY <1>5, <1>6
<1>9. QED
  BY <1>1, <1>2, <1>4, <1>5, <1>6, <1>7, <1>8

\* On the host path a rank adds the peer's payload of the same call: the peer
\* has copied it in before the first barrier and cannot copy again before the
\* second.
LEMMA HostAddReads ==
  ASSUME HostFirst, HInv, SInv, NEW r \in Rank, pc[r] = "adding",
         CleanUpTo(calls[r])
  PROVE  slot[Peer(r)] = calls[r] /\ calls[Peer(r)] = calls[r]
<1> DEFINE p == Peer(r)
<1> p \in Rank
  BY DEF Rank, Peer
<1> HIDE DEF p
<1>1. /\ calls[r] \in Nat /\ calls[r] >= 1 /\ calls[r] <= HostCalls
      /\ HostCalls \in Nat /\ entered[r] = 2 * calls[r]
      /\ entered[p] >= 2 * calls[r] /\ passed[p] <= 2 * calls[r]
      /\ entered[p] \in Nat /\ passed[p] \in Nat
  BY AddingPace DEF p
<1>2. /\ Place(p) /\ Separation(p) /\ calls[p] \in Nat /\ raised[p] \subseteq Nat
      /\ SlotMeaning(p)
  BY StreamTypes DEF HInv, TInv, SInv
<1>3. Clean(p, calls[r])
  BY DEF CleanUpTo, Clean
<1>4. calls[p] >= calls[r]
  <2> SUFFICES ASSUME calls[p] < calls[r] PROVE FALSE
    BY <1>1, <1>2
  <2>1. raised[p] = {}
    BY <1>1, <1>2, <1>3 DEF Place, Clean
  <2>2. entered[p] < 2 * calls[r]
    BY <1>1, <2>1, BarrierBehind
  <2>3. QED
    BY <1>1, <2>2
<1>5. calls[p] <= calls[r]
  <2> SUFFICES ASSUME calls[p] > calls[r] PROVE FALSE
    BY <1>1, <1>2
  <2>1. calls[r] \in 1..HostCalls /\ Ended(p, calls[r])
    BY <1>1 DEF Ended
  <2>2. passed[p] >= 2 * calls[r] + 1
    BY <1>2, <1>3, <2>1 DEF Separation
  <2>3. QED
    BY <1>1, <2>2
<1>6. calls[p] = calls[r]
  BY <1>1, <1>2, <1>4, <1>5
<1>7. QED
  BY <1>1, <1>2, <1>6 DEF SlotMeaning, p

\* On the stream path a GPU adds the peer's payload of the same epoch.
LEMMA AddReads ==
  ASSUME HostFirst, HInv, SInv, NEW r \in Rank, NEW e \in Epoch, Turn(r, e, 5),
         CleanUpTo(HostCalls + e)
  PROVE  slot[Peer(r)] = HostCalls + e
<1> DEFINE p == Peer(r)
<1>1. p \in Rank /\ Peer(p) = r
  BY DEF Rank, Peer
<1> HIDE DEF p
<1>2. TypeOK /\ Handshake(r) /\ Handshake(p) /\ SlotMeaning(p)
  BY <1>1 DEF HInv, TInv, SInv
<1>3. /\ HostCalls \in Nat /\ e \in Nat /\ slot[p] \in Nat
      /\ \A q \in Rank, f \in Epoch : done[q][f] \in Nat
  BY <1>1, <1>2, StreamTypes
<1>4. done[r][e] = 4
  BY DEF Turn
<1>5. done[p][e] >= 3
  BY <1>2, <1>4 DEF Handshake, p
<1>6. slot[p] >= HostCalls + e
  BY <1>1, <1>2, <1>3, <1>5 DEF SlotMeaning
<1>7. ASSUME slot[p] > HostCalls + e PROVE FALSE
  <2>1. slot[p] - HostCalls \in Epoch /\ done[p][slot[p] - HostCalls] >= 2
    BY <1>2, <1>3, <1>7 DEF SlotMeaning
  <2>2. PICK f \in Epoch : f = slot[p] - HostCalls
    BY <2>1
  <2>3. done[p][f] >= 1 /\ e < f
    BY <1>1, <1>3, <1>7, <2>1, <2>2
  <2>4. done[r][e] = 6
    BY <1>1, <1>2, <2>3 DEF Handshake
  <2>5. QED
    BY <1>4, <2>4
<1>8. QED
  BY <1>3, <1>6, <1>7 DEF p

\* Writing and reading of a slot exclude each other, on and across both paths.
LEMMA Exclusion == HostFirst /\ HInv /\ SInv => SlotExclusive
<1> SUFFICES ASSUME HostFirst, HInv, SInv, NEW r \in Rank, CleanUpTo(MaxLen),
                    \/ \E e \in Epoch : Turn(r, e, 2)
                    \/ Calling(r, "host") /\ Idle(r),
                    \/ pc[Peer(r)] = "adding"
                    \/ \E e \in Epoch : Turn(Peer(r), e, 5)
             PROVE  FALSE
  BY DEF SlotExclusive
<1> DEFINE p == Peer(r)
<1>1. p \in Rank /\ Peer(p) = r
  BY DEF Rank, Peer
<1> HIDE DEF p
<1>2. /\ TypeOK /\ Numbering(r) /\ InOrder(r) /\ Handshake(r) /\ Handshake(p)
      /\ Numbering(p) /\ Separation(r) /\ Place(r) /\ Place(p)
  BY <1>1 DEF HInv, TInv, SInv
<1>3. /\ HostCalls \in Nat /\ MaxLen \in Nat /\ HostCalls <= Len(workload)
      /\ Len(workload) \in Nat /\ Len(workload) <= MaxLen
      /\ calls[r] \in Nat /\ calls[p] \in Nat /\ epoch[r] \in Nat
      /\ raised[r] \subseteq Nat /\ raised[p] \subseteq Nat
      /\ \A f \in Epoch : f \in Nat /\ f >= 1
      /\ \A q \in Rank, f \in Epoch : done[q][f] \in Nat /\ queued[q][f] \in Nat
  BY <1>1, <1>2, StreamTypes
<1>4. raised[r] = {} /\ raised[p] = {}
  <2>1. ASSUME NEW q \in {r, p}, NEW d \in raised[q] PROVE FALSE
    <3>1. d <= calls[q] /\ calls[q] <= MaxLen /\ calls[q] \in Nat /\ d \in Nat
      BY <1>2, <1>3, <2>1 DEF Place
    <3>2. d > MaxLen
      BY <1>1, <2>1 DEF CleanUpTo
    <3>3. QED
      BY <1>3, <3>1, <3>2
  <2>2. QED
    BY <2>1
<1>5. \A c : CleanUpTo(c)
  BY <1>1, <1>4 DEF CleanUpTo, Rank, p, Peer
<1>6. ASSUME NEW e \in Epoch, Turn(r, e, 2), pc[p] = "adding" PROVE FALSE
  <2>1. /\ calls[p] >= 1 /\ calls[p] <= HostCalls /\ entered[p] = 2 * calls[p]
        /\ passed[r] <= entered[p] /\ passed[r] \in Nat
    BY <1>1, <1>5, <1>6, AddingPace
  <2>2. calls[r] > HostCalls
    <3>1. queued[r][e] >= 2
      BY <1>6 DEF Turn
    <3>2. e <= epoch[r]
      BY <1>2, <1>3, <3>1 DEF Numbering
    <3>3. QED
      BY <1>2, <1>3, <3>2 DEF Numbering
  <2>3. passed[r] >= 2 * calls[p] + 1
    <3>1. calls[p] \in 1..HostCalls /\ Ended(r, calls[p]) /\ Clean(r, calls[p])
      BY <1>3, <1>4, <2>1, <2>2 DEF Ended, Clean
    <3>2. QED
      BY <1>2, <3>1 DEF Separation
  <2>4. QED
    BY <1>3, <2>1, <2>3
<1>7. ASSUME NEW e \in Epoch, Turn(r, e, 2), NEW f \in Epoch, Turn(p, f, 5)
      PROVE  FALSE
  <2>1. done[r][e] = 1 /\ queued[r][e] >= 2 /\ done[p][f] = 4
    BY <1>7 DEF Turn
  <2>2. CASE f < e
    <3>1. done[p][f] = 6
      BY <1>2, <1>5, <2>1, <2>2 DEF Handshake, p
    <3>2. QED
      BY <2>1, <3>1
  <2>3. CASE f >= e
    <3>1. done[r][f] >= 3
      BY <1>1, <1>2, <1>5, <2>1 DEF Handshake
    <3>2. f # e
      BY <2>1, <3>1
    <3>3. e < f /\ done[r][f] > 0
      BY <1>3, <2>3, <3>1, <3>2
    <3>4. done[r][e] = queued[r][e]
      BY <1>2, <3>3 DEF InOrder
    <3>5. QED
      BY <1>3, <2>1, <3>4
  <2>4. QED
    BY <1>3, <2>2, <2>3
<1>8. ASSUME Calling(r, "host")
      PROVE  pc[r] = "idle" /\ calls[r] + 1 <= HostCalls
  <2>1. calls[r] + 1 \in 1..Len(workload) /\ workload[calls[r] + 1] = "host"
    BY <1>3, <1>8 DEF Calling
  <2>2. QED
    BY <1>2, <1>8, <2>1, HostPrefix DEF Calling, TypeOK
<1>9. ASSUME Calling(r, "host"), pc[p] = "adding" PROVE FALSE
  <2>1. calls[r] = calls[p]
    BY <1>1, <1>5, <1>9, HostAddReads
  <2>2. /\ calls[p] >= 1 /\ calls[p] <= HostCalls /\ entered[p] = 2 * calls[p]
        /\ passed[r] <= entered[p] /\ passed[r] \in Nat
    BY <1>1, <1>5, <1>9, AddingPace
  <2>3. passed[r] >= 2 * calls[p] + 1
    <3>1. calls[p] \in 1..HostCalls /\ Ended(r, calls[p]) /\ Clean(r, calls[p])
      BY <1>3, <1>4, <1>8, <1>9, <2>1, <2>2 DEF Ended, Clean, InHostCall
    <3>2. QED
      BY <1>2, <3>1 DEF Separation
  <2>4. QED
    BY <1>3, <2>2, <2>3
<1>10. ASSUME Calling(r, "host"), NEW f \in Epoch, Turn(p, f, 5) PROVE FALSE
  <2>1. done[r][f] >= 3
    BY <1>1, <1>2, <1>5, <1>10 DEF Handshake, Turn
  <2>2. epoch[r] = 0
    BY <1>2, <1>3, <1>8, <1>10 DEF Numbering
  <2>3. queued[r][f] = 0 /\ done[r][f] <= queued[r][f]
    BY <1>2, <1>3, <2>2 DEF Numbering
  <2>4. QED
    BY <1>3, <2>1, <2>3
<1>11. QED
  BY <1>6, <1>7, <1>9, <1>10 DEF p

\* Writing and reading a slot exclude each other in every state, when the calls
\* of the host path come first.
THEOREM SlotsAreExclusive ==
  ASSUME HostFirst
  PROVE  Spec => []SlotExclusive
<1>1. Init => HInv /\ SInv
  BY InitHInv, InitSInv
<1>2. (HInv /\ SInv) /\ [Next]_vars => (HInv /\ SInv)'
  BY NextHInv, NextSInv
<1>3. HInv /\ SInv => SlotExclusive
  BY Exclusion
<1>4. QED
  BY <1>1, <1>2, <1>3, PTL DEF Spec

\* At the start there are no results.
LEMMA InitGInv == HostFirst /\ Init => GInv
<1> SUFFICES ASSUME HostFirst, Init PROVE GInv
  OBVIOUS
<1>1. HInv /\ SInv
  BY InitHInv, InitSInv
<1>2. HostCalls \in Nat /\ MaxLen \in Nat /\ HostCalls <= MaxLen
  BY HostPrefix DEF Init
<1>3. ASSUME NEW r \in Rank
      PROVE  /\ calls[r] = 0
             /\ \A c \in Call : result[r][c] = 0
             /\ \A e \in Epoch : done[r][e] = 0
  BY DEF Init
<1>4. ASSUME NEW r \in Rank PROVE ResultMeaning(r)
  <2>1. ASSUME NEW c \in 1..HostCalls PROVE ~Fetched(r, c) /\ c \in Call
    BY <1>2, <1>3 DEF Fetched, Call
  <2>2. ASSUME NEW e \in Epoch, HostCalls + e <= MaxLen PROVE HostCalls + e \in Call
    BY <1>2, <2>2 DEF Call, Epoch
  <2>3. QED
    BY <1>3, <2>1, <2>2 DEF ResultMeaning
<1>5. QED
  BY <1>1, <1>4 DEF GInv

\* A step that adds nothing keeps the results, if no rank gets past an addition
\* in a call that does not raise.
LEMMA QuietKeepsResults ==
  ASSUME \A q \in Rank : ResultMeaning(q), HostCalls' = HostCalls,
         UNCHANGED <<result, done>>,
         \A q \in Rank : raised[q] \subseteq raised'[q],
         \A q \in Rank, c \in 1..HostCalls :
           /\ Fetched(q, c) => Fetched(q, c)'
           /\ Fetched(q, c)' /\ CleanUpTo(c)' => Fetched(q, c)
  PROVE  \A q \in Rank : ResultMeaning(q)'
<1> SUFFICES ASSUME NEW q \in Rank PROVE ResultMeaning(q)'
  OBVIOUS
<1>1. ResultMeaning(q)
  OBVIOUS
<1>2. ASSUME NEW c \in 1..HostCalls
      PROVE  /\ ~Fetched(q, c)' => result'[q][c] = 0
             /\ Fetched(q, c)' /\ CleanUpTo(c)' => result'[q][c] = c
  <2>1. CleanUpTo(c)' => CleanUpTo(c)
    BY DEF CleanUpTo
  <2>2. QED
    BY <1>1, <2>1 DEF ResultMeaning
<1>3. ASSUME NEW e \in Epoch, HostCalls + e <= MaxLen
      PROVE  /\ done'[q][e] < 5 => result'[q][HostCalls + e] = 0
             /\ done'[q][e] >= 5 /\ CleanUpTo(HostCalls + e)'
                  => result'[q][HostCalls + e] = HostCalls + e
  <2>1. CleanUpTo(HostCalls + e)' => CleanUpTo(HostCalls + e)
    BY DEF CleanUpTo
  <2>2. QED
    BY <1>1, <1>3, <2>1 DEF ResultMeaning
<1>4. QED
  BY <1>2, <1>3 DEF ResultMeaning

\* The steps of a host thread, but for the addition, keep the results.
LEMMA HostKeepsResults ==
  ASSUME HostFirst, GInv, NEW r \in Rank, Host(r), ~HostAdd(r), HostCalls' = HostCalls
  PROVE  \A q \in Rank : ResultMeaning(q)'
<1>1. TypeOK /\ HInv /\ \A q \in Rank : ResultMeaning(q)
  BY DEF GInv, HInv, TInv
<1>2. HostCalls \in Nat /\ calls[r] \in Nat
  BY <1>1, StreamTypes
<1>3. UNCHANGED <<result, done>>
  BY DEF Host, Construct, StreamCall, RefuseCall, HostCopy, Synchronize,
         BarrierSignal, BarrierPass, BarrierTimeout, Unmap, memory
<1>4. \A q \in Rank : raised[q] \subseteq raised'[q]
  <2>1. raised[r] \subseteq raised'[r]
    BY <1>1
    DEF Host, Construct, StreamCall, RefuseCall, HostCopy, Synchronize,
        BarrierSignal, BarrierPass, BarrierTimeout, Unmap, host, TypeOK
  <2>2. ASSUME NEW q \in Rank, q # r PROVE raised'[q] = raised[q]
    BY <1>1, <2>2
    DEF Host, Construct, StreamCall, RefuseCall, HostCopy, Synchronize,
        BarrierSignal, BarrierPass, BarrierTimeout, Unmap, host, TypeOK
  <2>3. QED
    BY <2>1, <2>2
<1>5. ASSUME NEW q \in Rank, q # r PROVE calls'[q] = calls[q] /\ pc'[q] = pc[q]
  BY <1>1, <1>5
  DEF Host, Construct, StreamCall, RefuseCall, HostCopy, Synchronize,
      BarrierSignal, BarrierPass, BarrierTimeout, Unmap, host, TypeOK
<1>6. ASSUME NEW c \in 1..HostCalls
      PROVE  /\ Fetched(r, c) => Fetched(r, c)'
             /\ Fetched(r, c)' /\ CleanUpTo(c)' => Fetched(r, c)
  <2> c \in Nat /\ c >= 1 /\ c <= HostCalls
    BY <1>2
  <2> USE DEF Fetched
  <2>1. Place(r)
    BY <1>1 DEF HInv
  <2>2. CASE Construct(r)
    BY <1>1, <1>2, <2>1, <2>2 DEF Construct, TypeOK, Place
  <2>3. ASSUME calls[r] + 1 > HostCalls, pc[r] = "idle", pc'[r] = "idle",
               calls'[r] = calls[r] + 1
        PROVE  Fetched(r, c) /\ Fetched(r, c)'
    BY <1>2, <2>3
  <2>4. ASSUME Calling(r, "stream") PROVE calls[r] + 1 > HostCalls /\ pc[r] = "idle"
    <3>1. calls[r] + 1 \in 1..Len(workload)
      BY <1>1, <1>2, <2>4, StreamTypes DEF Calling
    <3>2. QED
      BY <1>1, <1>2, <2>4, <3>1, HostPrefix DEF Calling, TypeOK
  <2>5. ASSUME NEW n \in 0..6, StreamCall(r, n) PROVE Fetched(r, c) /\ Fetched(r, c)'
    BY <1>1, <2>3, <2>4, <2>5 DEF StreamCall, TypeOK
  <2>6. ASSUME RefuseCall(r) PROVE Fetched(r, c) /\ Fetched(r, c)'
    BY <1>1, <2>3, <2>4, <2>6 DEF RefuseCall, TypeOK
  <2>7. CASE HostCopy(r)
    BY <1>1, <1>2, <2>7 DEF HostCopy, Calling, TypeOK
  <2>8. CASE Synchronize(r)
    BY <1>1, <1>2, <2>8 DEF Synchronize, TypeOK
  <2>9. CASE BarrierSignal(r)
    BY <1>1, <2>9 DEF BarrierSignal, host
  <2>10. CASE BarrierPass(r)
    BY <1>1, <1>2, <2>10 DEF BarrierPass, AfterWait, TypeOK
  <2>11. CASE BarrierTimeout(r)
    <3>1. calls'[r] = calls[r]
      BY <2>11 DEF BarrierTimeout
    <3>2. CASE pc[r] \in {"copied", "added"}
      <4>1. calls[r] \in raised'[r] /\ pc'[r] = "idle"
        BY <1>1, <2>11, <3>2 DEF BarrierTimeout, TypeOK
      <4>2. CleanUpTo(c)' => calls[r] > c
        BY <4>1 DEF CleanUpTo
      <4>3. QED
        BY <1>2, <3>1, <4>1, <4>2
    <3>3. CASE pc[r] \notin {"copied", "added"}
      BY <1>1, <1>2, <2>11, <3>1, <3>3 DEF BarrierTimeout, AfterWait, TypeOK
    <3>4. QED
      BY <3>2, <3>3
  <2>12. CASE Unmap(r)
    BY <1>1, <1>2, <2>12 DEF Unmap, TypeOK
  <2>13. QED
    BY <2>2, <2>5, <2>6, <2>7, <2>8, <2>9, <2>10, <2>11, <2>12 DEF Host
<1>7. ASSUME NEW q \in Rank, NEW c \in 1..HostCalls
      PROVE  /\ Fetched(q, c) => Fetched(q, c)'
             /\ Fetched(q, c)' /\ CleanUpTo(c)' => Fetched(q, c)
  <2>1. CASE q = r
    BY <1>6, <2>1
  <2>2. CASE q # r
    BY <1>5, <2>2 DEF Fetched
  <2>3. QED
    BY <2>1, <2>2
<1>8. QED
  BY <1>1, <1>3, <1>4, <1>7, QuietKeepsResults

\* The addition of the host path gives the sum of the call.
LEMMA HostAddKeepsResults ==
  ASSUME HostFirst, GInv, NEW r \in Rank, HostAdd(r), HostCalls' = HostCalls
  PROVE  \A q \in Rank : ResultMeaning(q)'
<1> SUFFICES ASSUME NEW q \in Rank PROVE ResultMeaning(q)'
  OBVIOUS
<1>1. TypeOK /\ HInv /\ SInv /\ ResultMeaning(q) /\ ResultMeaning(r) /\ Place(r)
  BY DEF GInv, HInv, TInv
<1>2. /\ HostCalls \in Nat /\ calls[r] \in Nat /\ MaxLen \in Nat
      /\ HostCalls <= MaxLen /\ \A e \in Epoch : e \in Nat /\ e >= 1
  BY <1>1, StreamTypes
<1>3. /\ pc[r] = "adding" /\ pc'[r] = "added" /\ UNCHANGED <<calls, raised, done>>
      /\ calls[r] >= 1 /\ calls[r] <= HostCalls /\ calls[r] \in Call
  BY <1>1, <1>2 DEF HostAdd, TypeOK, Place, InHostCall, Call
<1>4. /\ result'[r][calls[r]] = slot[Peer(r)]
      /\ \A c \in Call : c # calls[r] => result'[r][c] = result[r][c]
      /\ \A p \in Rank : p # r => result'[p] = result[p] /\ pc'[p] = pc[p]
  BY <1>1, <1>3 DEF HostAdd, TypeOK
<1>5. CleanUpTo(calls[r]) => slot[Peer(r)] = calls[r]
  BY <1>1, <1>3, HostAddReads
<1>7. ASSUME NEW c \in 1..HostCalls
      PROVE  /\ ~Fetched(q, c)' => result'[q][c] = 0
             /\ Fetched(q, c)' /\ CleanUpTo(c)' => result'[q][c] = c
  <2>1. CleanUpTo(c)' <=> CleanUpTo(c)
    BY <1>3 DEF CleanUpTo
  <2>2. c \in Call /\ c \in Nat
    BY <1>2 DEF Call
  <2>3. CASE q # r
    BY <1>1, <1>3, <1>4, <2>1, <2>3 DEF ResultMeaning, Fetched
  <2>4. CASE q = r /\ c # calls[r]
    BY <1>1, <1>3, <1>4, <2>1, <2>2, <2>4 DEF ResultMeaning, Fetched
  <2>5. CASE q = r /\ c = calls[r]
    BY <1>3, <1>4, <1>5, <2>1, <2>5 DEF Fetched
  <2>6. QED
    BY <2>3, <2>4, <2>5
<1>8. ASSUME NEW e \in Epoch, HostCalls + e <= MaxLen
      PROVE  /\ done'[q][e] < 5 => result'[q][HostCalls + e] = 0
             /\ done'[q][e] >= 5 /\ CleanUpTo(HostCalls + e)'
                  => result'[q][HostCalls + e] = HostCalls + e
  <2>1. CleanUpTo(HostCalls + e)' <=> CleanUpTo(HostCalls + e)
    BY <1>3 DEF CleanUpTo
  <2>2. HostCalls + e \in Call /\ HostCalls + e # calls[r]
    BY <1>2, <1>3, <1>8 DEF Call
  <2>3. result'[q][HostCalls + e] = result[q][HostCalls + e]
    BY <1>4, <2>2
  <2>4. QED
    BY <1>1, <1>3, <1>8, <2>1, <2>3 DEF ResultMeaning
<1>9. QED
  BY <1>7, <1>8 DEF ResultMeaning

\* The operations of a GPU keep the results; its addition gives the sum.
LEMMA GpuKeepsResults ==
  ASSUME HostFirst, GInv, NEW r \in Rank, NEW e \in Epoch, Gpu(r, e),
         HostCalls' = HostCalls
  PROVE  \A q \in Rank : ResultMeaning(q)'
<1> SUFFICES ASSUME NEW q \in Rank PROVE ResultMeaning(q)'
  OBVIOUS
<1>1. TypeOK /\ HInv /\ SInv /\ ResultMeaning(q) /\ Numbering(r)
  BY DEF GInv, HInv, TInv, SInv
<1>2. /\ HostCalls \in Nat /\ MaxLen \in Nat /\ HostCalls <= MaxLen
      /\ \A f \in Epoch : f \in Nat /\ f >= 1
      /\ \A f \in Epoch : done[q][f] \in Nat
  BY <1>1, StreamTypes
<1>3. UNCHANGED <<pc, calls, raised>>
  BY GpuLeaves DEF host
<1>4. \A c : (\A p \in Rank : \A d \in raised'[p] : d > c) <=> CleanUpTo(c)
  BY <1>3 DEF CleanUpTo
<1>5. CASE Add(r, e)
  <2>1. Turn(r, e, 5) /\ Advance(r, e) /\ 5 \in 1..6
    BY <1>5 DEF Add
  <2>2. /\ callOf[r][e] = HostCalls + e /\ done'[r][e] = 5 /\ done[r][e] = 4
        /\ \A p \in Rank, f \in Epoch : p # r \/ f # e => done'[p][f] = done[p][f]
    BY <1>1, <2>1, OpEffect
  <2>3. /\ HostCalls + e \in Call => result'[r][HostCalls + e] = slot[Peer(r)]
        /\ \A c \in Call : c # HostCalls + e => result'[r][c] = result[r][c]
        /\ \A p \in Rank : p # r => result'[p] = result[p]
    BY <1>1, <1>5, <2>2 DEF Add, TypeOK
  <2>4. CleanUpTo(HostCalls + e) => slot[Peer(r)] = HostCalls + e
    BY <1>1, <2>1, AddReads
  <2>5. ASSUME NEW c \in 1..HostCalls
        PROVE  /\ ~Fetched(q, c)' => result'[q][c] = 0
               /\ Fetched(q, c)' /\ CleanUpTo(c)' => result'[q][c] = c
    <3>1. c \in Call /\ c # HostCalls + e
      BY <1>2 DEF Call
    <3>2. result'[q][c] = result[q][c]
      BY <2>3, <3>1
    <3>3. QED
      BY <1>1, <1>3, <3>2 DEF ResultMeaning, Fetched, CleanUpTo
  <2>6. ASSUME NEW f \in Epoch, HostCalls + f <= MaxLen
        PROVE  /\ done'[q][f] < 5 => result'[q][HostCalls + f] = 0
               /\ done'[q][f] >= 5 /\ CleanUpTo(HostCalls + f)
                    => result'[q][HostCalls + f] = HostCalls + f
    <3>1. HostCalls + f \in Call /\ f \in Nat /\ e \in Nat
      BY <1>2, <2>6 DEF Call
    <3>2. CASE q = r /\ f = e
      BY <2>2, <2>3, <2>4, <3>1, <3>2
    <3>3. CASE q # r \/ f # e
      <4>1. f # e => HostCalls + f # HostCalls + e
        BY <1>2, <3>1
      <4>2. result'[q][HostCalls + f] = result[q][HostCalls + f]
        BY <2>3, <3>1, <3>3, <4>1
      <4>3. done'[q][f] = done[q][f]
        BY <2>2, <3>3
      <4>4. QED
        BY <1>1, <2>6, <4>2, <4>3 DEF ResultMeaning
    <3>4. QED
      BY <3>2, <3>3
  <2>7. \A f \in Epoch : CleanUpTo(HostCalls + f)' => CleanUpTo(HostCalls + f)
    BY <1>3 DEF CleanUpTo
  <2>8. QED
    BY <2>5, <2>6, <2>7 DEF ResultMeaning
<1>6. CASE ~Add(r, e)
  <2>1. PICK k \in 1..6 : Turn(r, e, k) /\ Advance(r, e) /\ k # 5
    BY <1>6
    DEF Gpu, WaitConsumed, CopyIn, WriteReady, WaitReady, WriteConsumed
  <2>2. /\ k \in Nat /\ done'[r][e] = k /\ done[r][e] = k - 1
        /\ \A p \in Rank, f \in Epoch : p # r \/ f # e => done'[p][f] = done[p][f]
    BY <1>1, <2>1, OpEffect
  <2>3. \A f \in Epoch : done'[q][f] >= 5 <=> done[q][f] >= 5
    BY <1>2, <2>1, <2>2
  <2>4. \A f \in Epoch : done'[q][f] < 5 <=> done[q][f] < 5
    BY <1>2, <2>1, <2>2
  <2>5. UNCHANGED result
    BY <1>6
    DEF Gpu, WaitConsumed, CopyIn, WriteReady, WaitReady, WriteConsumed, memory
  <2>6. QED
    BY <1>1, <1>3, <2>3, <2>4, <2>5 DEF ResultMeaning, Fetched, CleanUpTo
<1>7. QED
  BY <1>5, <1>6

\* Every step keeps the whole invariant.
LEMMA NextGInv == HostFirst /\ GInv /\ [Next]_vars => GInv'
<1> SUFFICES ASSUME HostFirst, GInv, [Next]_vars PROVE GInv'
  OBVIOUS
<1>1. HInv' /\ SInv'
  BY NextHInv, NextSInv DEF GInv
<1>2. HostCalls' = HostCalls
  BY WorkloadFixed
<1>3. ASSUME UNCHANGED vars PROVE \A q \in Rank : ResultMeaning(q)'
  <2>1. UNCHANGED <<pc, calls, raised, done, result>>
    BY <1>3 DEF vars, host, memory
  <2>2. QED
    BY <1>2, <2>1 DEF GInv, ResultMeaning, Fetched, CleanUpTo
<1>4. \A q \in Rank : ResultMeaning(q)'
  BY <1>2, <1>3, HostKeepsResults, HostAddKeepsResults, GpuKeepsResults
  DEF Next, Host
<1>5. QED
  BY <1>1, <1>4 DEF GInv

\* A result is the sum of its own call.
LEMMA Sums == HostFirst /\ GInv => SumOfSameCall
<1> SUFFICES ASSUME HostFirst, GInv, NEW r \in Rank, NEW c \in Call, CleanUpTo(c)
             PROVE  result[r][c] \in {0, c}
  BY DEF SumOfSameCall
<1>1. TypeOK /\ ResultMeaning(r)
  BY DEF GInv, HInv, TInv
<1>2. /\ HostCalls \in Nat /\ MaxLen \in Nat /\ c \in Nat /\ c >= 1 /\ c <= MaxLen
      /\ \A e \in Epoch : done[r][e] \in Nat
  BY <1>1, StreamTypes DEF Call
<1>3. CASE c <= HostCalls
  BY <1>1, <1>2, <1>3 DEF ResultMeaning
<1>4. CASE c > HostCalls
  <2>1. PICK e \in Epoch : HostCalls + e = c
    <3>1. c - HostCalls \in Epoch /\ HostCalls + (c - HostCalls) = c
      BY <1>2, <1>4 DEF Epoch
    <3>2. QED
      BY <3>1
  <2>2. done[r][e] < 5 \/ done[r][e] >= 5
    BY <1>2
  <2>3. QED
    BY <1>1, <1>2, <2>1, <2>2 DEF ResultMeaning
<1>5. QED
  BY <1>2, <1>3, <1>4

\* all_reduce returns the sum of the two tensors of the same call, on both
\* paths, for workloads of any length that begin on the host path, with
\* timeouts and half-enqueued calls - up to the first call that raises.
THEOREM SameCallSums ==
  ASSUME HostFirst
  PROVE  Spec => []SumOfSameCall
<1>1. Init => GInv
  BY InitGInv
<1>2. GInv /\ [Next]_vars => GInv'
  BY NextGInv
<1>3. GInv => SumOfSameCall
  BY Sums
<1>4. QED
  BY <1>1, <1>2, <1>3, PTL DEF Spec
-----------------------------------------------------------------------------
(* The refinement: the slot is the abstract contribution.                  *)

\* While no call has raised, no call is unclean.
LEMMA NothingRaised ==
  ASSUME \A q \in Rank : raised[q] = {}
  PROVE  \A c : CleanUpTo(c)
  BY DEF CleanUpTo

\* A copy into the slot is the next contribution, and comes after the result
\* of the previous call.
LEMMA CopyIsGive ==
  ASSUME HostFirst, GInv, NEW r \in Rank, \A q \in Rank : raised[q] = {},
         UNCHANGED <<result, raised>>,
         HostCopy(r) \/ \E e \in Epoch : CopyIn(r, e)
  PROVE  Abstract!Give(r)
<1>1. /\ TypeOK /\ SInv /\ HInv /\ Place(r) /\ ResultMeaning(r) /\ SlotMeaning(r)
      /\ Numbering(r) /\ InOrder(r)
  BY DEF GInv, HInv, TInv, SInv
<1>2. /\ HostCalls \in Nat /\ MaxLen \in Nat /\ HostCalls <= MaxLen
      /\ calls[r] \in Nat /\ slot[r] \in Nat /\ epoch[r] \in Nat
      /\ calls[r] <= MaxLen
      /\ Len(workload) \in Nat /\ Len(workload) <= MaxLen
      /\ \A f \in Epoch : f \in Nat /\ f >= 1 /\ f <= MaxLen
      /\ \A f \in Epoch : done[r][f] \in Nat /\ queued[r][f] \in Nat
  <2>1. calls[r] \in 0..MaxLen
    BY <1>1 DEF TypeOK
  <2>2. QED
    BY <1>1, <2>1, StreamTypes
<1>3. \A c : CleanUpTo(c)
  BY NothingRaised
<1>4. /\ slot[r] + 1 <= MaxLen
      /\ slot' = [slot EXCEPT ![r] = slot[r] + 1]
      /\ slot[r] > 0 => result[r][slot[r]] # 0
  <2>1. CASE HostCopy(r)
    <3>1. pc[r] = "idle" /\ calls[r] + 1 \in 1..Len(workload)
          /\ workload[calls[r] + 1] = "host"
      BY <1>2, <2>1 DEF HostCopy, Calling
    <3>2. calls[r] + 1 <= HostCalls
      BY <1>1, <3>1, HostPrefix DEF TypeOK
    <3>3. slot[r] = calls[r]
      BY <1>1, <1>2, <3>2 DEF SlotMeaning
    <3>4. ASSUME calls[r] > 0 PROVE result[r][calls[r]] # 0
      <4>1. calls[r] \in 1..HostCalls /\ Fetched(r, calls[r])
        BY <1>2, <3>1, <3>2, <3>4 DEF Fetched
      <4>2. result[r][calls[r]] = calls[r]
        BY <1>1, <1>3, <4>1 DEF ResultMeaning
      <4>3. QED
        BY <1>2, <3>4, <4>2
    <3>5. QED
      BY <1>2, <2>1, <3>2, <3>3, <3>4 DEF HostCopy
  <2>2. ASSUME NEW e \in Epoch, CopyIn(r, e)
        PROVE  /\ slot[r] + 1 <= MaxLen
               /\ slot' = [slot EXCEPT ![r] = slot[r] + 1]
               /\ slot[r] > 0 => result[r][slot[r]] # 0
    <3>1. Turn(r, e, 2) /\ Advance(r, e) /\ 2 \in 1..6
      BY <2>2 DEF CopyIn
    <3>2. /\ callOf[r][e] = HostCalls + e /\ e <= epoch[r] /\ done[r][e] = 1
          /\ queued[r][e] >= 2
      BY <1>1, <3>1, OpEffect
    <3>3. calls[r] > HostCalls /\ HostCalls + e <= calls[r]
      BY <1>1, <1>2, <3>2 DEF Numbering
    <3>4. slot[r] >= HostCalls
      BY <1>1, <3>3 DEF SlotMeaning
    <3>5. slot[r] < HostCalls + e
      <4> SUFFICES ASSUME slot[r] >= HostCalls + e PROVE FALSE
        BY <1>2
      <4>1. slot[r] - HostCalls \in Epoch /\ done[r][slot[r] - HostCalls] >= 2
        BY <1>1, <1>2 DEF SlotMeaning
      <4>2. PICK f \in Epoch : f = slot[r] - HostCalls
        BY <4>1
      <4>3. done[r][f] >= 2 /\ f >= e
        BY <1>2, <4>1, <4>2
      <4>4. f # e
        BY <3>2, <4>3
      <4>5. e < f /\ done[r][f] > 0
        BY <1>2, <4>3, <4>4
      <4>6. done[r][e] = queued[r][e]
        BY <1>1, <4>5 DEF InOrder
      <4>7. QED
        BY <1>2, <3>2, <4>6
    <3>6. slot[r] + 1 = HostCalls + e
      <4>1. CASE e = 1
        BY <1>2, <3>4, <3>5, <4>1
      <4>2. CASE e > 1
        <5>1. PICK f \in Epoch : f = e - 1
          <6>1. e - 1 \in Epoch
            BY <1>2, <4>2 DEF Epoch
          <6>2. QED
            BY <6>1
        <5>2. f < e /\ done[r][e] > 0
          BY <1>2, <3>2, <5>1
        <5>3. done[r][f] = 6
          BY <1>1, <1>3, <5>2, Finished
        <5>4. slot[r] >= HostCalls + f
          BY <1>1, <5>3 DEF SlotMeaning
        <5>5. QED
          BY <1>2, <3>5, <5>1, <5>4
      <4>3. QED
        BY <1>2, <4>1, <4>2
    <3>7. ASSUME slot[r] > 0 PROVE result[r][slot[r]] # 0
      <4>1. CASE e = 1
        <5>1. slot[r] = HostCalls /\ slot[r] \in 1..HostCalls /\ Fetched(r, slot[r])
          BY <1>2, <3>3, <3>6, <3>7, <4>1 DEF Fetched
        <5>2. result[r][slot[r]] = slot[r]
          BY <1>1, <1>3, <5>1 DEF ResultMeaning
        <5>3. QED
          BY <1>2, <3>7, <5>2
      <4>2. CASE e > 1
        <5>1. PICK f \in Epoch : f = e - 1
          <6>1. e - 1 \in Epoch
            BY <1>2, <4>2 DEF Epoch
          <6>2. QED
            BY <6>1
        <5>2. f < e /\ done[r][e] > 0
          BY <1>2, <3>2, <5>1
        <5>3. done[r][f] = 6
          BY <1>1, <1>3, <5>2, Finished
        <5>4. HostCalls + f = slot[r] /\ HostCalls + f <= MaxLen
          <6>1. e \in Nat /\ f \in Nat /\ e = f + 1
            BY <1>2, <5>1
          <6>2. HostCalls + e <= MaxLen
            BY <1>2, <3>3, <6>1
          <6>3. HostCalls + f = slot[r]
            <7>1. \A a, b, c \in Nat : a + 1 = b + (c + 1) => b + c = a
              OBVIOUS
            <7>2. HostCalls \in Nat /\ slot[r] \in Nat /\ slot[r] + 1 = HostCalls + (f + 1)
              BY <1>2, <3>6, <6>1
            <7>3. QED
              BY <6>1, <7>1, <7>2
          <6>4. HostCalls + f <= MaxLen
            BY <1>2, <6>1, <6>2
          <6>5. QED
            BY <6>3, <6>4
        <5>5. result[r][HostCalls + f] = HostCalls + f
          BY <1>1, <1>3, <5>3, <5>4 DEF ResultMeaning
        <5>6. QED
          BY <1>2, <3>7, <5>4, <5>5
      <4>3. QED
        BY <1>2, <4>1, <4>2
    <3>8. QED
      <4>1. e \in Nat
        BY <1>2
      <4>2. HostCalls + e <= MaxLen
        BY <1>2, <3>3, <4>1
      <4>3. slot' = [slot EXCEPT ![r] = slot[r] + 1]
        BY <2>2, <3>2, <3>6 DEF CopyIn
      <4>4. QED
        BY <3>6, <3>7, <4>2, <4>3
  <2>3. QED
    BY <2>1, <2>2
<1>5. QED
  BY <1>2, <1>4 DEF Abstract!Give

\* An addition is the result of the current call, to which both have given.
LEMMA AddIsGet ==
  ASSUME HostFirst, GInv, NEW r \in Rank, \A q \in Rank : raised[q] = {},
         UNCHANGED <<slot, raised>>,
         HostAdd(r) \/ \E e \in Epoch : Add(r, e)
  PROVE  Abstract!Get(r)
<1>1. /\ TypeOK /\ SInv /\ HInv /\ Place(r) /\ ResultMeaning(r) /\ SlotMeaning(r)
      /\ Numbering(r) /\ InOrder(r)
  BY DEF GInv, HInv, TInv, SInv
<1>2. /\ HostCalls \in Nat /\ MaxLen \in Nat /\ HostCalls <= MaxLen
      /\ calls[r] \in Nat /\ slot[r] \in Nat /\ epoch[r] \in Nat
      /\ calls[r] <= MaxLen
      /\ \A f \in Epoch : f \in Nat /\ f >= 1 /\ f <= MaxLen
      /\ \A f \in Epoch : done[r][f] \in Nat /\ queued[r][f] \in Nat
  <2>1. calls[r] \in 0..MaxLen
    BY <1>1 DEF TypeOK
  <2>2. QED
    BY <1>1, <2>1, StreamTypes
<1>3. \A c : CleanUpTo(c)
  BY NothingRaised
<1>4. /\ slot[r] > 0 /\ slot[Peer(r)] = slot[r] /\ result[r][slot[r]] = 0
      /\ result' = [result EXCEPT ![r][slot[r]] = slot[r]]
  <2>1. CASE HostAdd(r)
    <3>1. /\ pc[r] = "adding" /\ calls[r] >= 1 /\ calls[r] <= HostCalls
          /\ result' = [result EXCEPT ![r][calls[r]] = slot[Peer(r)]]
      BY <1>1, <2>1 DEF HostAdd, Place, InHostCall
    <3>2. slot[Peer(r)] = calls[r] /\ slot[r] = calls[r]
      BY <1>1, <1>3, <3>1, HostAddReads DEF SlotMeaning
    <3>3. calls[r] \in 1..HostCalls /\ ~Fetched(r, calls[r])
      BY <1>2, <3>1 DEF Fetched
    <3>4. result[r][calls[r]] = 0
      BY <1>1, <3>3 DEF ResultMeaning
    <3>5. QED
      BY <1>2, <3>1, <3>2, <3>4
  <2>2. ASSUME NEW e \in Epoch, Add(r, e)
        PROVE  /\ slot[r] > 0 /\ slot[Peer(r)] = slot[r] /\ result[r][slot[r]] = 0
               /\ result' = [result EXCEPT ![r][slot[r]] = slot[r]]
    <3>1. Turn(r, e, 5) /\ Advance(r, e) /\ 5 \in 1..6
      BY <2>2 DEF Add
    <3>2. /\ callOf[r][e] = HostCalls + e /\ e <= epoch[r] /\ done[r][e] = 4
          /\ queued[r][e] >= 5
      BY <1>1, <3>1, OpEffect
    <3>3. HostCalls + e <= calls[r]
      BY <1>1, <1>2, <3>2 DEF Numbering
    <3>4. slot[Peer(r)] = HostCalls + e
      BY <1>1, <1>3, <3>1, AddReads
    <3>5. slot[r] >= HostCalls + e
      BY <1>1, <3>2 DEF SlotMeaning
    <3>6. slot[r] = HostCalls + e
      <4> SUFFICES ASSUME slot[r] > HostCalls + e PROVE FALSE
        BY <1>2, <3>5
      <4>1. slot[r] - HostCalls \in Epoch /\ done[r][slot[r] - HostCalls] >= 2
        BY <1>1, <1>2 DEF SlotMeaning
      <4>2. PICK f \in Epoch : f = slot[r] - HostCalls
        BY <4>1
      <4>3. e < f /\ done[r][f] > 0
        BY <1>2, <4>1, <4>2
      <4>4. done[r][e] = queued[r][e]
        BY <1>1, <4>3 DEF InOrder
      <4>5. QED
        BY <1>2, <3>2, <4>4
    <3>7. result[r][HostCalls + e] = 0
      <4>1. HostCalls + e <= MaxLen /\ done[r][e] < 5
        BY <1>2, <3>2, <3>3
      <4>2. QED
        BY <1>1, <4>1 DEF ResultMeaning
    <3>8. slot[r] > 0
      BY <1>2, <3>6
    <3>9. result' = [result EXCEPT ![r][slot[r]] = slot[r]]
      BY <2>2, <3>2, <3>4, <3>6 DEF Add
    <3>10. QED
      BY <3>4, <3>6, <3>7, <3>8, <3>9
  <2>3. QED
    BY <2>1, <2>2
<1>5. \A p \in Rank : slot[p] >= slot[r]
  BY <1>2, <1>4 DEF Rank, Peer
<1>6. QED
  BY <1>4, <1>5 DEF Abstract!Get

\* Every step is a contribution, a result, the end of the promise, or nothing
\* the abstract all-reduce sees.
LEMMA StepRefines ==
  ASSUME HostFirst, GInv, [Next]_vars
  PROVE  [Abstract!Next]_(Abstract!spec_vars)
<1>1. CASE \E r \in Rank : raised'[r] # {}
  BY <1>1 DEF Abstract!Next, Abstract!Break
<1>2. CASE \A r \in Rank : raised'[r] = {}
  <2>1. TypeOK
    BY DEF GInv, HInv, TInv
  <2>2. ASSUME NEW r \in Rank, Host(r), NEW q \in Rank PROVE raised[q] \subseteq raised'[q]
    <3>1. CASE q = r
      BY <2>1, <2>2, <3>1
      DEF Host, Construct, StreamCall, RefuseCall, HostCopy, HostAdd, Synchronize,
          BarrierSignal, BarrierPass, BarrierTimeout, Unmap, host, TypeOK
    <3>2. CASE q # r
      BY <2>1, <2>2, <3>2
      DEF Host, Construct, StreamCall, RefuseCall, HostCopy, HostAdd, Synchronize,
          BarrierSignal, BarrierPass, BarrierTimeout, Unmap, host, TypeOK
    <3>3. QED
      BY <3>1, <3>2
  <2>3. ASSUME NEW r \in Rank, NEW e \in Epoch, Gpu(r, e) PROVE UNCHANGED raised
    BY <2>3, GpuLeaves DEF host
  <2>4. \A q \in Rank : raised[q] = {}
    BY <1>2, <2>2, <2>3 DEF Next, vars, host
  <2>5. UNCHANGED raised
    <3>1. raised' \in [Rank -> SUBSET Call] /\ raised \in [Rank -> SUBSET Call]
      BY NextTInv DEF GInv, HInv, TInv, TypeOK
    <3>2. QED
      BY <1>2, <2>4, <3>1
  <2>6. ASSUME UNCHANGED <<slot, result>> PROVE UNCHANGED Abstract!spec_vars
    BY <2>5, <2>6 DEF Abstract!spec_vars
  <2>7. ASSUME NEW r \in Rank, Host(r)
        PROVE  [Abstract!Next]_(Abstract!spec_vars)
    <3>1. CASE HostCopy(r)
      <4>1. UNCHANGED result
        BY <3>1 DEF HostCopy
      <4>2. QED
        BY <2>4, <2>5, <3>1, <4>1, CopyIsGive DEF Abstract!Next
    <3>2. CASE HostAdd(r)
      <4>1. UNCHANGED slot
        BY <3>2 DEF HostAdd
      <4>2. QED
        BY <2>4, <2>5, <3>2, <4>1, AddIsGet DEF Abstract!Next
    <3>3. CASE ~HostCopy(r) /\ ~HostAdd(r)
      <4>1. UNCHANGED <<slot, result>>
        BY <2>7, <3>3
        DEF Host, Construct, StreamCall, RefuseCall, Synchronize, BarrierSignal,
            BarrierPass, BarrierTimeout, Unmap, memory
      <4>2. QED
        BY <2>6, <4>1
    <3>4. QED
      BY <3>1, <3>2, <3>3
  <2>8. ASSUME NEW r \in Rank, NEW e \in Epoch, Gpu(r, e)
        PROVE  [Abstract!Next]_(Abstract!spec_vars)
    <3>1. CASE CopyIn(r, e)
      <4>1. UNCHANGED result
        BY <3>1 DEF CopyIn
      <4>2. QED
        BY <2>4, <2>5, <3>1, <4>1, CopyIsGive DEF Abstract!Next
    <3>2. CASE Add(r, e)
      <4>1. UNCHANGED slot
        BY <3>2 DEF Add
      <4>2. QED
        BY <2>4, <2>5, <3>2, <4>1, AddIsGet DEF Abstract!Next
    <3>3. CASE ~CopyIn(r, e) /\ ~Add(r, e)
      <4>1. UNCHANGED <<slot, result>>
        BY <2>8, <3>3
        DEF Gpu, WaitConsumed, WriteReady, WaitReady, WriteConsumed, memory
      <4>2. QED
        BY <2>6, <4>1
    <3>4. QED
      BY <3>1, <3>2, <3>3
  <2>9. ASSUME UNCHANGED vars PROVE UNCHANGED Abstract!spec_vars
    BY <2>6, <2>9 DEF vars, memory
  <2>10. QED
    BY <2>7, <2>8, <2>9 DEF Next
<1>3. QED
  BY <1>1, <1>2

\* The initial states are initial states of the abstract all-reduce.
LEMMA InitRefines == Init => Abstract!Init
  BY DEF Init, Abstract!Init, Call

\* The mapped-host all-reduce implements the two-rank all-reduce, whichever
\* path its calls take, when those of the host path come first.
THEOREM MappedHostImplements ==
  ASSUME HostFirst
  PROVE  Spec => Implements
<1>1. Init => GInv /\ Abstract!Init
  BY InitGInv, InitRefines
<1>2. GInv /\ [Next]_vars => GInv'
  BY NextGInv
<1>3. GInv /\ [Next]_vars => [Abstract!Next]_(Abstract!spec_vars)
  BY StepRefines
<1>4. QED
  BY <1>1, <1>2, <1>3, PTL DEF Spec, Implements, Abstract!Spec
=============================================================================
