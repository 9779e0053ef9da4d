----------------------- MODULE SharedMemoryAllReduce -----------------------
(***************************************************************************)
(* SharedMemoryAllReduce (shared_memory_all_reduce.py): the mapped-host    *)
(* all-reduce of two ranks.  One Windows mapping holds a payload slot per  *)
(* rank and, per rank, a 32-bit "ready" and a 32-bit "consumed" word.  Two *)
(* paths use the same slots:                                               *)
(*                                                                         *)
(*   stream  (f32, f16, bf16) one native call enqueues six operations,     *)
(*           ordered by the words:                                         *)
(*             1 wait until the peer consumed the slot's previous epoch    *)
(*             2 copy the tensor into the own slot                         *)
(*             3 write the own ready word                                  *)
(*             4 wait for the peer's ready word                            *)
(*             5 add the peer's slot into the output                       *)
(*             6 write the peer's consumed word                            *)
(*   host    (any other dtype, or no wait-value support) the CPU copies,   *)
(*           meets the peer at the Win32 barrier, adds, copies back and    *)
(*           meets the peer again.                                         *)
(*                                                                         *)
(* Both ranks run the same workload, a sequence of such calls, and a       *)
(* rank's caller has the same stream current at each.  A payload           *)
(* is known by the number of the call that wrote it, an output by the peer *)
(* payload that went into it.  The blocking hipMemcpys of the host path    *)
(* are assumed not to fail.                                                *)
(***************************************************************************)
EXTENDS Naturals, Sequences

CONSTANTS Workloads,   \* the sequences of "stream" and "host" calls tried
          MaxLen,      \* bound: the length of the longest of them
          EpochLimit,  \* the epoch at which the stream path refuses (0xFFFFFF00)
          WordSize,    \* the number of values of a control word (2^32)
          MayTimeout,  \* may a barrier wait exceed its timeout?
          MayFail      \* may the native enqueue fail half-way?

ASSUME SharedMemoryAssumption ==
  /\ MaxLen \in Nat
  /\ \A w \in Workloads : w \in Seq({"stream", "host"}) /\ Len(w) <= MaxLen
  /\ EpochLimit \in Nat /\ WordSize \in Nat /\ EpochLimit < WordSize
  /\ MayTimeout \in BOOLEAN /\ MayFail \in BOOLEAN

Rank == {0, 1}
Peer(r) == 1 - r
Epoch == 1..MaxLen
Call == 1..MaxLen

VARIABLES
  workload,  \* the calls both ranks make
  pc,        \* where each rank's host thread is
  calls,     \* calls each rank has started
  raised,    \* calls that ended with an exception, per rank
  epoch,     \* self._epoch
  queued,    \* per epoch, how many of its operations are on the stream
  done,      \* per epoch, how many of them the GPU has executed
  callOf,    \* per epoch, the call it belongs to
  slot,      \* per rank, the call whose payload the slot holds
  ready,     \* the ready words
  consumed,  \* the consumed words
  result,    \* per rank and call, the peer payload that was added; 0 = none
  at, event, entered, passed, expired  \* the state of the Win32 barrier

B == INSTANCE PairBarrier WITH MaxCalls <- 2 * MaxLen + 2

barrier == <<at, event, entered, passed, expired>>
host == <<workload, pc, calls, raised>>
stream == <<epoch, queued, callOf>>
memory == <<slot, ready, consumed, result>>
vars == <<host, stream, done, memory, barrier>>

Init ==
  /\ workload \in Workloads
  /\ pc = [r \in Rank |-> "new"]
  /\ calls = [r \in Rank |-> 0]
  /\ raised = [r \in Rank |-> {}]
  /\ epoch = [r \in Rank |-> 0]
  /\ queued = [r \in Rank |-> [e \in Epoch |-> 0]]
  /\ done = [r \in Rank |-> [e \in Epoch |-> 0]]
  /\ callOf = [r \in Rank |-> [e \in Epoch |-> 0]]
  /\ slot = [r \in Rank |-> 0]
  /\ ready = [r \in Rank |-> 0]
  /\ consumed = [r \in Rank |-> 0]
  /\ result = [r \in Rank |-> [c \in Call |-> 0]]
  /\ B!Init
-----------------------------------------------------------------------------
\* The next call of rank r takes the path p.
Calling(r, p) ==
  /\ pc[r] = "idle"
  /\ calls[r] < Len(workload)
  /\ workload[calls[r] + 1] = p

\* The stream has nothing left to execute.
Idle(r) == done[r] = queued[r]

\* __init__: the mapping, which rank 1 opens after rank 0's broadcast, and the
\* events; the constructor ends with a barrier.
Construct(r) ==
  /\ pc[r] = "new"
  /\ r = 1 => pc[0] # "new"
  /\ B!Create(r)
  /\ pc' = [pc EXCEPT ![r] = "constructing"]
  /\ UNCHANGED <<workload, calls, raised, stream, done, memory>>

\* Defect: no check of the epoch.
UncheckedStreamCall(r, n) ==
  /\ Calling(r, "stream")
  /\ n = 6 \/ MayFail
  /\ calls' = [calls EXCEPT ![r] = @ + 1]
  /\ epoch' = [epoch EXCEPT ![r] = @ + 1]
  /\ queued' = [queued EXCEPT ![r][epoch[r] + 1] = n]
  /\ callOf' = [callOf EXCEPT ![r][epoch[r] + 1] = calls[r] + 1]
  /\ raised' = [raised EXCEPT ![r] = IF n = 6 THEN @ ELSE @ \cup {calls[r] + 1}]
  /\ UNCHANGED <<workload, pc, done, memory, barrier>>

(* _stream_all_reduce: one native call enqueues the six operations, or the  *)
(* first n of them when one of its HIP calls fails, which raises.  (The GPU *)
(* may execute an operation any time after it is enqueued.)                 *)
StreamCall(r, n) ==
  /\ Calling(r, "stream")
  /\ epoch[r] < EpochLimit
  /\ n = 6 \/ MayFail
  /\ calls' = [calls EXCEPT ![r] = @ + 1]
  /\ epoch' = [epoch EXCEPT ![r] = @ + 1]
  /\ queued' = [queued EXCEPT ![r][epoch[r] + 1] = n]
  /\ callOf' = [callOf EXCEPT ![r][epoch[r] + 1] = calls[r] + 1]
  /\ raised' = [raised EXCEPT ![r] = IF n = 6 THEN @ ELSE @ \cup {calls[r] + 1}]
  /\ UNCHANGED <<workload, pc, done, memory, barrier>>

\* _stream_all_reduce near the wrap of the 32-bit epoch: "recreate communicator".
RefuseCall(r) ==
  /\ Calling(r, "stream")
  /\ epoch[r] >= EpochLimit
  /\ calls' = [calls EXCEPT ![r] = @ + 1]
  /\ raised' = [raised EXCEPT ![r] = @ \cup {calls[r] + 1}]
  /\ UNCHANGED <<workload, pc, stream, done, memory, barrier>>

(* all_reduce, host path: the blocking hipMemcpy into the own slot.  It is  *)
(* ordered after what the rank itself has on the default stream, and after  *)
(* nothing of the peer's.                                                   *)
HostCopy(r) ==
  /\ Calling(r, "host")
  /\ Idle(r)
  /\ calls' = [calls EXCEPT ![r] = @ + 1]
  /\ slot' = [slot EXCEPT ![r] = calls[r] + 1]
  /\ pc' = [pc EXCEPT ![r] = "copied"]
  /\ UNCHANGED <<workload, raised, stream, done, ready, consumed, result, barrier>>

\* all_reduce, host path: torch.add over both slots, and the copy back.
HostAdd(r) ==
  /\ pc[r] = "adding"
  /\ result' = [result EXCEPT ![r][calls[r]] = slot[Peer(r)]]
  /\ pc' = [pc EXCEPT ![r] = "added"]
  /\ UNCHANGED <<workload, calls, raised, stream, done, slot, ready, consumed,
                 barrier>>

\* destroy, first line: torch.cuda.synchronize.
Synchronize(r) ==
  /\ pc[r] = "idle"
  /\ calls[r] = Len(workload)
  /\ Idle(r)
  /\ pc' = [pc EXCEPT ![r] = "destroying"]
  /\ UNCHANGED <<workload, calls, raised, stream, done, memory, barrier>>

\* The four places where a rank calls wait(), and where it goes on from there.
AfterWait == [constructing |-> "idle", copied |-> "adding", added |-> "idle",
              destroying |-> "unmapping"]

BarrierSignal(r) ==
  /\ pc[r] \in DOMAIN AfterWait
  /\ B!Signal(r)
  /\ UNCHANGED <<host, stream, done, memory>>

\* Defect: the second barrier of the host path is left out.
SkipSecondWait(r) ==
  /\ pc[r] \in DOMAIN AfterWait
  /\ IF pc[r] = "added" THEN UNCHANGED barrier ELSE B!Consume(r)
  /\ pc' = [pc EXCEPT ![r] = AfterWait[@]]
  /\ UNCHANGED <<workload, calls, raised, stream, done, memory>>

BarrierPass(r) ==
  /\ pc[r] \in DOMAIN AfterWait
  /\ B!Consume(r)
  /\ pc' = [pc EXCEPT ![r] = AfterWait[@]]
  /\ UNCHANGED <<workload, calls, raised, stream, done, memory>>

\* A wait that times out raises: the call fails, the constructor fails, and
\* destroy goes on with its finally clause.
BarrierTimeout(r) ==
  /\ pc[r] \in DOMAIN AfterWait
  /\ B!Expire(r)
  /\ pc' = [pc EXCEPT ![r] = IF @ = "constructing" THEN "failed"
                             ELSE IF @ = "destroying" THEN "unmapping"
                             ELSE "idle"]
  /\ raised' = [raised EXCEPT ![r] =
                  IF pc[r] \in {"copied", "added"} THEN @ \cup {calls[r]} ELSE @]
  /\ UNCHANGED <<workload, calls, stream, done, memory>>

\* destroy, the finally clause: events, registration and mapping are dropped.
Unmap(r) ==
  /\ pc[r] = "unmapping"
  /\ B!Close(r)
  /\ pc' = [pc EXCEPT ![r] = "closed"]
  /\ UNCHANGED <<workload, calls, raised, stream, done, memory>>
-----------------------------------------------------------------------------
Word(e) == e % WordSize

\* The GPU is about to execute the k-th operation of epoch e.
Turn(r, e, k) ==
  /\ done[r][e] = k - 1
  /\ queued[r][e] >= k
  /\ \A f \in 1..(e - 1) : done[r][f] = queued[r][f]

Advance(r, e) == done' = [done EXCEPT ![r][e] = @ + 1]

\* Defect: the slot is reused without waiting for the peer.
SkipWaitConsumed(r, e) ==
  /\ Turn(r, e, 1)
  /\ Advance(r, e)
  /\ UNCHANGED <<host, stream, memory, barrier>>

\* enqueue_all_reduce waits for the previous epoch, if there is one.
WaitConsumed(r, e) ==
  /\ Turn(r, e, 1)
  /\ e > 1 => consumed[r] >= Word(e - 1)
  /\ Advance(r, e)
  /\ UNCHANGED <<host, stream, memory, barrier>>

CopyIn(r, e) ==
  /\ Turn(r, e, 2)
  /\ slot' = [slot EXCEPT ![r] = callOf[r][e]]
  /\ Advance(r, e)
  /\ UNCHANGED <<host, stream, ready, consumed, result, barrier>>

WriteReady(r, e) ==
  /\ Turn(r, e, 3)
  /\ ready' = [ready EXCEPT ![r] = Word(e)]
  /\ Advance(r, e)
  /\ UNCHANGED <<host, stream, slot, consumed, result, barrier>>

\* Defect: the wait is for a value above the epoch.
WaitReadyAbove(r, e) ==
  /\ Turn(r, e, 4)
  /\ ready[Peer(r)] > Word(e)
  /\ Advance(r, e)
  /\ UNCHANGED <<host, stream, memory, barrier>>

WaitReady(r, e) ==
  /\ Turn(r, e, 4)
  /\ ready[Peer(r)] >= Word(e)
  /\ Advance(r, e)
  /\ UNCHANGED <<host, stream, memory, barrier>>

Add(r, e) ==
  /\ Turn(r, e, 5)
  /\ result' = [result EXCEPT ![r][callOf[r][e]] = slot[Peer(r)]]
  /\ Advance(r, e)
  /\ UNCHANGED <<host, stream, slot, ready, consumed, barrier>>

WriteConsumed(r, e) ==
  /\ Turn(r, e, 6)
  /\ consumed' = [consumed EXCEPT ![Peer(r)] = Word(e)]
  /\ Advance(r, e)
  /\ UNCHANGED <<host, stream, slot, ready, result, barrier>>
-----------------------------------------------------------------------------
Host(r) ==
  \/ Construct(r)
  \/ \E n \in 0..6 : StreamCall(r, n)
  \/ RefuseCall(r)
  \/ HostCopy(r)
  \/ HostAdd(r)
  \/ Synchronize(r)
  \/ BarrierSignal(r)
  \/ BarrierPass(r)
  \/ BarrierTimeout(r)
  \/ Unmap(r)

Gpu(r, e) ==
  \/ WaitConsumed(r, e) \/ CopyIn(r, e) \/ WriteReady(r, e)
  \/ WaitReady(r, e) \/ Add(r, e) \/ WriteConsumed(r, e)

Next == \E r \in Rank : Host(r) \/ \E e \in Epoch : Gpu(r, e)

Spec == Init /\ [][Next]_vars

\* Both ranks go on with the workload, a GPU executes an operation that need
\* not wait, and a rank in the kernel wakes when its event is signalled.
Fairness ==
  \A r \in Rank :
    /\ WF_vars(Host(r))
    /\ \A e \in Epoch : WF_vars(Gpu(r, e))

FairSpec == Spec /\ Fairness
-----------------------------------------------------------------------------
\* The values every variable takes.
TypeOK ==
  /\ workload \in Workloads
  /\ pc \in [Rank -> {"new", "idle", "adding", "unmapping", "closed", "failed"}
                       \cup DOMAIN AfterWait]
  /\ calls \in [Rank -> 0..MaxLen]
  /\ raised \in [Rank -> SUBSET Call]
  /\ epoch \in [Rank -> 0..EpochLimit]
  /\ queued \in [Rank -> [Epoch -> 0..6]]
  /\ done \in [Rank -> [Epoch -> 0..6]]
  /\ callOf \in [Rank -> [Epoch -> 0..MaxLen]]
  /\ slot \in [Rank -> 0..MaxLen]
  /\ ready \in [Rank -> 0..(WordSize - 1)]
  /\ consumed \in [Rank -> 0..(WordSize - 1)]
  /\ result \in [Rank -> [Call -> 0..MaxLen]]
  /\ B!TypeOK

\* No call up to c has raised on either rank.
CleanUpTo(c) == \A r \in Rank : \A d \in raised[r] : d > c

\* all_reduce returns the sum of the two tensors of the same call, whichever
\* path carries it: the peer payload that is added in call c is the peer's
\* payload of call c, unless a call up to c raised.
SumOfSameCall ==
  \A r \in Rank, c \in Call : CleanUpTo(c) => result[r][c] \in {0, c}

\* The slot of a rank is never written while the peer may read it: neither
\* side's copy is possible while the other side's add is.
SlotExclusive ==
  \A r \in Rank :
    LET writes == \/ \E e \in Epoch : Turn(r, e, 2)
                  \/ Calling(r, "host") /\ Idle(r)
        reads == \/ pc[Peer(r)] = "adding"
                 \/ \E e \in Epoch : Turn(Peer(r), e, 5)
    IN  CleanUpTo(MaxLen) => ~(writes /\ reads)

\* Every call of the workload ends on both ranks: it has its result, or it
\* was refused on both.
CallsComplete ==
  <>(\A r \in Rank : \A c \in 1..Len(workload) :
       result[r][c] = c \/ (c \in raised[0] /\ c \in raised[1]))

\* The mapped-host all-reduce implements the two-rank all-reduce: a rank gives
\* its payload by writing its slot.
Abstract == INSTANCE PairAllReduce WITH
  Calls <- MaxLen, given <- slot, result <- result,
  broken <- \E r \in Rank : raised[r] # {}
Implements == Abstract!Spec
=============================================================================
