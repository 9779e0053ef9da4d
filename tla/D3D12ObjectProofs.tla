------------------------- MODULE D3D12ObjectProofs -------------------------
(***************************************************************************)
(* The two D3D12AllReduce objects from the outside, for every number of    *)
(* calls.                                                                  *)
(*                                                                         *)
(* Their life: the constructor ends the same way on both ranks, and no GPU *)
(* works on a heap that has been closed.  The invariant Life says what     *)
(* each phase of an object implies about the votes, the heaps and the      *)
(* streams; neither property is inductive without it.                      *)
(*                                                                         *)
(* Their service: they implement the abstract two-rank all-reduce.  The    *)
(* copies are the contributions, the adds the results.  A copy is a        *)
(* contribution of PairAllReduce only if the call before it has its        *)
(* result, and an add a result only if both ranks have contributed: both   *)
(* follow from the invariant of the protocol and from Mirror, which ties   *)
(* heaps and outputs to the progress of the GPUs.                          *)
(***************************************************************************)
EXTENDS D3D12AllReduceProofs

Built == {"ready", "calling", "drained", "closed"}

\* The phases of a rank that has not voted.
Early == {"new", "refused", "named", "unloaded"}

\* What an object has contributed to the two agreements.
Votes ==
  \A r \in Rank :
    /\ phase[r] \in Early => vote[r][1] = "none"
    /\ phase[r] \in Early \cup {"created", "agreed"} => vote[r][2] = "none"
    /\ phase[r] \in {"agreed", "opened"} => \A q \in Rank : vote[q][1] = "ok"
    /\ phase[r] \in Built => \A q \in Rank : vote[q][1] = "ok" /\ vote[q][2] = "ok"
    /\ phase[r] = "raised" => \E q \in Rank, k \in {1, 2} : vote[q][k] = "error"

\* What an object holds.
Holdings ==
  \A r \in Rank :
    /\ phase[r] = "created" /\ vote[r][1] = "ok" => r \in own
    /\ phase[r] \in {"agreed", "opened", "ready", "calling", "drained"} => r \in own
    /\ phase[r] = "opened" /\ vote[r][2] = "ok" => r \in peer
    /\ phase[r] \in {"ready", "calling", "drained"} => r \in peer

\* Only an object that makes calls has work on a stream, and nobody has closed
\* his heaps before both are drained.
Streaming ==
  \A r \in Rank :
    /\ phase[r] \notin {"ready", "calling"} => done[r] = queued[r]
    /\ phase[r] = "closed" => phase[Peer(r)] \in {"drained", "closed"}

Life == Votes /\ Holdings /\ Streaming

\* Both objects are new and have nothing on a stream.
LEMMA InitLife == Init => Life
  BY DEF Init, Life, Votes, Holdings, Streaming, Early, Built, Rank, Peer

\* A GPU step is only possible on a rank that has work on its stream.
LEMMA GpuIsBusy ==
  ASSUME TypeOK, NEW r \in Rank, NEW e \in Epoch, Gpu(r, e)
  PROVE  done[r] # queued[r]
<1>1. \E k \in 1..6 : Turn(r, e, k)
  BY DEF Gpu, Copy, SignalReady, WaitReady, Add, SignalConsumed, WaitConsumed
<1>2. PICK k \in 1..6 : done[r][e] = k - 1 /\ queued[r][e] >= k
  BY <1>1 DEF Turn
<1>3. done[r][e] # queued[r][e]
  BY <1>2 DEF TypeOK
<1>4. QED
  BY <1>3

\* Every step of either rank preserves the invariant of the life cycle.
LEMMA NextLife == TypeOK /\ Life /\ [Next]_vars => Life'
<1> SUFFICES ASSUME TypeOK, Life, [Next]_vars PROVE Life'
  OBVIOUS
<1> USE DEF Life, Votes, Holdings, Streaming, Early, Built
<1>0. \A r \in Rank : Peer(r) \in Rank /\ Peer(r) # r
  BY DEF Rank, Peer
<1>1. ASSUME NEW r \in Rank, NEW ok \in BOOLEAN, CreateOwn(r, ok) PROVE Life'
  <2>1. /\ vote'[r][1] = (IF ok THEN "ok" ELSE "error")
        /\ \A q \in Rank, k \in {1, 2} : <<q, k>> # <<r, 1>> => vote'[q][k] = vote[q][k]
    BY <1>1 DEF CreateOwn, TypeOK
  <2>2. vote[r][1] = "none"
    BY <1>1 DEF CreateOwn
  <2>3. Votes'
    BY <1>1, <2>1, <2>2 DEF CreateOwn, TypeOK
  <2>4. Holdings'
    BY <1>1, <2>1 DEF CreateOwn, CreateBuffer, TypeOK
  <2>5. Streaming'
    BY <1>0, <1>1 DEF CreateOwn, TypeOK, calls, gpu
  <2>6. QED
    BY <2>3, <2>4, <2>5
<1>2. ASSUME NEW r \in Rank, AgreeOrRaise(r, 1, "created", "agreed") PROVE Life'
  <2>1. /\ phase[r] = "created" /\ UNCHANGED <<vote, queued, done>>
        /\ \A q \in Rank : q # r => phase'[q] = phase[q]
        /\ \/ phase'[r] = "agreed" /\ \A q \in Rank : vote[q][1] = "ok"
           \/ phase'[r] = "raised" /\ \E q \in Rank : vote[q][1] = "error"
    BY <1>2 DEF AgreeOrRaise, TypeOK, calls, gpu
  <2>2. Votes'
    BY <2>1
  <2>3. Holdings'
    BY <1>2 DEF AgreeOrRaise, CloseBuffers, TypeOK
  <2>4. Streaming'
    BY <1>0, <2>1
  <2>5. QED
    BY <2>2, <2>3, <2>4
<1>3. ASSUME NEW r \in Rank, NEW ok \in BOOLEAN, OpenPeer(r, ok) PROVE Life'
  <2>1. /\ vote'[r][2] = (IF ok THEN "ok" ELSE "error")
        /\ \A q \in Rank, k \in {1, 2} : <<q, k>> # <<r, 2>> => vote'[q][k] = vote[q][k]
    BY <1>3 DEF OpenPeer, TypeOK
  <2>2. vote[r][2] = "none"
    BY <1>3 DEF OpenPeer
  <2>3. Votes'
    BY <1>3, <2>1, <2>2 DEF OpenPeer, TypeOK
  <2>4. Holdings'
    BY <1>3, <2>1 DEF OpenPeer, OpenBuffer, TypeOK
  <2>5. Streaming'
    BY <1>0, <1>3 DEF OpenPeer, TypeOK, calls, gpu
  <2>6. QED
    BY <2>3, <2>4, <2>5
<1>4. ASSUME NEW r \in Rank, AgreeOrRaise(r, 2, "opened", "ready") PROVE Life'
  <2>1. /\ phase[r] = "opened" /\ UNCHANGED <<vote, queued, done>>
        /\ \A q \in Rank : q # r => phase'[q] = phase[q]
        /\ \/ phase'[r] = "ready" /\ \A q \in Rank : vote[q][2] = "ok"
           \/ phase'[r] = "raised" /\ \E q \in Rank : vote[q][2] = "error"
    BY <1>4 DEF AgreeOrRaise, TypeOK, calls, gpu
  <2>2. Votes'
    BY <2>1
  <2>3. Holdings'
    BY <1>4 DEF AgreeOrRaise, CloseBuffers, TypeOK
  <2>4. Streaming'
    BY <1>0, <2>1
  <2>5. QED
    BY <2>2, <2>3, <2>4
<1>5. ASSUME NEW r \in Rank, NEW s \in Streams, BeginCall(r, s) PROVE Life'
  BY <1>0, <1>5 DEF BeginCall, TypeOK, gpu
<1>6. ASSUME NEW r \in Rank, Enqueue(r) PROVE Life'
  BY <1>0, <1>6 DEF Enqueue, TypeOK, gpu
<1>7. ASSUME NEW r \in Rank, FailCall(r) PROVE Life'
  BY <1>0, <1>7 DEF FailCall, TypeOK, gpu
<1>8. ASSUME NEW r \in Rank, Synchronize(r) PROVE Life'
  BY <1>0, <1>8 DEF Synchronize, TypeOK, calls, gpu
<1>9. ASSUME NEW r \in Rank, BarrierAndClose(r) PROVE Life'
  BY <1>0, <1>9 DEF BarrierAndClose, CloseBuffers, TypeOK, calls, gpu, Rank, Peer
<1>10. ASSUME NEW r \in Rank, NEW e \in Epoch, Gpu(r, e) PROVE Life'
  <2>1. done[r] # queued[r]
    BY <1>10, GpuIsBusy
  <2>2. UNCHANGED <<host, calls>> /\ \A q \in Rank : q # r => done'[q] = done[q]
    BY <1>10 DEF Gpu, Copy, SignalReady, WaitReady, Add, SignalConsumed, WaitConsumed,
                 Advance, TypeOK
  <2>3. QED
    BY <1>0, <2>1, <2>2 DEF host, calls
<1>11. ASSUME NEW r \in Rank, Refuse(r) \/ TakeName(r) \/ LoadFails(r) PROVE Life'
  <2>1. /\ phase[r] \in Early /\ phase'[r] \in Early
        /\ \A q \in Rank : q # r => phase'[q] = phase[q]
        /\ UNCHANGED <<vote, own, peer, queued, done>>
    BY <1>11 DEF Refuse, TakeName, LoadFails, TypeOK, calls, gpu
  <2>2. QED
    BY <1>0, <2>1
<1>12. CASE UNCHANGED vars
  BY <1>12 DEF vars, host, calls, gpu
<1>13. QED
  BY <1>1, <1>2, <1>3, <1>4, <1>5, <1>6, <1>7, <1>8, <1>9, <1>10, <1>11, <1>12
  DEF Next, Host

\* An object that got through both agreements has seen four good votes; a rank that
\* raised in an agreement has seen a bad one, and one that raised before has cast none.
LEMMA LifeConstructorAgrees == Life => ConstructorAgrees
  BY DEF Life, Votes, Early, Built, ConstructorAgrees, Raised, GaveUp, Rank, Peer

\* A rank with work on its stream makes calls, so its peer has opened its heap
\* and has not closed its own.
LEMMA LifeNoUseAfterClose == TypeOK /\ Life => NoUseAfterClose
<1> SUFFICES ASSUME TypeOK, Life, NEW r \in Rank, done[r] # queued[r]
             PROVE  Rank \subseteq own /\ r \in peer
  BY DEF NoUseAfterClose
<1>1. phase[r] \in {"ready", "calling"}
  BY DEF Life, Streaming
<1>2. Peer(r) \in Rank /\ Peer(Peer(r)) = r /\ Rank = {r, Peer(r)}
  BY DEF Rank, Peer
<1>3. phase[Peer(r)] \in {"opened", "ready", "calling", "drained"}
  <2>1. vote[Peer(r)][2] = "ok" /\ phase[Peer(r)] \notin {"raised", "agreed", "created"} \cup Early
    BY <1>1, <1>2 DEF Life, Votes, Built, Early
  <2>2. phase[Peer(r)] # "closed"
    BY <1>1, <1>2 DEF Life, Streaming
  <2>3. QED
    BY <1>2, <2>1, <2>2 DEF TypeOK, Early
<1>4. QED
  BY <1>1, <1>2, <1>3 DEF Life, Holdings

\* The types, the shape of the calls and the life cycle are invariants.
LEMMA LifeInvariant == Spec => [](TypeOK /\ Life)
<1>1. IInv => TypeOK
  BY DEF IInv, Shape
<1>2. QED
  BY InitIInv, NextIInv, InitLife, NextLife, <1>1, PTL DEF Spec

\* With checks, library loads, creates and opens that fail on one rank or on both, no
\* constructor returns an object on one rank and raises on the other, whether or not
\* the one that raises could vote.
THEOREM ConstructorsAgree == Spec => []ConstructorAgrees
  BY LifeInvariant, LifeConstructorAgrees, PTL

\* For every number of calls, with calls that raise half-way: no GPU has work
\* left on a heap that its rank or the peer has closed.
THEOREM HeapsOutliveTheWork == Spec => []NoUseAfterClose
  BY LifeInvariant, LifeNoUseAfterClose, PTL
-----------------------------------------------------------------------------
\* Outputs exist from the add on, and a heap is empty until the first copy.
Mirror ==
  ~Broken =>
    \A r \in Rank :
      /\ \A e \in Epoch : output[r][e] # 0 <=> done[r][e] >= 4
      /\ (\A e \in Epoch : done[r][e] = 0) => heap[r] = 0

\* Nothing is copied and nothing is added at the start.
LEMMA InitMirror == Init => Mirror
  BY DEF Init, Mirror, Rank, Epoch

\* In an unbroken history every call is clean.
LEMMA UnbrokenIsClean ==
  ASSUME ~Broken
  PROVE  mixed = {} /\ \A e \in Epoch : CleanUpTo(e)
  BY DEF Broken, CleanUpTo

\* A step of the host moves no GPU, and a broken pair stays broken.
LEMMA HostEffect ==
  ASSUME TypeOK, NEW r \in Rank, Host(r)
  PROVE  UNCHANGED gpu /\ (Broken => Broken')
<1>1. UNCHANGED gpu
  BY DEF Host, Refuse, TakeName, LoadFails, CreateOwn, AgreeOrRaise, OpenPeer, BeginCall,
         Enqueue, FailCall, Synchronize, BarrierAndClose
<1>2. mixed \subseteq mixed'
  BY DEF Host, Refuse, TakeName, LoadFails, CreateOwn, AgreeOrRaise, OpenPeer, BeginCall,
         Enqueue, FailCall, Synchronize, BarrierAndClose, calls
<1>3. \A q \in Rank : failed[q] \subseteq failed'[q]
  <2>1. CASE FailCall(r)
    BY <2>1 DEF FailCall, TypeOK
  <2>2. CASE UNCHANGED failed
    BY <2>2
  <2>3. QED
    BY <2>1, <2>2 DEF Host, Refuse, TakeName, LoadFails, CreateOwn, AgreeOrRaise,
                      OpenPeer, BeginCall, Enqueue, Synchronize, BarrierAndClose, calls
<1>4. QED
  BY <1>1, <1>2, <1>3 DEF Broken

\* Before a copy the heap holds the payload of the call before, which is over.
LEMMA CopyFollows ==
  ASSUME IInv, Mirror, ~Broken, NEW r \in Rank, NEW g \in Epoch, Copy(r, g)
  PROVE  /\ Moves(r, g, 1)
         /\ heap[r] = g - 1
         /\ g > 1 => output[r][g - 1] # 0
<1>1. mixed = {} /\ \A e \in Epoch : CleanUpTo(e)
  BY UnbrokenIsClean
<1>2. Moves(r, g, 1)
  BY <1>1, TurnFacts DEF Copy, IInv
<1>3. CASE g = 1
  <2>1. \A e \in Epoch : done[r][e] = 0
    BY <1>2, <1>3, D3D12Assumption DEF Moves, Epoch
  <2>2. QED
    BY <1>2, <1>3, <2>1 DEF Mirror
<1>4. CASE g > 1
  <2>1. g - 1 \in Epoch /\ done[r][g - 1] = 6
    BY <1>1, <1>2, <1>4, D3D12Assumption DEF Moves, Epoch
  <2>2. \A e \in Epoch : e > g - 1 => done[r][e] = 0
    BY <1>2, D3D12Assumption DEF Moves, Epoch
  <2>3. heap[r] = g - 1
    BY <1>1, <2>1, <2>2 DEF IInv, Protocol, HeapMeaning
  <2>4. QED
    BY <1>2, <2>1, <2>3 DEF Mirror
<1>5. QED
  BY <1>3, <1>4, D3D12Assumption DEF Epoch

\* At an add both heaps hold the payload of that call.
LEMMA AddMeets ==
  ASSUME IInv, ~Broken, NEW r \in Rank, NEW g \in Epoch, Add(r, g)
  PROVE  /\ Moves(r, g, 4)
         /\ heap[r] = g /\ heap[Peer(r)] = g
<1>1. mixed = {} /\ \A e \in Epoch : CleanUpTo(e)
  BY UnbrokenIsClean
<1>2. Moves(r, g, 4)
  BY <1>1, TurnFacts DEF Add, IInv
<1>3. heap[r] = g
  BY <1>1, <1>2 DEF IInv, Protocol, HeapMeaning, Moves
<1>4. done[Peer(r)][g] >= 2 /\ done[Peer(r)][g] # 6
  BY <1>1, <1>2 DEF IInv, Protocol, Handshake, Moves
<1>5. ASSUME NEW h \in Epoch, h > g PROVE done[Peer(r)][h] = 0
  BY <1>1, <1>2, <1>4, <1>5, OlderCallsAreDone DEF IInv, Shape, Moves
<1>6. heap[Peer(r)] = g
  BY <1>1, <1>2, <1>4, <1>5 DEF IInv, Protocol, HeapMeaning, Moves
<1>7. QED
  BY <1>2, <1>3, <1>6

\* What one add writes.
LEMMA AddEffect ==
  ASSUME TypeOK, NEW r \in Rank, NEW g \in Epoch, Add(r, g)
  PROVE  /\ output' \in [Rank -> [Epoch -> 0..Calls]]
         /\ output'[r][g] = heap[Peer(r)]
         /\ \A q \in Rank, e \in Epoch : q # r \/ e # g => output'[q][e] = output[q][e]
<1>1. output \in [Rank -> [Epoch -> 0..Calls]] /\ heap[Peer(r)] \in 0..Calls
  BY DEF TypeOK, Rank, Peer
<1>2. QED
  BY <1>1, TableUpdate DEF Add

\* The operations that neither copy nor add.
Quiet(r, e) == SignalReady(r, e) \/ WaitReady(r, e) \/ SignalConsumed(r, e) \/ WaitConsumed(r, e)

\* They leave the heaps and the outputs alone and move the GPU past an
\* operation that is neither the first nor the fourth.
LEMMA QuietEffect ==
  ASSUME IInv, ~Broken, NEW r \in Rank, NEW g \in Epoch, Quiet(r, g)
  PROVE  /\ UNCHANGED <<heap, output>>
         /\ \E k \in {2, 3, 5, 6} : Moves(r, g, k)
<1>1. mixed = {}
  BY UnbrokenIsClean
<1>2. CASE SignalReady(r, g)
  BY <1>1, <1>2, TurnFacts DEF SignalReady, SetFence, IInv
<1>3. CASE WaitReady(r, g)
  BY <1>1, <1>3, TurnFacts DEF WaitReady, IInv
<1>4. CASE SignalConsumed(r, g)
  BY <1>1, <1>4, TurnFacts DEF SignalConsumed, SetFence, IInv
<1>5. CASE WaitConsumed(r, g)
  BY <1>1, <1>5, TurnFacts DEF WaitConsumed, IInv
<1>6. QED
  BY <1>2, <1>3, <1>4, <1>5 DEF Quiet

\* No operation of a GPU breaks or mends the pair.
LEMMA GpuKeepsBroken ==
  ASSUME TypeOK, NEW r \in Rank, NEW g \in Epoch, Gpu(r, g)
  PROVE  Broken' = Broken
  BY GpuEffect DEF Broken, calls

\* Every step keeps Mirror.
LEMMA NextMirror == IInv /\ Mirror /\ [Next]_vars => Mirror'
<1> SUFFICES ASSUME IInv, Mirror, [Next]_vars, ~Broken' PROVE Mirror'
  BY DEF Mirror
<1>0. TypeOK
  BY DEF IInv, Shape
<1>1. ASSUME NEW r \in Rank, Host(r) PROVE Mirror'
  <2>1. UNCHANGED gpu /\ ~Broken
    BY <1>0, <1>1, HostEffect
  <2>2. QED
    BY <2>1 DEF Mirror, gpu
<1>2. ASSUME NEW r \in Rank, NEW g \in Epoch, Gpu(r, g) PROVE Mirror'
  <2>1. ~Broken
    BY <1>0, <1>2, GpuKeepsBroken
  <2>2. CASE Copy(r, g)
    <3>1. Moves(r, g, 1)
      BY <2>1, <2>2, CopyFollows
    <3>2. UNCHANGED output /\ \A q \in Rank : q # r => heap'[q] = heap[q]
      BY <1>0, <2>2 DEF Copy, TypeOK
    <3>3. QED
      BY <2>1, <3>1, <3>2 DEF Mirror, Moves
  <2>3. CASE Add(r, g)
    <3>1. Moves(r, g, 4) /\ heap[Peer(r)] = g
      BY <2>1, <2>3, AddMeets
    <3>2. /\ output'[r][g] = g
          /\ \A q \in Rank, e \in Epoch : q # r \/ e # g => output'[q][e] = output[q][e]
      BY <1>0, <2>3, <3>1, AddEffect
    <3>3. UNCHANGED heap
      BY <2>3 DEF Add
    <3>4. QED
      BY <2>1, <3>1, <3>2, <3>3 DEF Mirror, Moves
  <2>4. CASE Quiet(r, g)
    <3>1. PICK k \in {2, 3, 5, 6} : Moves(r, g, k)
      BY <2>1, <2>4, QuietEffect
    <3>2. UNCHANGED <<heap, output>>
      BY <2>1, <2>4, QuietEffect
    <3>3. QED
      BY <2>1, <3>1, <3>2 DEF Mirror, Moves
  <2>5. QED
    BY <1>2, <2>2, <2>3, <2>4 DEF Gpu, Quiet
<1>3. CASE UNCHANGED vars
  BY <1>3 DEF Mirror, Broken, vars, calls, gpu
<1>4. QED
  BY <1>1, <1>2, <1>3 DEF Next

\* The initial states are initial states of the abstract all-reduce.
LEMMA InitImplements == Init => Abstract!Init
  BY DEF Init, Abstract!Init, Broken, Rank, Epoch

\* Every step is a contribution, a result, a break or a stutter.
LEMMA StepImplements ==
  IInv /\ Mirror /\ [Next]_vars => [Abstract!Next]_(Abstract!spec_vars)
<1> SUFFICES ASSUME IInv, Mirror, [Next]_vars
             PROVE  Abstract!Next \/ UNCHANGED Abstract!spec_vars
  OBVIOUS
<1>0. TypeOK
  BY DEF IInv, Shape
<1>1. CASE Broken'
  BY <1>1 DEF Abstract!Next, Abstract!Break, Broken
<1>2. CASE ~Broken'
  <2>1. ASSUME NEW r \in Rank, Host(r) PROVE UNCHANGED Abstract!spec_vars
    <3>1. UNCHANGED gpu /\ ~Broken
      BY <1>0, <1>2, <2>1, HostEffect
    <3>2. QED
      BY <1>2, <3>1 DEF Abstract!spec_vars, gpu, Broken
  <2>2. ASSUME NEW r \in Rank, NEW g \in Epoch, Gpu(r, g)
        PROVE  Abstract!Next \/ UNCHANGED Abstract!spec_vars
    <3>1. ~Broken /\ Broken' = Broken
      BY <1>0, <1>2, <2>2, GpuKeepsBroken
    <3>2. CASE Copy(r, g)
      <4>1. heap[r] = g - 1 /\ (g > 1 => output[r][g - 1] # 0)
        BY <3>1, <3>2, CopyFollows
      <4>2. heap' = [heap EXCEPT ![r] = @ + 1] /\ UNCHANGED output
        BY <1>0, <3>2, <4>1, D3D12Assumption DEF Copy, Epoch
      <4>3. Abstract!Give(r)
        BY <3>1, <4>1, <4>2, D3D12Assumption DEF Abstract!Give, Epoch
      <4>4. QED
        BY <4>3 DEF Abstract!Next
    <3>3. CASE Add(r, g)
      <4>1. Moves(r, g, 4) /\ heap[r] = g /\ heap[Peer(r)] = g
        BY <3>1, <3>3, AddMeets
      <4>2. output[r][g] = 0
        BY <3>1, <4>1 DEF Mirror, Moves
      <4>3. output' = [output EXCEPT ![r][heap[r]] = heap[r]] /\ UNCHANGED heap
        BY <3>3, <4>1 DEF Add
      <4>4. \A p \in Rank : heap[p] >= heap[r]
        BY <4>1 DEF Moves
      <4>5. Abstract!Get(r)
        BY <3>1, <4>1, <4>2, <4>3, <4>4, D3D12Assumption DEF Abstract!Get, Epoch
      <4>6. QED
        BY <4>5 DEF Abstract!Next
    <3>4. CASE Quiet(r, g)
      BY <3>1, <3>4, QuietEffect DEF Abstract!spec_vars
    <3>5. QED
      BY <2>2, <3>2, <3>3, <3>4 DEF Gpu, Quiet
  <2>3. CASE UNCHANGED vars
    BY <2>3 DEF Abstract!spec_vars, vars, calls, gpu, Broken
  <2>4. QED
    BY <2>1, <2>2, <2>3 DEF Next
<1>3. QED
  BY <1>1, <1>2

\* The D3D12 all-reduce implements PairAllReduce, with any number of calls, on
\* any streams, until a call raises half-way or is made beside an unfinished one.
THEOREM D3D12Implements == Spec => Implements
  BY InitIInv, NextIInv, InitMirror, NextMirror, InitImplements, StepImplements, PTL
  DEF Spec, Implements, Abstract!Spec
=============================================================================
