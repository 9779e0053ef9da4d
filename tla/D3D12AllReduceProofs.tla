------------------------ MODULE D3D12AllReduceProofs ------------------------
(***************************************************************************)
(* The D3D12 all-reduce is correct for every number of calls.  The         *)
(* argument: on an unmixed rank the GPU finishes the calls in order        *)
(* (InOrder), a fence value that a wait may see was written by an          *)
(* operation that has been executed (FenceMeaning), so passing a wait      *)
(* tells how far the peer has got (Handshake), and a heap holds the        *)
(* payload of the last call copied into it (HeapMeaning).                  *)
(***************************************************************************)
EXTENDS D3D12AllReduce, TLAPS

\* How far the host has got with each call: nothing of a call that has not
\* begun is enqueued, all of a call that is over and did not raise.
CallShape ==
  \A r \in Rank :
    /\ failed[r] \subseteq 1..epoch[r]
    /\ phase[r] = "calling" =>
         epoch[r] >= 1 /\ epoch[r] \notin failed[r] /\ queued[r][epoch[r]] < 6
    /\ \A e \in Epoch :
         /\ done[r][e] <= queued[r][e]
         /\ e > epoch[r] => queued[r][e] = 0
         /\ e < epoch[r] \/ (e = epoch[r] /\ phase[r] # "calling")
              => queued[r][e] = 6 \/ e \in failed[r]

\* On an unmixed rank, calls on different streams do not overlap, and a call
\* the GPU has started on has no unfinished call before it.
InOrder ==
  mixed = {} =>
    \A r \in Rank : \A e, f \in Epoch :
      f < e /\ e <= epoch[r] /\ (done[r][e] > 0 \/ stream[r][f] # stream[r][e])
        => done[r][f] = queued[r][f]

\* What a fence value says about the operations that have been executed.
FenceMeaning ==
  \A r \in Rank, e \in Epoch :
    mixed = {} /\ CleanUpTo(e) =>
      /\ fence[r] >= 2 * e - 1 => done[r][e] >= 2
      /\ fence[r] >= 2 * e => done[Peer(r)][e] >= 5

\* What a rank that has passed a wait knows of its peer.
Handshake ==
  \A r \in Rank, e \in Epoch :
    mixed = {} /\ CleanUpTo(e) =>
      /\ done[r][e] >= 3 => done[Peer(r)][e] >= 2
      /\ done[r][e] >= 6 => done[Peer(r)][e] >= 5

\* A heap holds the payload of the last call whose copy was executed.
HeapMeaning ==
  \A r \in Rank, e \in Epoch :
    mixed = {} /\ CleanUpTo(e) /\ done[r][e] >= 1
      /\ (\A g \in Epoch : g > e => done[r][g] = 0)
    => heap[r] = e

-----------------------------------------------------------------------------
\* Updating one entry of a table indexed by rank and call: the table keeps its
\* type and every other entry.
LEMMA TableUpdate ==
  ASSUME NEW V, NEW f \in [Rank -> [Epoch -> V]],
         NEW r \in Rank, NEW e \in Epoch, NEW v \in V,
         NEW g, g = [f EXCEPT ![r][e] = v]
  PROVE  /\ g \in [Rank -> [Epoch -> V]]
         /\ g[r][e] = v
         /\ \A q \in Rank, d \in Epoch : q # r \/ d # e => g[q][d] = f[q][d]
  OBVIOUS

\* The GPU moves one call of one rank on by one operation.
LEMMA AdvanceEffect ==
  ASSUME TypeOK, NEW r \in Rank, NEW e \in Epoch, NEW k \in 1..6,
         Turn(r, e, k), Advance(r, e)
  PROVE  /\ done' \in [Rank -> [Epoch -> 0..6]]
         /\ done'[r][e] = k
         /\ \A q \in Rank, d \in Epoch :
              q # r \/ d # e => done'[q][d] = done[q][d]
<1>1. done[r][e] + 1 = k /\ k \in 0..6
  BY DEF TypeOK, Turn
<1>2. done' = [done EXCEPT ![r][e] = k]
  BY <1>1 DEF Advance
<1>3. done \in [Rank -> [Epoch -> 0..6]]
  BY DEF TypeOK
<1>4. QED
  BY <1>1, <1>2, <1>3, TableUpdate

\* The host enqueues one operation of the current call of one rank.
LEMMA EnqueueEffect ==
  ASSUME TypeOK, CallShape, NEW r \in Rank, Enqueue(r)
  PROVE  /\ epoch[r] \in Epoch
         /\ queued' \in [Rank -> [Epoch -> 0..6]]
         /\ queued'[r][epoch[r]] = queued[r][epoch[r]] + 1
         /\ \A q \in Rank, d \in Epoch :
              q # r \/ d # epoch[r] => queued'[q][d] = queued[q][d]
<1>1. epoch[r] \in Epoch
  BY D3D12Assumption DEF TypeOK, CallShape, Enqueue, Epoch
<1>2. queued[r][epoch[r]] + 1 \in 0..6
  <2>1. queued[r][epoch[r]] \in 0..6
    BY <1>1 DEF TypeOK
  <2>2. queued[r][epoch[r]] < 6
    BY DEF CallShape, Enqueue
  <2>3. QED
    BY <2>1, <2>2
<1>3. queued' = [queued EXCEPT ![r][epoch[r]] = queued[r][epoch[r]] + 1]
  BY DEF Enqueue
<1>4. queued \in [Rank -> [Epoch -> 0..6]]
  BY DEF TypeOK
<1>5. QED
  BY <1>1, <1>2, <1>3, <1>4, TableUpdate

\* The next call of a rank takes its stream.
LEMMA BeginEffect ==
  ASSUME TypeOK, NEW r \in Rank, NEW s \in Streams, BeginCall(r, s)
  PROVE  /\ epoch[r] + 1 \in Epoch
         /\ stream' \in [Rank -> [Epoch -> Streams \cup {"none"}]]
         /\ stream'[r][epoch[r] + 1] = s
         /\ \A q \in Rank, d \in Epoch :
              q # r \/ d # epoch[r] + 1 => stream'[q][d] = stream[q][d]
<1>1. epoch[r] + 1 \in Epoch
  BY D3D12Assumption DEF TypeOK, BeginCall, Epoch
<1>2. stream' = [stream EXCEPT ![r][epoch[r] + 1] = s]
  BY DEF BeginCall
<1>3. stream \in [Rank -> [Epoch -> Streams \cup {"none"}]]
  BY DEF TypeOK
<1>4. QED
  BY <1>1, <1>2, <1>3, TableUpdate

\* Every operation of the constructor, of all_reduce, of destroy and of the
\* GPU keeps the variables in their types.
LEMMA TypeCorrect == TypeOK /\ CallShape /\ [Next]_vars => TypeOK'
<1> SUFFICES ASSUME TypeOK, CallShape, [Next]_vars PROVE TypeOK'
  OBVIOUS
<1>1. ASSUME NEW r \in Rank, NEW ok \in BOOLEAN, CreateOwn(r, ok)
      PROVE TypeOK'
  BY <1>1 DEF TypeOK, CreateOwn, CreateBuffer, calls, gpu
<1>2. ASSUME NEW r \in Rank, NEW ok \in BOOLEAN, OpenPeer(r, ok)
      PROVE TypeOK'
  BY <1>2 DEF TypeOK, OpenPeer, OpenBuffer, calls, gpu
<1>3. ASSUME NEW r \in Rank, AgreeOrRaise(r, 1, "created", "agreed")
      PROVE TypeOK'
  BY <1>3 DEF TypeOK, AgreeOrRaise, CloseBuffers, calls, gpu
<1>4. ASSUME NEW r \in Rank, AgreeOrRaise(r, 2, "opened", "ready")
      PROVE TypeOK'
  BY <1>4 DEF TypeOK, AgreeOrRaise, CloseBuffers, calls, gpu
<1>5. ASSUME NEW r \in Rank, NEW s \in Streams, BeginCall(r, s)
      PROVE TypeOK'
  <2>1. stream' \in [Rank -> [Epoch -> Streams \cup {"none"}]]
    BY <1>5, BeginEffect
  <2>2. epoch' \in [Rank -> 0..Calls]
    BY <1>5, D3D12Assumption DEF TypeOK, BeginCall
  <2>3. QED
    BY <1>5, <2>1, <2>2 DEF TypeOK, BeginCall, gpu
<1>6. ASSUME NEW r \in Rank, Enqueue(r) PROVE TypeOK'
  <2>1. queued' \in [Rank -> [Epoch -> 0..6]]
    BY <1>6, EnqueueEffect
  <2>2. QED
    BY <1>6, <2>1 DEF TypeOK, Enqueue, gpu
<1>7. ASSUME NEW r \in Rank, FailCall(r) PROVE TypeOK'
  <2>1. epoch[r] \in Epoch
    BY <1>7, D3D12Assumption DEF TypeOK, FailCall, CallShape, Epoch
  <2>2. QED
    BY <1>7, <2>1 DEF TypeOK, FailCall, gpu
<1>8. ASSUME NEW r \in Rank, Synchronize(r) PROVE TypeOK'
  BY <1>8 DEF TypeOK, Synchronize, calls, gpu
<1>9. ASSUME NEW r \in Rank, BarrierAndClose(r) PROVE TypeOK'
  BY <1>9 DEF TypeOK, BarrierAndClose, CloseBuffers, calls, gpu
<1>10. ASSUME NEW r \in Rank, NEW e \in Epoch, Copy(r, e)
      PROVE TypeOK'
  <2>1. done' \in [Rank -> [Epoch -> 0..6]]
    BY <1>10, AdvanceEffect DEF Copy
  <2>2. e \in 0..Calls
    BY D3D12Assumption DEF Epoch
  <2>3. QED
    BY <1>10, <2>1, <2>2 DEF TypeOK, Copy, host, calls
<1>11. ASSUME NEW r \in Rank, NEW e \in Epoch, SignalReady(r, e)
      PROVE TypeOK'
  <2>1. done' \in [Rank -> [Epoch -> 0..6]]
    BY <1>11, AdvanceEffect DEF SignalReady, SetFence
  <2>2. 2 * e - 1 \in 0..(2 * Calls)
    BY D3D12Assumption DEF Epoch
  <2>3. QED
    BY <1>11, <2>1, <2>2 DEF TypeOK, SignalReady, SetFence, host, calls
<1>12. ASSUME NEW r \in Rank, NEW e \in Epoch, WaitReady(r, e)
      PROVE TypeOK'
  <2>1. done' \in [Rank -> [Epoch -> 0..6]]
    BY <1>12, AdvanceEffect DEF WaitReady
  <2>2. QED
    BY <1>12, <2>1 DEF TypeOK, WaitReady, host, calls
<1>13. ASSUME NEW r \in Rank, NEW e \in Epoch, Add(r, e)
      PROVE TypeOK'
  <2>1. done' \in [Rank -> [Epoch -> 0..6]]
    BY <1>13, AdvanceEffect DEF Add
  <2>2. heap[Peer(r)] \in 0..Calls
    BY DEF TypeOK, Rank, Peer
  <2>3. output' \in [Rank -> [Epoch -> 0..Calls]]
    BY <1>13, <2>2, TableUpdate DEF TypeOK, Add
  <2>4. QED
    BY <1>13, <2>1, <2>3 DEF TypeOK, Add, host, calls
<1>14. ASSUME NEW r \in Rank, NEW e \in Epoch, SignalConsumed(r, e)
      PROVE TypeOK'
  <2>1. done' \in [Rank -> [Epoch -> 0..6]]
    BY <1>14, AdvanceEffect DEF SignalConsumed, SetFence
  <2>2. 2 * e \in 0..(2 * Calls) /\ Peer(r) \in Rank
    BY D3D12Assumption DEF Epoch, Rank, Peer
  <2>3. QED
    BY <1>14, <2>1, <2>2 DEF TypeOK, SignalConsumed, SetFence, host, calls
<1>15. ASSUME NEW r \in Rank, NEW e \in Epoch, WaitConsumed(r, e)
      PROVE TypeOK'
  <2>1. done' \in [Rank -> [Epoch -> 0..6]]
    BY <1>15, AdvanceEffect DEF WaitConsumed
  <2>2. QED
    BY <1>15, <2>1 DEF TypeOK, WaitConsumed, host, calls
<1>16. ASSUME NEW r \in Rank, Refuse(r) \/ TakeName(r) \/ LoadFails(r) PROVE TypeOK'
  BY <1>16 DEF TypeOK, Refuse, TakeName, LoadFails, calls, gpu
<1>17. CASE UNCHANGED vars
  BY <1>17 DEF TypeOK, vars, host, calls, gpu
<1>18. QED
  BY <1>1, <1>2, <1>3, <1>4, <1>5, <1>6, <1>7, <1>8, <1>9, <1>10, <1>11,
     <1>12, <1>13, <1>14, <1>15, <1>16, <1>17 DEF Next, Host, Gpu
-----------------------------------------------------------------------------
\* The next operation of a call is executed only when every older call of the
\* rank is finished.
LEMMA TurnFinishesOlder ==
  ASSUME TypeOK, CallShape, InOrder, mixed = {},
         NEW r \in Rank, NEW g \in Epoch, NEW k \in 1..6, Turn(r, g, k),
         NEW e \in Epoch, e < g
  PROVE  done[r][e] = queued[r][e] /\ g <= epoch[r]
<1>1. queued[r][g] \in 0..6 /\ epoch[r] \in 0..Calls
  BY DEF TypeOK
<1>2. queued[r][g] # 0
  BY <1>1 DEF Turn
<1>3. g <= epoch[r]
  BY <1>1, <1>2, D3D12Assumption DEF CallShape, Epoch
<1>4. CASE stream[r][e] = stream[r][g]
  <2>1. e \in 1..(g - 1)
    BY D3D12Assumption DEF Epoch
  <2>2. QED
    BY <1>3, <1>4, <2>1 DEF Turn
<1>5. CASE stream[r][e] # stream[r][g]
  BY <1>3, <1>5 DEF InOrder
<1>6. QED
  BY <1>4, <1>5

\* A call up to which nothing has raised has all six operations executed when
\* the GPU is at, or past the start of, a later one.
LEMMA OlderCallsAreDone ==
  ASSUME TypeOK, CallShape, InOrder, mixed = {},
         NEW r \in Rank, NEW e \in Epoch, NEW g \in Epoch, e < g, CleanUpTo(e),
         done[r][g] > 0 \/ \E k \in 1..6 : Turn(r, g, k)
  PROVE  done[r][e] = 6
<1>1. /\ done[r][e] \in 0..6 /\ queued[r][e] \in 0..6
      /\ done[r][g] \in 0..6 /\ queued[r][g] \in 0..6
      /\ epoch[r] \in 0..Calls
  BY DEF TypeOK
<1>2. done[r][e] = queued[r][e] /\ g <= epoch[r]
  <2>1. CASE done[r][g] > 0
    <3>1. queued[r][g] # 0
      BY <1>1, <2>1 DEF CallShape
    <3>2. g <= epoch[r]
      BY <1>1, <3>1, D3D12Assumption DEF CallShape, Epoch
    <3>3. QED
      BY <2>1, <3>2 DEF InOrder
  <2>2. CASE \E k \in 1..6 : Turn(r, g, k)
    BY <2>2, TurnFinishesOlder
  <2>3. QED
    BY <2>1, <2>2
<1>3. e \notin failed[r]
  BY DEF CleanUpTo, Epoch
<1>4. queued[r][e] = 6
  BY <1>1, <1>2, <1>3, D3D12Assumption DEF CallShape, Epoch
<1>5. QED
  BY <1>2, <1>4
-----------------------------------------------------------------------------
\* One operation of one GPU: which call moves on, and what no GPU operation
\* touches.
LEMMA GpuEffect ==
  ASSUME TypeOK, NEW r \in Rank, NEW e \in Epoch, Gpu(r, e)
  PROVE  /\ UNCHANGED <<host, calls>>
         /\ done' \in [Rank -> [Epoch -> 0..6]]
         /\ \E k \in 1..6 : Turn(r, e, k) /\ done'[r][e] = k
         /\ \A q \in Rank, d \in Epoch :
              q # r \/ d # e => done'[q][d] = done[q][d]
<1>1. CASE Copy(r, e)
  BY <1>1, AdvanceEffect DEF Copy
<1>2. CASE SignalReady(r, e)
  BY <1>2, AdvanceEffect DEF SignalReady, SetFence
<1>3. CASE WaitReady(r, e)
  BY <1>3, AdvanceEffect DEF WaitReady
<1>4. CASE Add(r, e)
  BY <1>4, AdvanceEffect DEF Add
<1>5. CASE SignalConsumed(r, e)
  BY <1>5, AdvanceEffect DEF SignalConsumed, SetFence
<1>6. CASE WaitConsumed(r, e)
  BY <1>6, AdvanceEffect DEF WaitConsumed
<1>7. QED
  BY <1>1, <1>2, <1>3, <1>4, <1>5, <1>6 DEF Gpu

\* Host and GPU keep CallShape: enqueueing stops at the sixth operation or at
\* an exception, and the GPU executes what is enqueued.
LEMMA CallShapeStep == TypeOK /\ CallShape /\ [Next]_vars => CallShape'
<1> SUFFICES ASSUME TypeOK, CallShape, [Next]_vars PROVE CallShape'
  OBVIOUS
<1>1. ASSUME UNCHANGED <<calls, gpu>>,
             \A q \in Rank : phase'[q] = "calling" <=> phase[q] = "calling"
      PROVE CallShape'
  BY <1>1 DEF CallShape, calls, gpu
<1>2. ASSUME NEW r \in Rank, NEW s \in Streams, BeginCall(r, s)
      PROVE CallShape'
  <2>1. epoch[r] + 1 \in Epoch /\ epoch[r] \in 0..Calls
    BY <1>2, BeginEffect DEF TypeOK
  <2>2. /\ epoch'[r] = epoch[r] + 1
        /\ phase[r] = "ready" /\ phase'[r] = "calling"
        /\ \A q \in Rank : q # r => epoch'[q] = epoch[q] /\ phase'[q] = phase[q]
        /\ UNCHANGED <<queued, done, failed>>
    BY <1>2 DEF TypeOK, BeginCall, gpu
  <2>3. \A q \in Rank : /\ epoch[q] \in 0..Calls
                       /\ \A d \in Epoch : queued[q][d] \in 0..6
    BY DEF TypeOK
  <2>4. QED
    BY <2>1, <2>2, <2>3, D3D12Assumption DEF CallShape, Epoch
<1>3. ASSUME NEW r \in Rank, Enqueue(r) PROVE CallShape'
  <2>1. /\ epoch[r] \in Epoch
        /\ queued'[r][epoch[r]] = queued[r][epoch[r]] + 1
        /\ \A q \in Rank, d \in Epoch :
             q # r \/ d # epoch[r] => queued'[q][d] = queued[q][d]
    BY <1>3, EnqueueEffect
  <2>2. /\ phase[r] = "calling"
        /\ phase'[r] = IF queued[r][epoch[r]] = 5 THEN "ready" ELSE "calling"
        /\ \A q \in Rank : q # r => phase'[q] = phase[q]
        /\ UNCHANGED <<epoch, failed, done>>
    BY <1>3 DEF TypeOK, Enqueue, gpu
  <2>3. \A q \in Rank, d \in Epoch : done[q][d] \in 0..6 /\ queued[q][d] \in 0..6
    BY DEF TypeOK
  <2>4. \A q \in Rank : epoch[q] \in 0..Calls
    BY DEF TypeOK
  <2>5. queued[r][epoch[r]] < 6
    BY <2>2 DEF CallShape
  <2>6. SUFFICES ASSUME NEW q \in Rank, NEW d \in Epoch
                 PROVE  /\ phase'[q] = "calling" => queued'[q][epoch[q]] < 6
                        /\ done[q][d] <= queued'[q][d]
                        /\ d > epoch[q] => queued'[q][d] = 0
                        /\ d < epoch[q] \/ (d = epoch[q] /\ phase'[q] # "calling")
                             => queued'[q][d] = 6 \/ d \in failed[q]
    BY <2>1, <2>2, <2>4, D3D12Assumption DEF CallShape, Epoch
  <2>7. QED
    BY <2>1, <2>2, <2>3, <2>4, <2>5, D3D12Assumption DEF CallShape, Epoch
<1>4. ASSUME NEW r \in Rank, FailCall(r) PROVE CallShape'
  <2>1. /\ phase[r] = "calling" /\ phase'[r] = "ready"
        /\ failed'[r] = failed[r] \cup {epoch[r]}
        /\ \A q \in Rank :
             q # r => phase'[q] = phase[q] /\ failed'[q] = failed[q]
        /\ UNCHANGED <<epoch, queued, done>>
    BY <1>4 DEF TypeOK, FailCall, gpu
  <2>2. \A q \in Rank : epoch[q] \in 0..Calls
    BY DEF TypeOK
  <2>3. QED
    BY <2>1, <2>2, D3D12Assumption DEF CallShape, Epoch
<1>5. ASSUME NEW r \in Rank, NEW e \in Epoch, Gpu(r, e) PROVE CallShape'
  <2>1. UNCHANGED <<phase, epoch, queued, failed>>
    BY <1>5, GpuEffect DEF host, calls
  <2>2. PICK k \in 1..6 : Turn(r, e, k) /\ done'[r][e] = k
    BY <1>5, GpuEffect
  <2>3. \A q \in Rank, d \in Epoch :
          done'[q][d] = done[q][d] \/ done'[q][d] <= queued[q][d]
    BY <1>5, <2>2, GpuEffect DEF Turn
  <2>4. QED
    BY <2>1, <2>3 DEF CallShape
<1>6. ASSUME NEW r \in Rank, NEW ok \in BOOLEAN,
             CreateOwn(r, ok) \/ OpenPeer(r, ok)
      PROVE  CallShape'
  BY <1>6, <1>1 DEF TypeOK, CreateOwn, OpenPeer, CreateBuffer, OpenBuffer
<1>7. ASSUME NEW r \in Rank,
             \/ AgreeOrRaise(r, 1, "created", "agreed")
             \/ AgreeOrRaise(r, 2, "opened", "ready")
      PROVE  CallShape'
  BY <1>7, <1>1 DEF TypeOK, AgreeOrRaise, CloseBuffers
<1>8. ASSUME NEW r \in Rank, Synchronize(r) \/ BarrierAndClose(r)
      PROVE  CallShape'
  BY <1>8, <1>1 DEF TypeOK, Synchronize, BarrierAndClose
<1>9. ASSUME NEW r \in Rank, Refuse(r) \/ TakeName(r) \/ LoadFails(r) PROVE CallShape'
  BY <1>9, <1>1 DEF TypeOK, Refuse, TakeName, LoadFails
<1>10. CASE UNCHANGED vars
  BY <1>10, <1>1 DEF vars, host
<1>11. QED
  BY <1>2, <1>3, <1>4, <1>5, <1>6, <1>7, <1>8, <1>9, <1>10 DEF Next, Host

\* Host and GPU keep InOrder: a new call on another stream than an unfinished
\* one makes the rank mixed, and a GPU executes each stream in order.
LEMMA InOrderStep ==
  TypeOK /\ CallShape /\ InOrder /\ [Next]_vars => InOrder'
<1> SUFFICES ASSUME TypeOK, CallShape, InOrder, [Next]_vars PROVE InOrder'
  OBVIOUS
<1>1. ASSUME UNCHANGED <<epoch, queued, stream, mixed, done>> PROVE InOrder'
  BY <1>1 DEF InOrder
<1>2. ASSUME NEW r \in Rank, NEW s \in Streams, BeginCall(r, s)
      PROVE  InOrder'
  <2>1. /\ epoch[r] + 1 \in Epoch
        /\ stream'[r][epoch[r] + 1] = s
        /\ \A q \in Rank, d \in Epoch :
             q # r \/ d # epoch[r] + 1 => stream'[q][d] = stream[q][d]
    BY <1>2, BeginEffect
  <2>2. /\ epoch'[r] = epoch[r] + 1
        /\ \A q \in Rank : q # r => epoch'[q] = epoch[q]
        /\ UNCHANGED <<queued, done>>
    BY <1>2 DEF TypeOK, BeginCall, gpu
  <2>3. ASSUME mixed' = {}
        PROVE  /\ mixed = {}
               /\ \A f \in 1..epoch[r] :
                    stream[r][f] = s \/ done[r][f] = queued[r][f]
    BY <1>2, <2>3 DEF BeginCall
  <2>4. done[r][epoch[r] + 1] = 0
    <3>1. epoch[r] \in 0..Calls /\ done[r][epoch[r] + 1] \in 0..6
      BY <2>1 DEF TypeOK
    <3>2. done[r][epoch[r] + 1] <= 0
      BY <2>1, <3>1 DEF CallShape
    <3>3. QED
      BY <3>1, <3>2
  <2>5. \A q \in Rank : epoch[q] \in 0..Calls
    BY DEF TypeOK
  <2>6. SUFFICES ASSUME mixed' = {}, NEW q \in Rank,
                        NEW e \in Epoch, NEW f \in Epoch,
                        f < e, e <= epoch'[q],
                        done[q][e] > 0 \/ stream'[q][f] # stream'[q][e]
                 PROVE  done[q][f] = queued[q][f]
    BY <2>2 DEF InOrder
  <2>7. CASE q = r /\ e = epoch[r] + 1
    <3>1. f \in 1..epoch[r] /\ f # epoch[r] + 1
      BY <2>5, <2>6, <2>7, D3D12Assumption DEF Epoch
    <3>2. stream'[q][f] = stream[r][f] /\ stream'[q][e] = s
      BY <2>1, <2>7, <3>1
    <3>3. stream[r][f] # s
      BY <2>4, <2>6, <2>7, <3>2
    <3>4. QED
      BY <2>3, <2>6, <2>7, <3>1, <3>3
  <2>8. CASE ~(q = r /\ e = epoch[r] + 1)
    <3>1. e <= epoch[q] /\ (q = r => f # epoch[r] + 1 /\ e # epoch[r] + 1)
      BY <2>2, <2>5, <2>6, <2>8, D3D12Assumption DEF Epoch
    <3>2. stream'[q][f] = stream[q][f] /\ stream'[q][e] = stream[q][e]
      BY <2>1, <3>1
    <3>3. QED
      BY <2>3, <2>6, <3>1, <3>2 DEF InOrder
  <2>9. QED
    BY <2>7, <2>8
<1>3. ASSUME NEW r \in Rank, Enqueue(r) PROVE InOrder'
  <2>1. \A q \in Rank, d \in Epoch :
          q # r \/ d # epoch[r] => queued'[q][d] = queued[q][d]
    BY <1>3, EnqueueEffect
  <2>2. UNCHANGED <<epoch, stream, mixed, done>>
    BY <1>3 DEF Enqueue, gpu
  <2>3. \A q \in Rank : epoch[q] \in 0..Calls
    BY DEF TypeOK
  <2>4. QED
    BY <2>1, <2>2, <2>3, D3D12Assumption DEF InOrder, Epoch
<1>4. ASSUME NEW r \in Rank, NEW g \in Epoch, Gpu(r, g) PROVE InOrder'
  <2>1. UNCHANGED <<epoch, queued, stream, mixed>>
    BY <1>4, GpuEffect DEF host, calls
  <2>2. PICK k \in 1..6 : Turn(r, g, k) /\ done'[r][g] = k
    BY <1>4, GpuEffect
  <2>3. \A q \in Rank, d \in Epoch : q # r \/ d # g => done'[q][d] = done[q][d]
    BY <1>4, GpuEffect
  <2>4. SUFFICES ASSUME mixed = {}, NEW q \in Rank,
                        NEW e \in Epoch, NEW f \in Epoch,
                        f < e, e <= epoch[q],
                        done'[q][e] > 0 \/ stream[q][f] # stream[q][e]
                 PROVE  done'[q][f] = queued[q][f]
    BY <2>1 DEF InOrder
  <2>5. CASE q = r /\ e = g
    <3>1. done[r][f] = queued[r][f] /\ f # g
      BY <2>2, <2>4, <2>5, TurnFinishesOlder DEF Epoch
    <3>2. QED
      BY <2>3, <2>5, <3>1
  <2>6. CASE ~(q = r /\ e = g)
    <3>1. done'[q][e] = done[q][e]
      BY <2>3, <2>6
    <3>2. done[q][f] = queued[q][f]
      BY <2>4, <3>1 DEF InOrder
    <3>3. ~(q = r /\ f = g)
      BY <2>2, <3>2 DEF Turn, TypeOK
    <3>4. QED
      BY <2>3, <3>2, <3>3
  <2>7. QED
    BY <2>5, <2>6
<1>5. ASSUME NEW r \in Rank, NEW ok \in BOOLEAN,
             CreateOwn(r, ok) \/ OpenPeer(r, ok)
      PROVE  InOrder'
  BY <1>5, <1>1 DEF CreateOwn, OpenPeer, CreateBuffer, OpenBuffer, calls, gpu
<1>6. ASSUME NEW r \in Rank,
             \/ AgreeOrRaise(r, 1, "created", "agreed")
             \/ AgreeOrRaise(r, 2, "opened", "ready")
      PROVE  InOrder'
  BY <1>6, <1>1 DEF AgreeOrRaise, CloseBuffers, calls, gpu
<1>7. ASSUME NEW r \in Rank, FailCall(r) \/ Synchronize(r) \/ BarrierAndClose(r)
      PROVE  InOrder'
  BY <1>7, <1>1 DEF FailCall, Synchronize, BarrierAndClose, CloseBuffers, calls, gpu
<1>8. ASSUME NEW r \in Rank, Refuse(r) \/ TakeName(r) \/ LoadFails(r) PROVE InOrder'
  BY <1>8, <1>1 DEF Refuse, TakeName, LoadFails, calls, gpu
<1>9. CASE UNCHANGED vars
  BY <1>9, <1>1 DEF vars, calls, gpu
<1>10. QED
  BY <1>2, <1>3, <1>4, <1>5, <1>6, <1>7, <1>8, <1>9 DEF Next, Host
-----------------------------------------------------------------------------
\* The part of the invariant that speaks of heaps, fences and outputs.
Protocol == FenceMeaning /\ Handshake /\ HeapMeaning /\ SumOfSameCall

Shape == TypeOK /\ CallShape /\ InOrder

IInv == Shape /\ Protocol

\* A step of the host leaves the protocol alone: it can only make fewer calls
\* clean and more ranks mixed.
LEMMA HostKeepsProtocol ==
  ASSUME Protocol, UNCHANGED gpu, mixed \subseteq mixed',
         \A q \in Rank : failed[q] \subseteq failed'[q]
  PROVE  Protocol'
<1>1. \A e \in Epoch : CleanUpTo(e)' => CleanUpTo(e)
  BY DEF CleanUpTo
<1>2. mixed' = {} => mixed = {}
  OBVIOUS
<1>3. UNCHANGED <<done, heap, fence, output>>
  BY DEF gpu
<1>4. QED
  BY <1>1, <1>2, <1>3
  DEF Protocol, FenceMeaning, Handshake, HeapMeaning, SumOfSameCall

\* What is known when the GPU of rank r executes the k-th operation of call g.
Moves(r, g, k) ==
  /\ \A q \in Rank, e \in Epoch : done[q][e] \in 0..6 /\ done'[q][e] \in 0..6
  /\ done[r][g] = k - 1 /\ done'[r][g] = k
  /\ \A q \in Rank, e \in Epoch : q # r \/ e # g => done'[q][e] = done[q][e]
  /\ \A e \in Epoch : e < g /\ CleanUpTo(e) => done[r][e] = 6
  /\ \A e \in Epoch : e > g => done[r][e] = 0
  /\ Peer(r) \in Rank /\ Peer(Peer(r)) = r /\ Peer(r) # r
  /\ \A q \in Rank : q = r \/ q = Peer(r)
  /\ \A e \in Epoch : e \in Nat /\ e > 0
  /\ mixed = {} /\ UNCHANGED <<mixed, failed>>
  /\ \A e \in Epoch : CleanUpTo(e)' <=> CleanUpTo(e)
  /\ \A q \in Rank : fence[q] \in Nat

\* On an unmixed rank the operation executed is that of the oldest unfinished
\* call, and no later call has been started.
LEMMA TurnFacts ==
  ASSUME Shape, mixed = {}, NEW r \in Rank, NEW g \in Epoch, NEW k \in 1..6,
         Turn(r, g, k), Advance(r, g), UNCHANGED calls
  PROVE  Moves(r, g, k)
<1>1. /\ done' \in [Rank -> [Epoch -> 0..6]]
      /\ done'[r][g] = k
      /\ \A q \in Rank, e \in Epoch : q # r \/ e # g => done'[q][e] = done[q][e]
  BY AdvanceEffect DEF Shape
<1>2. \A q \in Rank, e \in Epoch : done[q][e] \in 0..6 /\ done'[q][e] \in 0..6
  BY <1>1 DEF Shape, TypeOK
<1>3. done[r][g] = k - 1
  BY DEF Turn
<1>4. \A e \in Epoch : e < g /\ CleanUpTo(e) => done[r][e] = 6
  BY OlderCallsAreDone DEF Shape
<1>5. ASSUME NEW e \in Epoch, e > g PROVE done[r][e] = 0
  <2>1. SUFFICES ASSUME done[r][e] > 0 PROVE FALSE
    BY <1>2
  <2>2. queued[r][e] \in 0..6 /\ epoch[r] \in 0..Calls /\ queued[r][g] \in 0..6
    BY DEF Shape, TypeOK
  <2>3. e <= epoch[r]
    <3>1. queued[r][e] # 0
      BY <1>2, <2>1, <2>2 DEF Shape, CallShape
    <3>2. QED
      BY <2>2, <3>1, D3D12Assumption DEF Shape, CallShape, Epoch
  <2>4. done[r][g] = queued[r][g]
    BY <1>5, <2>1, <2>3 DEF Shape, InOrder
  <2>5. QED
    BY <1>3, <2>2, <2>4 DEF Turn
<1>6. /\ Peer(r) \in Rank /\ Peer(Peer(r)) = r /\ Peer(r) # r
      /\ \A q \in Rank : q = r \/ q = Peer(r)
  BY DEF Rank, Peer
<1>7. /\ \A e \in Epoch : e \in Nat /\ e > 0
      /\ \A q \in Rank : fence[q] \in Nat
  BY D3D12Assumption DEF Epoch, Shape, TypeOK
<1>8. UNCHANGED <<mixed, failed>> /\ \A e \in Epoch : CleanUpTo(e)' <=> CleanUpTo(e)
  BY DEF calls, CleanUpTo
<1>9. QED
  BY <1>1, <1>2, <1>3, <1>4, <1>5, <1>6, <1>7, <1>8 DEF Moves

\* Operations that do not touch a part of the state keep what is said of it.
LEMMA FenceKept ==
  ASSUME FenceMeaning, UNCHANGED fence, NEW r \in Rank, NEW g \in Epoch,
         NEW k \in 1..6, Moves(r, g, k)
  PROVE  FenceMeaning'
  BY DEF FenceMeaning, Moves

\* Only the operations after the two waits learn something of the peer.
LEMMA HandshakeKept ==
  ASSUME Handshake, NEW r \in Rank, NEW g \in Epoch,
         NEW k \in 1..6, Moves(r, g, k),
         k = 3 /\ CleanUpTo(g) => done[Peer(r)][g] >= 2,
         k = 6 /\ CleanUpTo(g) => done[Peer(r)][g] >= 5
  PROVE  Handshake'
  BY DEF Handshake, Moves

\* A heap keeps its payload until the next copy.
LEMMA HeapKept ==
  ASSUME HeapMeaning, UNCHANGED heap, NEW r \in Rank, NEW g \in Epoch,
         NEW k \in 2..6, Moves(r, g, k)
  PROVE  HeapMeaning'
<1> SUFFICES ASSUME NEW q \in Rank, NEW e \in Epoch,
                    CleanUpTo(e), done'[q][e] >= 1,
                    \A h \in Epoch : h > e => done'[q][h] = 0
             PROVE  heap[q] = e
  BY DEF HeapMeaning, Moves
<1>1. done[q][e] >= 1
  BY DEF Moves
<1>2. \A h \in Epoch : h > e => done[q][h] = 0
  BY DEF Moves
<1>3. QED
  BY <1>1, <1>2 DEF HeapMeaning, Moves

\* Every operation of a GPU keeps the protocol's invariant.
LEMMA GpuKeepsProtocol ==
  ASSUME Shape, Protocol, NEW r \in Rank, NEW g \in Epoch, Gpu(r, g)
  PROVE  Protocol'
<1>1. CASE mixed # {}
  <2>1. UNCHANGED mixed
    BY GpuEffect DEF Shape, calls
  <2>2. QED
    BY <1>1, <2>1
    DEF Protocol, FenceMeaning, Handshake, HeapMeaning, SumOfSameCall
<1>2. CASE mixed = {}
  <2>1. CASE Copy(r, g)
    <3>1. Moves(r, g, 1)
      BY <1>2, <2>1, TurnFacts DEF Copy
    <3>2. FenceMeaning'
      BY <2>1, <3>1, FenceKept DEF Copy, Protocol
    <3>3. Handshake'
      BY <3>1, HandshakeKept DEF Protocol
    <3>4. HeapMeaning'
      <4>1. heap'[r] = g /\ \A q \in Rank : q # r => heap'[q] = heap[q]
        BY <2>1 DEF Copy, Shape, TypeOK
      <4>2. SUFFICES ASSUME NEW q \in Rank, NEW e \in Epoch,
                            CleanUpTo(e), done'[q][e] >= 1,
                            \A h \in Epoch : h > e => done'[q][h] = 0
                     PROVE  heap'[q] = e
        BY <3>1 DEF HeapMeaning, Moves
      <4>3. CASE q = r
        BY <3>1, <4>1, <4>2, <4>3 DEF Moves
      <4>4. CASE q # r
        BY <1>2, <3>1, <4>1, <4>2, <4>4 DEF Protocol, HeapMeaning, Moves
      <4>5. QED
        BY <4>3, <4>4
    <3>5. SumOfSameCall'
      BY <2>1, <3>1 DEF Copy, Protocol, SumOfSameCall, Moves
    <3>6. QED
      BY <3>2, <3>3, <3>4, <3>5 DEF Protocol
  <2>2. CASE SignalReady(r, g)
    <3>1. Moves(r, g, 2)
      BY <1>2, <2>2, TurnFacts DEF SignalReady, SetFence
    <3>2. FenceMeaning'
      <4>1. /\ fence'[r] = 2 * g - 1
            /\ \A q \in Rank : q # r => fence'[q] = fence[q]
        BY <2>2, <3>1 DEF SignalReady, SetFence, Shape, TypeOK, Moves
      <4>2. SUFFICES ASSUME NEW q \in Rank, NEW e \in Epoch, CleanUpTo(e)
                     PROVE  /\ fence'[q] >= 2 * e - 1 => done'[q][e] >= 2
                            /\ fence'[q] >= 2 * e => done'[Peer(q)][e] >= 5
        BY <3>1 DEF FenceMeaning, Moves
      <4>3. /\ done[r][e] >= 3 => done[Peer(r)][e] >= 2
            /\ done[r][e] >= 6 => done[Peer(r)][e] >= 5
        BY <1>2, <4>2 DEF Protocol, Handshake
      <4>4. CASE q = r
        BY <3>1, <4>1, <4>2, <4>3, <4>4 DEF Moves
      <4>5. CASE q # r
        <5>1. /\ fence[q] >= 2 * e - 1 => done[q][e] >= 2
              /\ fence[q] >= 2 * e => done[Peer(q)][e] >= 5
          BY <1>2, <4>2 DEF Protocol, FenceMeaning
        <5>2. Peer(q) \in Rank
          BY DEF Rank, Peer
        <5>3. QED
          BY <3>1, <4>1, <4>5, <5>1, <5>2 DEF Moves
      <4>6. QED
        BY <4>4, <4>5
    <3>3. Handshake'
      BY <3>1, HandshakeKept DEF Protocol
    <3>4. HeapMeaning'
      BY <2>2, <3>1, HeapKept DEF SignalReady, SetFence, Protocol
    <3>5. SumOfSameCall'
      BY <2>2, <3>1 DEF SignalReady, SetFence, Protocol, SumOfSameCall, Moves
    <3>6. QED
      BY <3>2, <3>3, <3>4, <3>5 DEF Protocol
  <2>3. CASE WaitReady(r, g)
    <3>1. Moves(r, g, 3)
      BY <1>2, <2>3, TurnFacts DEF WaitReady
    <3>2. FenceMeaning'
      BY <2>3, <3>1, FenceKept DEF WaitReady, Protocol
    <3>3. Handshake'
      <4>1. CleanUpTo(g) => done[Peer(r)][g] >= 2
        BY <2>3, <3>1 DEF WaitReady, FenceReached, Protocol, FenceMeaning, Moves
      <4>2. QED
        BY <3>1, <4>1, HandshakeKept DEF Protocol
    <3>4. HeapMeaning'
      BY <2>3, <3>1, HeapKept DEF WaitReady, Protocol
    <3>5. SumOfSameCall'
      BY <2>3, <3>1 DEF WaitReady, Protocol, SumOfSameCall, Moves
    <3>6. QED
      BY <3>2, <3>3, <3>4, <3>5 DEF Protocol
  <2>4. CASE Add(r, g)
    <3>1. Moves(r, g, 4)
      BY <1>2, <2>4, TurnFacts DEF Add
    <3>2. FenceMeaning'
      BY <2>4, <3>1, FenceKept DEF Add, Protocol
    <3>3. Handshake'
      BY <3>1, HandshakeKept DEF Protocol
    <3>4. HeapMeaning'
      BY <2>4, <3>1, HeapKept DEF Add, Protocol
    <3>5. SumOfSameCall'
      <4>1. ASSUME CleanUpTo(g) PROVE heap[Peer(r)] = g
        <5>1. done[Peer(r)][g] >= 2 /\ done[Peer(r)][g] # 6
          BY <3>1, <4>1 DEF Protocol, Handshake, Moves
        <5>2. ASSUME NEW h \in Epoch, h > g PROVE done[Peer(r)][h] = 0
          BY <1>2, <3>1, <4>1, <5>1, <5>2, OlderCallsAreDone DEF Shape, Moves
        <5>3. QED
          BY <1>2, <3>1, <4>1, <5>1, <5>2 DEF Protocol, HeapMeaning, Moves
      <4>2. /\ output'[r][g] = heap[Peer(r)]
            /\ \A q \in Rank, e \in Epoch :
                 q # r \/ e # g => output'[q][e] = output[q][e]
        <5>1. output \in [Rank -> [Epoch -> 0..Calls]] /\ heap[Peer(r)] \in 0..Calls
          BY <3>1 DEF Shape, TypeOK, Moves
        <5>2. QED
          BY <2>4, <5>1, TableUpdate DEF Add
      <4>3. QED
        BY <3>1, <4>1, <4>2 DEF Protocol, SumOfSameCall, Moves
    <3>6. QED
      BY <3>2, <3>3, <3>4, <3>5 DEF Protocol
  <2>5. CASE SignalConsumed(r, g)
    <3>1. Moves(r, g, 5)
      BY <1>2, <2>5, TurnFacts DEF SignalConsumed, SetFence
    <3>2. FenceMeaning'
      <4>1. /\ fence'[Peer(r)] = 2 * g
            /\ \A q \in Rank : q # Peer(r) => fence'[q] = fence[q]
        BY <2>5, <3>1 DEF SignalConsumed, SetFence, Shape, TypeOK, Moves
      <4>2. SUFFICES ASSUME NEW q \in Rank, NEW e \in Epoch, CleanUpTo(e)
                     PROVE  /\ fence'[q] >= 2 * e - 1 => done'[q][e] >= 2
                            /\ fence'[q] >= 2 * e => done'[Peer(q)][e] >= 5
        BY <3>1 DEF FenceMeaning, Moves
      <4>3. /\ done[r][e] >= 3 => done[Peer(r)][e] >= 2
            /\ done[r][e] >= 6 => done[Peer(r)][e] >= 5
        BY <1>2, <4>2 DEF Protocol, Handshake
      <4>4. CASE q = Peer(r)
        BY <3>1, <4>1, <4>2, <4>3, <4>4 DEF Moves
      <4>5. CASE q # Peer(r)
        <5>1. /\ fence[q] >= 2 * e - 1 => done[q][e] >= 2
              /\ fence[q] >= 2 * e => done[Peer(q)][e] >= 5
          BY <1>2, <4>2 DEF Protocol, FenceMeaning
        <5>2. Peer(q) \in Rank
          BY DEF Rank, Peer
        <5>3. QED
          BY <3>1, <4>1, <4>5, <5>1, <5>2 DEF Moves
      <4>6. QED
        BY <4>4, <4>5
    <3>3. Handshake'
      BY <3>1, HandshakeKept DEF Protocol
    <3>4. HeapMeaning'
      BY <2>5, <3>1, HeapKept DEF SignalConsumed, SetFence, Protocol
    <3>5. SumOfSameCall'
      BY <2>5, <3>1 DEF SignalConsumed, SetFence, Protocol, SumOfSameCall, Moves
    <3>6. QED
      BY <3>2, <3>3, <3>4, <3>5 DEF Protocol
  <2>6. CASE WaitConsumed(r, g)
    <3>1. Moves(r, g, 6)
      BY <1>2, <2>6, TurnFacts DEF WaitConsumed
    <3>2. FenceMeaning'
      BY <2>6, <3>1, FenceKept DEF WaitConsumed, Protocol
    <3>3. Handshake'
      <4>1. CleanUpTo(g) => done[Peer(r)][g] >= 5
        BY <2>6, <3>1 DEF WaitConsumed, FenceReached, Protocol, FenceMeaning, Moves
      <4>2. QED
        BY <3>1, <4>1, HandshakeKept DEF Protocol
    <3>4. HeapMeaning'
      BY <2>6, <3>1, HeapKept DEF WaitConsumed, Protocol
    <3>5. SumOfSameCall'
      BY <2>6, <3>1 DEF WaitConsumed, Protocol, SumOfSameCall, Moves
    <3>6. QED
      BY <3>2, <3>3, <3>4, <3>5 DEF Protocol
  <2>7. QED
    BY <2>1, <2>2, <2>3, <2>4, <2>5, <2>6 DEF Gpu
<1>3. QED
  BY <1>1, <1>2
-----------------------------------------------------------------------------
\* Nothing is enqueued, signalled or copied when the ranks start.
LEMMA InitIInv == Init => IInv
<1> SUFFICES ASSUME Init PROVE IInv
  OBVIOUS
<1>1. TypeOK
  BY D3D12Assumption DEF Init, TypeOK, Epoch
<1>2. CallShape /\ InOrder
  BY D3D12Assumption DEF Init, CallShape, InOrder, Epoch
<1>3. Protocol
  BY D3D12Assumption
  DEF Init, Protocol, FenceMeaning, Handshake, HeapMeaning, SumOfSameCall, Rank,
      Peer, Epoch
<1>4. QED
  BY <1>1, <1>2, <1>3 DEF IInv, Shape

\* Every step of host or GPU keeps the inductive invariant.
LEMMA NextIInv == IInv /\ [Next]_vars => IInv'
<1> SUFFICES ASSUME IInv, [Next]_vars PROVE IInv'
  OBVIOUS
<1>1. Shape'
  BY TypeCorrect, CallShapeStep, InOrderStep DEF IInv, Shape
<1>2. ASSUME NEW r \in Rank, Host(r) PROVE Protocol'
  <2>1. UNCHANGED gpu
    BY <1>2
    DEF Host, Refuse, TakeName, LoadFails, CreateOwn, OpenPeer, AgreeOrRaise, BeginCall,
        Enqueue, FailCall, Synchronize, BarrierAndClose
  <2>2. mixed \subseteq mixed'
    BY <1>2
    DEF Host, Refuse, TakeName, LoadFails, CreateOwn, OpenPeer, AgreeOrRaise, BeginCall,
        Enqueue, FailCall, Synchronize, BarrierAndClose, calls
  <2>3. CASE UNCHANGED failed
    BY <2>1, <2>2, <2>3, HostKeepsProtocol DEF IInv
  <2>4. CASE FailCall(r)
    <3>1. \A q \in Rank : failed[q] \subseteq failed'[q]
      BY <2>4 DEF FailCall, IInv, Shape, TypeOK
    <3>2. QED
      BY <2>1, <2>2, <3>1, HostKeepsProtocol DEF IInv
  <2>5. QED
    BY <1>2, <2>3, <2>4
    DEF Host, Refuse, TakeName, LoadFails, CreateOwn, OpenPeer, AgreeOrRaise, BeginCall,
        Enqueue, Synchronize, BarrierAndClose, calls
<1>3. ASSUME NEW r \in Rank, NEW e \in Epoch, Gpu(r, e) PROVE Protocol'
  BY <1>3, GpuKeepsProtocol DEF IInv
<1>4. CASE UNCHANGED vars
  <2>1. UNCHANGED gpu /\ UNCHANGED mixed /\ UNCHANGED failed
    BY <1>4 DEF vars, calls
  <2>2. mixed \subseteq mixed' /\ \A q \in Rank : failed[q] \subseteq failed'[q]
    BY <2>1
  <2>3. QED
    BY <1>1, <2>1, <2>2, HostKeepsProtocol DEF IInv
<1>5. QED
  BY <1>1, <1>2, <1>3, <1>4 DEF IInv, Next

\* In a state of the invariant no copy can meet an add on the same heap: a rank
\* about to copy call e has finished the calls before it, and a peer still
\* about to add call f has let nobody past the last wait of call f.
LEMMA IInvHeapExclusive == IInv => HeapExclusive
<1> SUFFICES ASSUME IInv, NEW r \in Rank, NEW e \in Epoch, NEW f \in Epoch,
                    mixed = {}, CleanUpTo(f), Turn(r, e, 1), Turn(Peer(r), f, 4)
             PROVE  FALSE
  BY DEF HeapExclusive
<1>1. Peer(r) \in Rank /\ Peer(Peer(r)) = r
  BY DEF Rank, Peer
<1>2. done[Peer(r)][f] = 3 /\ done[r][e] = 0
  BY DEF Turn
<1>3. done[r][f] >= 2
  BY <1>1, <1>2 DEF IInv, Protocol, Handshake
<1>4. done[r][f] # 6
  BY <1>1, <1>2, <1>3 DEF IInv, Protocol, Handshake
<1>5. f # e
  BY <1>2, <1>3
<1>6. CASE f < e
  BY <1>4, <1>6, OlderCallsAreDone DEF IInv, Shape
<1>7. CASE e < f
  <2>1. CleanUpTo(e)
    BY <1>7, D3D12Assumption DEF CleanUpTo, Epoch, IInv, Shape, TypeOK
  <2>2. done[r][f] > 0 /\ done[r][f] \in 0..6
    BY <1>3 DEF IInv, Shape, TypeOK
  <2>3. done[r][e] = 6
    BY <1>7, <2>1, <2>2, OlderCallsAreDone DEF IInv, Shape
  <2>4. QED
    BY <1>2, <2>3
<1>8. QED
  BY <1>5, <1>6, <1>7, D3D12Assumption DEF Epoch

\* For every number of calls, any set of streams and with calls that raise
\* half-way: the types, the sums and the exclusive use of the heaps.
THEOREM AllReduceCorrect == Spec => [](TypeOK /\ SumOfSameCall /\ HeapExclusive)
<1>1. IInv => TypeOK /\ SumOfSameCall /\ HeapExclusive
  BY IInvHeapExclusive DEF IInv, Shape, Protocol
<1>2. QED
  BY InitIInv, NextIInv, <1>1, PTL DEF Spec

\* What the add kernel of a clean call reads is the peer's payload of that call.
THEOREM SumsAreOfOneCall == Spec => []SumOfSameCall
  BY AllReduceCorrect, PTL

\* A rank's copy into its heap never meets the peer's add from it.
THEOREM HeapsAreExclusive == Spec => []HeapExclusive
  BY AllReduceCorrect, PTL

\* The epochs, votes, queues and fences of both ranks keep their types.
THEOREM AllReduceTypes == Spec => []TypeOK
  BY AllReduceCorrect, PTL

\* Both ranks set both fences, yet no signal takes a fence back: the value a
\* signal writes is above what the invariant allows the fence to hold.
LEMMA FencesGrow ==
  ASSUME IInv, [Next]_vars, mixed = {}, CleanUpTo(Calls), NEW q \in Rank
  PROVE  fence'[q] >= fence[q]
<1>1. fence[q] \in 0..(2 * Calls)
  BY DEF IInv, Shape, TypeOK
<1>2. ASSUME UNCHANGED fence PROVE fence'[q] >= fence[q]
  BY <1>1, <1>2, D3D12Assumption
<1>3. \A e \in Epoch : CleanUpTo(e)
  BY D3D12Assumption DEF CleanUpTo, Epoch, IInv, Shape, TypeOK
<1>4. ASSUME NEW r \in Rank, NEW g \in Epoch, SignalReady(r, g)
      PROVE  fence'[q] >= fence[q]
  <2>1. Moves(r, g, 2)
    BY <1>4, TurnFacts DEF SignalReady, SetFence, IInv
  <2>2. ~(fence[r] >= 2 * g)
    <3>1. SUFFICES ASSUME fence[r] >= 2 * g PROVE FALSE
      OBVIOUS
    <3>2. done[Peer(r)][g] >= 5 /\ done[r][g] = 1
      BY <1>3, <2>1, <3>1 DEF IInv, Protocol, FenceMeaning, Moves
    <3>3. QED
      BY <1>3, <2>1, <3>2 DEF IInv, Protocol, Handshake, Moves
  <2>3. QED
    BY <1>1, <1>4, <2>1, <2>2, D3D12Assumption
    DEF SignalReady, SetFence, IInv, Shape, TypeOK, Moves
<1>5. ASSUME NEW r \in Rank, NEW g \in Epoch, SignalConsumed(r, g)
      PROVE  fence'[q] >= fence[q]
  <2>1. Moves(r, g, 5)
    BY <1>5, TurnFacts DEF SignalConsumed, SetFence, IInv
  <2>2. ~(fence[Peer(r)] > 2 * g)
    <3>1. SUFFICES ASSUME fence[Peer(r)] > 2 * g PROVE FALSE
      OBVIOUS
    <3>2. g + 1 \in Epoch /\ fence[Peer(r)] >= 2 * (g + 1) - 1
      BY <2>1, <3>1, D3D12Assumption DEF Epoch, IInv, Shape, TypeOK, Moves
    <3>3. done[Peer(r)][g + 1] >= 2
      BY <1>3, <2>1, <3>2 DEF IInv, Protocol, FenceMeaning, Moves
    <3>4. done[Peer(r)][g] = 6
      BY <1>3, <2>1, <3>2, <3>3, OlderCallsAreDone DEF IInv, Shape, Moves
    <3>5. QED
      BY <1>3, <2>1, <3>4 DEF IInv, Protocol, Handshake, Moves
  <2>3. QED
    BY <1>1, <1>5, <2>1, <2>2, D3D12Assumption
    DEF SignalConsumed, SetFence, IInv, Shape, TypeOK, Moves
<1>6. ASSUME NEW r \in Rank, Host(r) PROVE UNCHANGED fence
  BY <1>6
  DEF Host, Refuse, TakeName, LoadFails, CreateOwn, OpenPeer, AgreeOrRaise, BeginCall,
      Enqueue, FailCall, Synchronize, BarrierAndClose, gpu
<1>7. ASSUME NEW r \in Rank, NEW g \in Epoch,
             Copy(r, g) \/ WaitReady(r, g) \/ Add(r, g) \/ WaitConsumed(r, g)
      PROVE  UNCHANGED fence
  BY <1>7 DEF Copy, WaitReady, Add, WaitConsumed
<1>8. CASE UNCHANGED vars
  BY <1>2, <1>8 DEF vars, gpu
<1>9. QED
  BY <1>2, <1>4, <1>5, <1>6, <1>7, <1>8 DEF Next, Gpu

\* No step of a clean, unmixed execution takes a fence back.
THEOREM FencesAreMonotone == Spec => FenceMonotone
<1>1. IInv /\ [Next]_vars =>
        [mixed = {} /\ CleanUpTo(Calls)
           => \A r \in Rank : fence'[r] >= fence[r]]_vars
  BY FencesGrow
<1>2. QED
  BY InitIInv, NextIInv, <1>1, PTL DEF Spec, FenceMonotone
=============================================================================
