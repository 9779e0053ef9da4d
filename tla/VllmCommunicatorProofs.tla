----------------------- MODULE VllmCommunicatorProofs -----------------------
(***************************************************************************)
(* The safety of WindowsAmdMultiGpuCommunicator for every number of ranks, *)
(* every deployment and every workload, with any number of failing calls:  *)
(* no back-end is destroyed under the work of a stream, a collective       *)
(* leaves its argument alone, and what a collective returns is the         *)
(* collective of the ranks' inputs of that very call.                      *)
(*                                                                         *)
(* The heart of the last two is a count: the n-th contribution of a rank   *)
(* to a channel is its input of the n-th call that is routed to the        *)
(* channel (Contributions), because the routing is the same on every rank  *)
(* and because the stream holds the calls that are still to come in order. *)
(***************************************************************************)
EXTENDS VllmCommunicator, FiniteSetTheorems, SequenceTheorems, TLAPS

\* What is on a stream.
Task == [task: Channels \cup {"kernel"}, k: Nat]

Shapes ==
  /\ setting \in Settings
  /\ program \in Seq(CallType) /\ Len(program) <= Length
  /\ \A k \in 1..Len(program) :
       program[k].root < setting.world /\ (IsHop(program[k]) => setting.world > 1)
  /\ pc \in [Ranks -> {"building", "idle", "copying", "waiting", "raised", "done"}]
  /\ next \in [Ranks -> Nat]
  /\ \A r \in Ranks :
       /\ 1 <= next[r] /\ next[r] <= Len(program) + 1
       /\ pc[r] \in {"copying", "waiting"} => next[r] <= Len(program)
  /\ queue \in [Ranks -> Seq(Task)]
  /\ left \in [Ranks -> Nat]
  /\ open \in [Ranks -> SUBSET {"d3d12", "rccl", "shm"}]

-----------------------------------------------------------------------------
(* The environment never changes, and with it the routing.                 *)

\* What depends on the deployment only.
Fixed ==
  /\ setting' = setting /\ Ranks' = Ranks /\ Backends' = Backends
  /\ DestroySteps' = DestroySteps /\ HasD3D12' = HasD3D12 /\ HasShm' = HasShm
  /\ HasRccl' = HasRccl

\* No step changes the deployment.
LEMMA SettingFixed ==
  ASSUME [Next]_vars
  PROVE  Fixed
<1>1. setting' = setting
  <2>1. ASSUME NEW r \in Ranks, Host(r) PROVE setting' = setting
    BY <2>1
    DEF Host, BuildLocal, Arrive, Meet, Issue, CopyToStage, HostReturn, RecvReturn,
        SendReturn, Returns, Destroy, Exit, PeerGone, engine
  <2>2. ASSUME NEW r \in Ranks, Stream(r) PROVE setting' = setting
    BY <2>2 DEF Stream, engine
  <2>3. ASSUME NEW b \in Blocks, Schedule(b) PROVE setting' = setting
    BY <2>3 DEF Schedule
  <2>4. ASSUME Stop PROVE setting' = setting
    BY <2>4 DEF Stop
  <2>5. QED
    BY <2>1, <2>2, <2>3, <2>4 DEF Next, vars, engine
<1>2. HasD3D12' = HasD3D12 /\ HasRccl' = HasRccl /\ HasShm' = HasShm
  BY <1>1 DEF HasD3D12, HasRccl, HasShm
<1>3. Ranks' = Ranks /\ Backends' = Backends /\ DestroySteps' = DestroySteps
  BY <1>1, <1>2 DEF Ranks, Backends, DestroySteps
<1>4. QED
  BY <1>1, <1>2, <1>3 DEF Fixed

\* The routing depends on the call and the deployment, not on the rank.
LEMMA SameRoute ==
  ASSUME NEW r, NEW s, NEW c
  PROVE  Route(r, c) = Route(s, c) /\ Route(r, c) \in Channels
  BY DEF Route, CanHandle, Channels

\* A deployment has at least one rank.
LEMMA World ==
  ASSUME setting \in Settings
  PROVE  /\ setting.world \in Nat /\ setting.world >= 1
         /\ Ranks = 0..(setting.world - 1) /\ \A r \in Ranks : r \in Nat
  BY VllmAssumption DEF Ranks

\* The first step of destroy waits for the rank's own stream; where a peer's
\* GPU reads the memory, the second meets the peer.
LEMMA DestroyOrder ==
  /\ Len(DestroySteps) \in Nat
  /\ 1 <= Len(DestroySteps) => DestroySteps[1] = "sync"
  /\ HasD3D12 \/ HasShm => DestroySteps[2] = "meet"
<1>1. HasShm => ~HasD3D12 /\ ~HasRccl
  BY DEF HasShm
<1>2. CASE HasD3D12
  BY <1>1, <1>2 DEF DestroySteps
<1>3. CASE HasShm
  BY <1>1, <1>3 DEF DestroySteps
<1>4. CASE ~HasD3D12 /\ ~HasShm
  BY <1>4 DEF DestroySteps
<1>5. QED
  BY <1>2, <1>3, <1>4

-----------------------------------------------------------------------------
(* Shutdown.                                                               *)

\* Where a rank is in destroy, and what that says of all ranks.
Departure(r) ==
  /\ left[r] > 0 => stop /\ next[r] > Len(program) /\ queue[r] = <<>>
                    /\ pc[r] \in {"idle", "raised", "done"}
  /\ pc[r] \in {"idle", "copying", "waiting"} /\ left[r] = 0 => open[r] = Backends
  /\ HasD3D12 \/ HasShm =>
       /\ left[r] \in {1, 2} => open[r] = Backends
       /\ left[r] >= 2 => \A s \in Ranks : left[s] >= 1

DInv == Shapes /\ \A r \in Ranks : Departure(r)

\* The initial state: no rank has been constructed.
LEMMA InitDInv == Init => DInv
<1> SUFFICES ASSUME Init PROVE DInv
  OBVIOUS
<1>1. setting \in Settings /\ 0 \in Nat /\ Length \in Nat
  BY VllmAssumption DEF Init
<1>2. program = <<>> /\ Len(program) = 0 /\ program \in Seq(CallType)
  BY DEF Init
<1>3. /\ pc \in [Ranks -> {"building", "idle", "copying", "waiting", "raised", "done"}]
      /\ next \in [Ranks -> Nat] /\ \A r \in Ranks : next[r] = 1 /\ pc[r] = "building"
      /\ queue \in [Ranks -> Seq(Task)] /\ left \in [Ranks -> Nat]
      /\ open \in [Ranks -> SUBSET {"d3d12", "rccl", "shm"}]
  BY DEF Init
<1>4. Shapes
  BY <1>1, <1>2, <1>3 DEF Shapes
<1>5. ASSUME NEW r \in Ranks PROVE Departure(r)
  BY <1>5 DEF Init, Departure
<1>6. QED
  BY <1>4, <1>5 DEF DInv

\* What a step of the host thread of rank r leaves alone: the other ranks.
LEMMA HostIsLocal ==
  ASSUME Shapes, NEW r \in Ranks, Host(r), NEW s \in Ranks, s # r
  PROVE  /\ pc'[s] = pc[s] /\ next'[s] = next[s] /\ queue'[s] = queue[s]
         /\ left'[s] = left[s] /\ open'[s] = open[s]
  BY DEF Shapes, Host, BuildLocal, Arrive, Meet, Pass, Raise, Issue, CopyToStage,
         HostReturn, RecvReturn, SendReturn, Returns, Destroy, Exit, PeerGone,
         construction

\* The engine's data are the same for every rank.
LEMMA HostLeavesEngine ==
  ASSUME NEW r \in Ranks, Host(r) \/ Stream(r)
  PROVE  program' = program /\ stop' = stop
  BY DEF Host, BuildLocal, Arrive, Meet, Issue, CopyToStage,
         HostReturn, RecvReturn, SendReturn, Returns, Destroy, Exit, PeerGone,
         Stream, engine

\* A call that is issued appends one or two tasks to the stream.
LEMMA IssueQueue ==
  ASSUME Shapes, NEW r \in Ranks, Issue(r)
  PROVE  queue' \in [Ranks -> Seq(Task)] /\ next' \in [Ranks -> Nat]
<1>1. next[r] \in Nat /\ Route(r, program[next[r]]) \in Channels
  BY SameRoute DEF Shapes
<1>2. Kernel(next[r]) \in Task /\ Collective(Route(r, program[next[r]]), next[r]) \in Task
  BY <1>1 DEF Kernel, Collective, Task
<1>3. queue[r] \in Seq(Task)
  BY DEF Shapes
<1>4. /\ Append(queue[r], Kernel(next[r])) \in Seq(Task)
      /\ queue[r] \o <<Kernel(next[r]),
                       Collective(Route(r, program[next[r]]), next[r])>> \in Seq(Task)
  BY <1>2, <1>3
<1>5. \/ queue' = queue
      \/ queue' = [queue EXCEPT ![r] = Append(@, Kernel(next[r]))]
      \/ queue' = [queue EXCEPT ![r] = @ \o <<Kernel(next[r]),
                       Collective(Route(r, program[next[r]]), next[r])>>]
  BY DEF Issue
<1>6. queue' \in [Ranks -> Seq(Task)]
  BY <1>4, <1>5 DEF Shapes
<1>7. next' = next \/ next' = [next EXCEPT ![r] = next[r] + 1]
  BY DEF Issue
<1>8. next \in [Ranks -> Nat] /\ next[r] + 1 \in Nat
  BY <1>1 DEF Shapes
<1>9. next' \in [Ranks -> Nat]
  BY <1>7, <1>8
<1>10. QED
  BY <1>6, <1>9

\* Every step keeps the types.
LEMMA NextShapes == Shapes /\ [Next]_vars => Shapes'
<1> SUFFICES ASSUME Shapes, [Next]_vars PROVE Shapes'
  OBVIOUS
<1>1. Fixed
  BY SettingFixed
<1>2. ASSUME NEW r \in Ranks, Host(r) PROVE Shapes'
  <2>1. program' = program
    BY <1>2, HostLeavesEngine
  <2>2. pc' \in [Ranks -> {"building", "idle", "copying", "waiting", "raised", "done"}]
    BY <1>2
    DEF Shapes, Host, BuildLocal, Arrive, Meet, Pass, Raise, Issue, CopyToStage,
        HostReturn, RecvReturn, SendReturn, Returns, Destroy, Exit, PeerGone
  <2>3. queue' \in [Ranks -> Seq(Task)]
    <3>1. CASE Issue(r)
      BY <3>1, IssueQueue
    <3>2. CASE ~Issue(r)
      BY <1>2, <3>2
      DEF Shapes, Host, BuildLocal, Arrive, Meet, CopyToStage, HostReturn, RecvReturn,
          SendReturn, Returns, Destroy, Exit, PeerGone
    <3>3. QED
      BY <3>1, <3>2
  <2>4. next' \in [Ranks -> Nat] /\ \A s \in Ranks : 1 <= next'[s] /\ next'[s] <= Len(program) + 1
    <3>1. Len(program) \in Nat
      BY DEF Shapes
    <3>2. ASSUME next' = [next EXCEPT ![r] = next[r] + 1], next[r] <= Len(program)
          PROVE  /\ next' \in [Ranks -> Nat]
                 /\ \A s \in Ranks : 1 <= next'[s] /\ next'[s] <= Len(program) + 1
      BY <3>1, <3>2 DEF Shapes
    <3>3. CASE Issue(r)
      BY <3>2, <3>3 DEF Issue, Shapes
    <3>4. CASE HostReturn(r) \/ RecvReturn(r) \/ SendReturn(r)
      <4>1. next' = [next EXCEPT ![r] = next[r] + 1] /\ pc[r] = "waiting"
        BY <3>4 DEF HostReturn, RecvReturn, SendReturn, Returns
      <4>2. QED
        BY <3>2, <4>1 DEF Shapes
    <3>5. CASE ~Issue(r) /\ ~HostReturn(r) /\ ~RecvReturn(r) /\ ~SendReturn(r)
      BY <1>2, <3>5
      DEF Shapes, Host, BuildLocal, Arrive, Meet, CopyToStage, Destroy, Exit, PeerGone
    <3>6. QED
      BY <3>3, <3>4, <3>5
  <2>5. ASSUME NEW s \in Ranks, pc'[s] \in {"copying", "waiting"}
        PROVE  next'[s] <= Len(program)
    <3>1. CASE s # r
      BY <1>2, <2>5, <3>1, HostIsLocal DEF Shapes
    <3>2. CASE s = r
      <4>1. \/ pc[r] \in {"copying", "waiting"} /\ next'[r] = next[r]
            \/ Issue(r) /\ pc'[r] = "copying"
        BY <1>2, <2>5, <3>2
        DEF Shapes, Host, BuildLocal, Arrive, Meet, Pass, Raise, Issue, CopyToStage,
            HostReturn, RecvReturn, SendReturn, Returns, Destroy, Exit, PeerGone
      <4>2. Issue(r) /\ pc'[r] = "copying" => next'[r] = next[r] /\ next[r] <= Len(program)
        BY DEF Issue, Shapes, Raise
      <4>3. QED
        BY <3>2, <4>1, <4>2 DEF Shapes
    <3>3. QED
      BY <3>1, <3>2
  <2>6. left' \in [Ranks -> Nat]
    BY <1>2
    DEF Shapes, Host, BuildLocal, Arrive, Meet, Issue, CopyToStage, HostReturn,
        RecvReturn, SendReturn, Returns, Destroy, Exit, PeerGone, construction
  <2>7. open' \in [Ranks -> SUBSET {"d3d12", "rccl", "shm"}]
    <3>1. \/ open' = open \/ open' = [open EXCEPT ![r] = Backends]
          \/ open' = [open EXCEPT ![r] = @ \ {DestroySteps[left[r] + 1]}]
      BY <1>2
      DEF Host, BuildLocal, Arrive, Meet, Pass, Issue, CopyToStage, HostReturn,
          RecvReturn, SendReturn, Returns, Destroy, Exit, PeerGone, construction
    <3>2. open \in [Ranks -> SUBSET {"d3d12", "rccl", "shm"}]
      BY DEF Shapes
    <3>3. Backends \in SUBSET {"d3d12", "rccl", "shm"}
      BY DEF Backends
    <3>4. QED
      BY <3>1, <3>2, <3>3
  <2>8. QED
    BY <1>1, <2>1, <2>2, <2>3, <2>4, <2>5, <2>6, <2>7 DEF Shapes, Fixed
<1>3. ASSUME NEW r \in Ranks, Stream(r) PROVE Shapes'
  <2>1. /\ UNCHANGED <<program, pc, next, left, open>>
        /\ queue[r] # <<>> /\ (queue' = queue \/ queue' = [queue EXCEPT ![r] = Tail(@)])
    BY <1>3 DEF Stream, engine, construction
  <2>2. queue[r] \in Seq(Task) /\ Tail(queue[r]) \in Seq(Task)
    BY <2>1 DEF Shapes
  <2>3. queue' \in [Ranks -> Seq(Task)]
    BY <2>1, <2>2 DEF Shapes
  <2>4. QED
    BY <1>1, <2>1, <2>3 DEF Shapes, Fixed
<1>4. ASSUME NEW b \in Blocks, Schedule(b) PROVE Shapes'
  <2>1. /\ UNCHANGED <<pc, next, queue, left, open>>
        /\ program' = program \o b /\ Len(program) + Len(b) <= Length
        /\ \A i \in DOMAIN b :
             b[i].root < setting.world /\ (IsHop(b[i]) => setting.world > 1)
    BY <1>4 DEF Schedule, construction
  <2>2. b \in Seq(CallType) /\ program \in Seq(CallType)
    BY VllmAssumption DEF Shapes
  <2>3. /\ program' \in Seq(CallType) /\ Len(program') = Len(program) + Len(b)
        /\ Len(program) \in Nat /\ Len(b) \in Nat
    BY <2>1, <2>2
  <2>4. ASSUME NEW k \in 1..Len(program')
        PROVE  /\ program'[k].root < setting.world
               /\ IsHop(program'[k]) => setting.world > 1
    <3>1. CASE k <= Len(program)
      <4>1. program'[k] = program[k]
        BY <2>1, <2>2, <2>3, <3>1
      <4>2. QED
        BY <2>3, <3>1, <4>1 DEF Shapes
    <3>2. CASE k > Len(program)
      <4>1. program'[k] = b[k - Len(program)] /\ k - Len(program) \in DOMAIN b
        BY <2>1, <2>2, <2>3, <3>2
      <4>2. QED
        BY <2>1, <4>1
    <3>3. QED
      BY <2>3, <3>1, <3>2
  <2>5. \A r \in Ranks :
          /\ 1 <= next[r] /\ next[r] <= Len(program') + 1
          /\ pc[r] \in {"copying", "waiting"} => next[r] <= Len(program')
    BY <2>3 DEF Shapes
  <2>6. QED
    BY <1>1, <2>1, <2>3, <2>4, <2>5 DEF Shapes, Fixed, IsHop
<1>5. ASSUME UNCHANGED <<program, pc, next, queue, left, open>> PROVE Shapes'
  BY <1>1, <1>5 DEF Shapes, Fixed
<1>6. ASSUME Stop \/ UNCHANGED vars PROVE Shapes'
  BY <1>5, <1>6 DEF Stop, vars, engine, construction
<1>7. QED
  BY <1>2, <1>3, <1>4, <1>6 DEF Next

\* A rank that does not move, in a group that does not go back.
LEMMA StillDeparture ==
  ASSUME Shapes, NEW r \in Ranks, Departure(r), Fixed,
         pc'[r] = pc[r], next'[r] = next[r], queue'[r] = queue[r],
         left'[r] = left[r], open'[r] = open[r],
         (program' = program /\ stop' = stop) \/ left[r] = 0,
         \A s \in Ranks : left[s] >= 1 => left'[s] >= 1
  PROVE  Departure(r)'
  BY DEF Departure, Fixed, Shapes

\* Every step of destroy waits for what it must wait for.
LEMMA DestroyKeeps ==
  ASSUME DInv, Fixed, NEW r \in Ranks, Destroy(r), left'[r] # left[r],
         UNCHANGED <<program, stop>>
  PROVE  Departure(r)'
<1>1. Shapes /\ Departure(r) /\ left[r] \in Nat /\ open[r] \subseteq {"d3d12", "rccl", "shm"}
  BY DEF DInv, Shapes
<1>2. /\ pc[r] = "idle" /\ stop /\ next[r] > Len(program)
      /\ left[r] + 1 <= Len(DestroySteps)
      /\ DestroySteps[left[r] + 1] = "sync" => queue[r] = <<>>
      /\ DestroySteps[left[r] + 1] = "meet" => \A t \in Ranks : left[t] >= left[r]
      /\ left'[r] = left[r] + 1
      /\ open'[r] = open[r] \ {DestroySteps[left[r] + 1]}
      /\ UNCHANGED <<pc, next, queue>>
      /\ \A t \in Ranks : t # r => left'[t] = left[t]
  BY <1>1 DEF Destroy, Leaving, Shapes
<1>3. queue[r] = <<>>
  <2>1. CASE left[r] = 0
    BY <1>2, <2>1, DestroyOrder
  <2>2. CASE left[r] > 0
    BY <1>1, <2>2 DEF Departure
  <2>3. QED
    BY <1>1, <2>1, <2>2
<1>4. ASSUME HasD3D12 \/ HasShm
      PROVE  /\ left'[r] \in {1, 2} => open'[r] = Backends
             /\ left'[r] >= 2 => \A s \in Ranks : left'[s] >= 1
  <2>1. CASE left[r] = 0
    <3>1. open[r] = Backends /\ DestroySteps[1] = "sync"
      BY <1>1, <1>2, <2>1, DestroyOrder DEF Departure
    <3>2. QED
      BY <1>1, <1>2, <2>1, <3>1
  <2>2. CASE left[r] = 1
    <3>1. open[r] = Backends /\ DestroySteps[2] = "meet"
      BY <1>1, <1>4, <2>2, DestroyOrder DEF Departure
    <3>2. open'[r] = Backends
      BY <1>1, <1>2, <2>2, <3>1
    <3>3. \A s \in Ranks : left'[s] >= 1
      BY <1>2, <2>2, <3>1
    <3>4. QED
      BY <3>2, <3>3
  <2>3. CASE left[r] >= 2
    <3>1. \A s \in Ranks : left[s] >= 1
      BY <1>1, <1>4, <2>3 DEF Departure
    <3>2. QED
      BY <1>1, <1>2, <2>3, <3>1
  <2>4. QED
    BY <1>1, <2>1, <2>2, <2>3
<1>5. QED
  BY <1>1, <1>2, <1>3, <1>4 DEF Departure, Fixed

\* Every step keeps the order of the shutdown.
LEMMA NextDInv == DInv /\ [Next]_vars => DInv'
<1> SUFFICES ASSUME DInv, [Next]_vars PROVE DInv'
  OBVIOUS
<1>1. Shapes /\ Shapes' /\ Fixed
  BY NextShapes, SettingFixed DEF DInv
<1>2. ASSUME NEW r \in Ranks, Host(r), NEW s \in Ranks PROVE Departure(s)'
  <2>1. program' = program /\ stop' = stop
    BY <1>2, HostLeavesEngine
  <2>2. left[r] \in Nat /\ (left'[r] = left[r] \/ left'[r] = left[r] + 1)
    BY <1>1, <1>2
    DEF Shapes, Host, BuildLocal, Arrive, Meet, Issue, CopyToStage, HostReturn,
        RecvReturn, SendReturn, Returns, Destroy, Exit, PeerGone, construction
  <2>3. \A t \in Ranks : left[t] >= 1 => left'[t] >= 1
    <3>1. ASSUME NEW t \in Ranks, left[t] >= 1 PROVE left'[t] >= 1
      <4>1. CASE t = r
        BY <2>2, <3>1, <4>1
      <4>2. CASE t # r
        BY <1>1, <1>2, <3>1, <4>2, HostIsLocal
      <4>3. QED
        BY <4>1, <4>2
    <3>2. QED
      BY <3>1
  <2>4. CASE s # r
    BY <1>1, <1>2, <2>1, <2>3, <2>4, HostIsLocal, StillDeparture DEF DInv
  <2>5. CASE s = r /\ left'[r] # left[r]
    <3>1. Destroy(r)
      BY <1>2, <2>5
      DEF Host, BuildLocal, Arrive, Meet, Issue, CopyToStage, HostReturn,
          RecvReturn, SendReturn, Returns, Exit, PeerGone, construction
    <3>2. QED
      BY <1>1, <2>1, <2>5, <3>1, DestroyKeeps
  <2>6. CASE s = r /\ left'[r] = left[r]
    <3>1. Departure(r) /\ left[r] \in Nat
      BY <2>2 DEF DInv
    <3>2. CASE left[r] > 0
      <4>1. /\ stop /\ next[r] > Len(program) /\ queue[r] = <<>>
            /\ pc[r] \in {"idle", "raised", "done"}
        BY <3>1, <3>2 DEF Departure
      <4>2. Len(program) \in Nat /\ next[r] \in Nat
        BY <1>1 DEF Shapes
      <4>3. /\ next'[r] = next[r] /\ queue'[r] = queue[r] /\ open'[r] = open[r]
            /\ pc'[r] \in {"idle", "raised", "done"}
        BY <1>1, <1>2, <2>6, <4>1, <4>2
        DEF Shapes, Host, BuildLocal, Arrive, Meet, Raise, Issue, CopyToStage,
            HostReturn, RecvReturn, SendReturn, Returns, Destroy, Exit, PeerGone,
            construction
      <4>4. QED
        BY <1>1, <2>1, <2>3, <2>6, <3>1, <3>2, <4>1, <4>3 DEF Departure, Fixed
    <3>3. CASE left[r] = 0
      <4>1. pc'[r] \in {"idle", "copying", "waiting"} =>
              \/ pc[r] \in {"idle", "copying", "waiting"} /\ open'[r] = open[r]
              \/ open'[r] = Backends
        <5>1. CASE BuildLocal(r) \/ Arrive(r) \/ Meet(r) \/ Issue(r) \/ CopyToStage(r)
          BY <1>1, <2>6, <5>1
          DEF Shapes, BuildLocal, Arrive, Meet, Pass, Raise, Issue, CopyToStage,
              construction
        <5>2. CASE HostReturn(r) \/ RecvReturn(r) \/ SendReturn(r) \/ Destroy(r)
                   \/ Exit(r) \/ PeerGone(r)
          BY <1>1, <2>6, <5>2
          DEF Shapes, Raise, HostReturn, RecvReturn, SendReturn, Returns, Destroy, Exit,
              PeerGone, construction
        <5>3. QED
          BY <1>2, <5>1, <5>2 DEF Host
      <4>2. QED
        BY <1>1, <2>6, <3>1, <3>3, <4>1 DEF Departure, Fixed
    <3>4. QED
      BY <3>1, <3>2, <3>3
  <2>7. QED
    BY <2>4, <2>5, <2>6
<1>3. ASSUME NEW r \in Ranks, Stream(r), NEW s \in Ranks PROVE Departure(s)'
  <2>1. /\ UNCHANGED <<program, stop, pc, next, left, open>> /\ queue[r] # <<>>
        /\ \A t \in Ranks : t # r => queue'[t] = queue[t]
    BY <1>1, <1>3 DEF Stream, engine, construction, Shapes
  <2>2. Departure(s)
    BY DEF DInv
  <2>3. left[s] > 0 => queue'[s] = queue[s]
    BY <2>1, <2>2 DEF Departure
  <2>4. QED
    BY <1>1, <2>1, <2>2, <2>3 DEF Departure, Fixed
<1>4. ASSUME NEW b \in Blocks, Schedule(b), NEW s \in Ranks PROVE Departure(s)'
  <2>1. ~stop /\ UNCHANGED <<stop, pc, next, queue, left, open>>
    BY <1>4 DEF Schedule, construction
  <2>2. left[s] = 0 /\ Departure(s)
    BY <1>1, <2>1 DEF DInv, Departure, Shapes
  <2>3. QED
    BY <1>1, <2>1, <2>2, StillDeparture
<1>5. ASSUME Stop, NEW s \in Ranks PROVE Departure(s)'
  <2>1. ~stop /\ UNCHANGED <<program, pc, next, queue, left, open>>
    BY <1>5 DEF Stop, construction
  <2>2. left[s] = 0 /\ Departure(s)
    BY <1>1, <2>1 DEF DInv, Departure, Shapes
  <2>3. QED
    BY <1>1, <2>1, <2>2, StillDeparture
<1>6. ASSUME UNCHANGED vars, NEW s \in Ranks PROVE Departure(s)'
  <2>1. UNCHANGED <<program, stop, pc, next, queue, left, open>> /\ Departure(s)
    BY <1>6 DEF vars, engine, construction, DInv
  <2>2. QED
    BY <1>1, <2>1, StillDeparture
<1>7. \A s \in Ranks : Departure(s)'
  BY <1>2, <1>3, <1>4, <1>5, <1>6 DEF Next
<1>8. QED
  BY <1>1, <1>7 DEF DInv, Fixed

\* No back-end is destroyed while work of the rank's own stream needs it, nor,
\* for the memory a peer's GPU reads, while work of the peer's stream does.
THEOREM BackendsOutliveTheWork == Spec => []NoUseAfterDestroy
<1>1. DInv => NoUseAfterDestroy
  <2> SUFFICES ASSUME DInv, NEW r \in Ranks, NEW s \in Ranks, NEW b \in Backends,
                      left[r] > 0, b \notin open[r], r = s \/ b # "rccl"
               PROVE  queue[s] = <<>>
    BY DEF NoUseAfterDestroy
  <2>1. Departure(r) /\ Departure(s) /\ left[r] \in Nat /\ left[s] \in Nat
    BY DEF DInv, Shapes
  <2>2. CASE r = s
    BY <2>1, <2>2 DEF Departure
  <2>3. CASE b # "rccl"
    <3>1. HasD3D12 \/ HasShm
      BY <2>3 DEF Backends
    <3>2. left[r] \notin {1, 2}
      BY <2>1, <3>1 DEF Departure
    <3>3. left[s] >= 1
      BY <2>1, <3>1, <3>2 DEF Departure
    <3>4. QED
      BY <2>1, <3>3 DEF Departure
  <2>4. QED
    BY <2>2, <2>3
<1>2. QED
  BY <1>1, InitDInv, NextDInv, PTL DEF Spec
-----------------------------------------------------------------------------
(* Which contribution belongs to which call.                               *)

\* Rank r contributes to channel b in its k-th call: of a hop only the sender does.
IsTurn(r, b, k) ==
  Route(r, program[k]) = b /\ (b = "p2p" => IsSend(r, program[k]))

Turns(r, b, k) == {j \in 1..k : IsTurn(r, b, j)}
Count(r, b, k) == Cardinality(Turns(r, b, k))

Contents == {Junk} \cup {Tensor(s, k) : s \in Nat, k \in Nat}

\* A rank's turns among its first k calls.
LEMMA CountStep ==
  ASSUME NEW r, NEW b, NEW k \in Nat \ {0}
  PROVE  /\ Count(r, b, k) \in Nat /\ Count(r, b, k - 1) \in Nat
         /\ IsTurn(r, b, k) => Count(r, b, k) = Count(r, b, k - 1) + 1
         /\ ~IsTurn(r, b, k) => Count(r, b, k) = Count(r, b, k - 1)
<1>1. /\ IsFiniteSet(1..k) /\ Turns(r, b, k) \in SUBSET (1..k)
      /\ Turns(r, b, k - 1) \in SUBSET (1..k) /\ k \notin Turns(r, b, k - 1)
  BY FS_Interval DEF Turns
<1>2. IsFiniteSet(Turns(r, b, k)) /\ IsFiniteSet(Turns(r, b, k - 1))
  BY <1>1, FS_Subset
<1>3. Count(r, b, k) \in Nat /\ Count(r, b, k - 1) \in Nat
  BY <1>2, FS_CardinalityType DEF Count
<1>4. ASSUME IsTurn(r, b, k) PROVE Count(r, b, k) = Count(r, b, k - 1) + 1
  <2>1. Turns(r, b, k) = Turns(r, b, k - 1) \cup {k}
    BY <1>4 DEF Turns
  <2>2. QED
    BY <1>1, <1>2, <2>1, FS_AddElement DEF Count
<1>5. ASSUME ~IsTurn(r, b, k) PROVE Count(r, b, k) = Count(r, b, k - 1)
  <2>1. Turns(r, b, k) = Turns(r, b, k - 1)
    BY <1>5 DEF Turns
  <2>2. QED
    BY <2>1 DEF Count
<1>6. QED
  BY <1>3, <1>4, <1>5

\* A turn is known by its number.
LEMMA TurnUnique ==
  ASSUME NEW r, NEW b, NEW j \in Nat \ {0}, NEW k \in Nat \ {0},
         IsTurn(r, b, j), IsTurn(r, b, k), Count(r, b, j) = Count(r, b, k)
  PROVE  j = k
<1>1. ASSUME NEW m \in Nat \ {0}, NEW n \in Nat \ {0}, m < n, IsTurn(r, b, n),
             Count(r, b, m) = Count(r, b, n)
      PROVE  FALSE
  <2>0. IsFiniteSet(1..n) /\ n \in 1..n /\ n \notin 1..m /\ \A i \in 1..m : i \in 1..n
    BY <1>1, FS_Interval
  <2>1. /\ Turns(r, b, n) \in SUBSET (1..n)
        /\ Turns(r, b, m) \in SUBSET Turns(r, b, n)
        /\ n \in Turns(r, b, n) /\ n \notin Turns(r, b, m)
    BY <1>1, <2>0 DEF Turns
  <2>2. IsFiniteSet(Turns(r, b, n))
    BY <2>0, <2>1, FS_Subset
  <2>3. Turns(r, b, n) = Turns(r, b, m)
    BY <1>1, <2>1, <2>2, FS_Subset DEF Count
  <2>4. QED
    BY <2>1, <2>3
<1>2. j < k \/ k < j \/ j = k
  OBVIOUS
<1>3. QED
  BY <1>1, <1>2

\* All ranks have the same turns, except in a hop.
LEMMA SameTurns ==
  ASSUME NEW r, NEW s, NEW b, b # "p2p", NEW k
  PROVE  /\ IsTurn(r, b, k) <=> IsTurn(s, b, k)
         /\ Count(r, b, k) = Count(s, b, k)
<1>1. ASSUME NEW j PROVE IsTurn(r, b, j) <=> IsTurn(s, b, j)
  BY SameRoute DEF IsTurn
<1>2. Turns(r, b, k) = Turns(s, b, k)
  BY <1>1 DEF Turns
<1>3. QED
  BY <1>1, <1>2 DEF Count

\* The calls made so far stay what they are when the engine schedules more.
Grown ==
  /\ Len(program) \in Nat /\ Len(program') \in Nat /\ Len(program) <= Len(program')
  /\ \A k \in 1..Len(program) : program'[k] = program[k]

\* The routing of a call and the numbers of the turns are settled with the call.
LEMMA GrownTurns ==
  ASSUME Fixed, Grown, NEW r, NEW b, NEW k \in Nat, k <= Len(program)
  PROVE  /\ Count(r, b, k)' = Count(r, b, k)
         /\ k # 0 => Route(r, program[k])' = Route(r, program[k])
         /\ k # 0 => IsTurn(r, b, k)' = IsTurn(r, b, k)
<1>1. ASSUME NEW j \in 1..k
      PROVE  /\ Route(r, program[j])' = Route(r, program[j])
             /\ IsTurn(r, b, j)' = IsTurn(r, b, j)
  <2>1. program'[j] = program[j]
    BY DEF Grown
  <2>2. Route(r, program[j])' = Route(r, program[j])
    BY <2>1 DEF Fixed, Route, CanHandle, IsHop
  <2>3. QED
    BY <2>1, <2>2 DEF IsTurn, IsSend
<1>2. Turns(r, b, k)' = Turns(r, b, k)
  BY <1>1 DEF Turns
<1>3. QED
  BY <1>1, <1>2 DEF Count

\* The same for a step that schedules nothing.
LEMMA SteadyTurns ==
  ASSUME Fixed, program' = program, NEW r
  PROVE  /\ \A k : Route(r, program[k])' = Route(r, program[k])
         /\ \A b, k : IsTurn(r, b, k)' = IsTurn(r, b, k)
         /\ \A b, k : Count(r, b, k)' = Count(r, b, k)
<1>1. \A k : Route(r, program[k])' = Route(r, program[k])
  BY DEF Route, CanHandle, Fixed, IsHop
<1>2. \A b, k : IsTurn(r, b, k)' = IsTurn(r, b, k)
  BY <1>1 DEF IsTurn, IsSend
<1>3. ASSUME NEW b, NEW k PROVE Count(r, b, k)' = Count(r, b, k)
  <2>1. Turns(r, b, k)' = Turns(r, b, k)
    BY <1>2 DEF Turns
  <2>2. QED
    BY <2>1 DEF Count
<1>4. QED
  BY <1>1, <1>2, <1>3

\* The tables of tensors and contributions.
Tables ==
  /\ DOMAIN input = Ranks /\ \A r \in Ranks : DOMAIN input[r] = K
  /\ DOMAIN result = Ranks /\ \A r \in Ranks : DOMAIN result[r] = K
  /\ DOMAIN posts = Channels
  /\ \A b \in Channels : DOMAIN posts[b] = Ranks
  /\ \A b \in Channels, r \in Ranks : posts[b][r] \in Seq(Contents)

\* A host thread only waits in a call that was accepted and that holds it.
Blocked(r) ==
  pc[r] \in {"copying", "waiting"} =>
    ~Refuses(RouteOf(r), CallOf(r)) /\ HoldsHost(RouteOf(r), CallOf(r))

\* The i-th task of a stream: a kernel and its collective follow one another,
\* and the last task belongs to the last call the host made.
TaskInPlace(r, i) ==
  LET q == queue[r]
      k == q[i].k
  IN
  /\ k \in 1..Len(program)
  /\ q[i].task # "kernel" =>
       /\ q[i].task = Route(r, program[k])
       /\ ~HoldsHost(q[i].task, program[k]) /\ ~Refuses(q[i].task, program[k])
  /\ i < Len(q) =>
       IF q[i].task = "kernel" THEN q[i + 1].task # "kernel" /\ q[i + 1].k = k
       ELSE q[i + 1].task = "kernel" /\ q[i + 1].k = k + 1
  /\ i = Len(q) =>
       IF pc[r] = "copying" THEN q[i].task = "kernel" /\ k = next[r]
       ELSE q[i].task # "kernel" /\ k = next[r] - 1

\* The stream of rank r, and the input of the call it has come to.
Queued(r) ==
  /\ pc[r] = "waiting" => queue[r] = <<>>
  /\ \A i \in 1..Len(queue[r]) : TaskInPlace(r, i)
  /\ queue[r] # <<>> /\ queue[r][1].task # "kernel" =>
       input[r][queue[r][1].k] = Tensor(r, queue[r][1].k)
  /\ pc[r] = "copying" /\ queue[r] = <<>> => input[r][next[r]] = Tensor(r, next[r])

\* How much rank r has contributed to channel b.
Posted(r, b) ==
  LET n == Len(posts[b][r]) IN
  /\ queue[r] # <<>> =>
       \/ n = Count(r, b, queue[r][1].k - 1)
       \/ queue[r][1].task = b /\ n = Count(r, b, queue[r][1].k)
  /\ queue[r] = <<>> /\ pc[r] \in {"building", "idle", "copying"} =>
       n = Count(r, b, next[r] - 1)
  /\ pc[r] = "waiting" => n = Count(r, b, next[r])

\* The n-th contribution to a channel is the input of the n-th call routed to it.
Contributions(r, b) ==
  \A n \in 1..Len(posts[b][r]) : \E k \in 1..Len(program) :
    IsTurn(r, b, k) /\ Count(r, b, k) = n /\ posts[b][r][n] = Tensor(r, k)

\* Nothing but the call's own data is ever written to an input.
InputKept(r, k) ==
  \/ input[r][k] \in {Junk, Tensor(r, k)}
  \/ /\ k <= Len(program) /\ program[k].op = "broadcast"
     /\ Route(r, program[k]) = "gloo"
     /\ input[r][k] = Tensor(program[k].root, k)

Work(r) ==
  /\ Blocked(r) /\ Queued(r)
  /\ \A b \in Channels : Posted(r, b) /\ Contributions(r, b)
  /\ \A k \in K : InputKept(r, k)

WInv == DInv /\ Tables /\ \A r \in Ranks : Work(r)

\* What the k-th call has given rank r.
Outcome(r, k) ==
  \/ result[r][k] = Pending
  \/ /\ k <= Len(program) /\ Refuses(Route(r, program[k]), program[k])
     /\ result[r][k] = Refused
  \/ /\ k <= Len(program) /\ ~Refuses(Route(r, program[k]), program[k])
     /\ result[r][k] = Expected(r, k)

\* Every hop out is followed by the hop back, and every hop back follows one.
Paired(p) ==
  \A i \in DOMAIN p :
    /\ p[i].op = "hop_out" => i + 1 \in DOMAIN p /\ p[i + 1].op = "hop_back"
    /\ p[i].op = "hop_back" => i - 1 \in DOMAIN p /\ p[i - 1].op = "hop_out"

RInv == WInv /\ Paired(program) /\ \A r \in Ranks : \A k \in K : Outcome(r, k)

-----------------------------------------------------------------------------
(* What each step does to the rank that takes it, and that it leaves the   *)
(* others alone.                                                           *)

\* The part of the state that Work(r) is about.
Same(r) ==
  /\ pc'[r] = pc[r] /\ next'[r] = next[r] /\ queue'[r] = queue[r]
  /\ input'[r] = input[r]
  /\ \A b \in Channels : posts'[b][r] = posts[b][r]

\* A step of another rank, of the engine, or none at all.
LEMMA StillWork ==
  ASSUME Shapes, Tables, Fixed, Grown, NEW r \in Ranks, Work(r), Same(r)
  PROVE  Work(r)'
<1>0. /\ next[r] \in Nat /\ 1 <= next[r] /\ next[r] <= Len(program) + 1
      /\ pc[r] \in {"copying", "waiting"} => next[r] <= Len(program)
      /\ next[r] - 1 \in Nat /\ next[r] - 1 <= Len(program) /\ Len(program) \in Nat
      /\ queue[r] \in Seq(Task)
  BY DEF Shapes, Grown
<1>1. ASSUME NEW k \in Nat \ {0}, k <= Len(program)
      PROVE  /\ program'[k] = program[k] /\ k <= Len(program')
             /\ Route(r, program[k])' = Route(r, program[k])
  <2>1. Count(r, "gloo", k)' = Count(r, "gloo", k) /\ Route(r, program[k])' = Route(r, program[k])
    BY <1>1, GrownTurns
  <2>2. QED
    BY <1>1, <2>1 DEF Grown
<1>2. ASSUME NEW b \in Channels, NEW k \in Nat, k <= Len(program)
      PROVE  /\ Count(r, b, k)' = Count(r, b, k)
             /\ k # 0 => IsTurn(r, b, k)' = IsTurn(r, b, k)
  BY <1>2, GrownTurns
<1>3. Blocked(r)'
  <2>1. SUFFICES ASSUME pc[r] \in {"copying", "waiting"} PROVE Blocked(r)'
    BY DEF Blocked, Same
  <2>2. /\ program'[next[r]] = program[next[r]] /\ next'[r] = next[r]
        /\ Route(r, program[next[r]])' = Route(r, program[next[r]])
    BY <1>0, <1>1, <2>1 DEF Same
  <2>3. QED
    BY <2>1, <2>2
    DEF Blocked, Work, RouteOf, CallOf, Refuses, HoldsHost, RcclRefuses, GlooRefuses,
        D3D12Refuses, ShmRefuses, Same
<1>4. Queued(r)'
  <2>1. ASSUME NEW i \in 1..Len(queue[r]) PROVE TaskInPlace(r, i)'
    <3>1. TaskInPlace(r, i) /\ queue[r][i].k \in 1..Len(program)
      BY DEF Work, Queued, TaskInPlace
    <3>2. /\ program'[queue[r][i].k] = program[queue[r][i].k]
          /\ queue[r][i].k \in 1..Len(program')
          /\ Route(r, program[queue[r][i].k])' = Route(r, program[queue[r][i].k])
      <4>1. PICK k \in Nat \ {0} : k = queue[r][i].k /\ k <= Len(program)
        BY <1>0, <3>1
      <4>2. /\ program'[k] = program[k] /\ k <= Len(program')
            /\ Route(r, program[k])' = Route(r, program[k])
        BY <1>1, <4>1
      <4>3. queue'[r] = queue[r] /\ Len(program') \in Nat
        BY DEF Same, Grown
      <4>4. QED
        BY <4>1, <4>2, <4>3
    <3>3. QED
      BY <3>1, <3>2
      DEF TaskInPlace, Same, Refuses, HoldsHost, RcclRefuses, GlooRefuses,
          D3D12Refuses, ShmRefuses
  <2>2. QED
    BY <2>1 DEF Work, Queued, Same, Tensor
<1>5. ASSUME NEW b \in Channels PROVE Posted(r, b)'
  <2>1. Posted(r, b) /\ posts'[b][r] = posts[b][r]
    BY DEF Work, Same
  <2>2. Count(r, b, next[r] - 1)' = Count(r, b, next[r] - 1)
    BY <1>0, <1>2 DEF Same
  <2>3. pc[r] = "waiting" => Count(r, b, next[r])' = Count(r, b, next[r])
    BY <1>0, <1>2 DEF Same
  <2>4. ASSUME queue[r] # <<>>
        PROVE  /\ Count(r, b, queue[r][1].k)' = Count(r, b, queue[r][1].k)
               /\ Count(r, b, queue[r][1].k - 1)' = Count(r, b, queue[r][1].k - 1)
    <3>1. TaskInPlace(r, 1)
      BY <1>0, <2>4 DEF Work, Queued
    <3>2. PICK k \in Nat \ {0} : k = queue[r][1].k /\ k <= Len(program)
      BY <1>0, <3>1 DEF TaskInPlace
    <3>3. Count(r, b, k)' = Count(r, b, k) /\ Count(r, b, k - 1)' = Count(r, b, k - 1)
      BY <1>0, <1>2, <3>2
    <3>4. queue'[r] = queue[r]
      BY DEF Same
    <3>5. QED
      BY <3>2, <3>3, <3>4
  <2>5. QED
    BY <2>1, <2>2, <2>3, <2>4 DEF Posted, Same
<1>6. ASSUME NEW b \in Channels PROVE Contributions(r, b)'
  <2>1. SUFFICES ASSUME NEW n \in 1..Len(posts[b][r])
                 PROVE  \E k \in 1..Len(program') :
                          /\ IsTurn(r, b, k)' /\ Count(r, b, k)' = n
                          /\ posts[b][r][n] = Tensor(r, k)
    BY DEF Contributions, Same, Tensor
  <2>2. PICK k \in 1..Len(program) :
          IsTurn(r, b, k) /\ Count(r, b, k) = n /\ posts[b][r][n] = Tensor(r, k)
    BY DEF Work, Contributions
  <2>3. k \in Nat /\ k # 0 /\ k <= Len(program) /\ k \in 1..Len(program')
    BY <1>0 DEF Grown
  <2>4. QED
    BY <1>2, <2>2, <2>3
<1>7. ASSUME NEW k \in K PROVE InputKept(r, k)'
  <2>1. InputKept(r, k) /\ k \in Nat /\ k # 0
    BY VllmAssumption DEF Work, K
  <2>2. QED
    BY <1>1, <2>1 DEF InputKept, Same, Tensor
<1>8. QED
  BY <1>3, <1>4, <1>5, <1>6, <1>7 DEF Work, K

\* Every step leaves the calls made so far alone.
LEMMA NextGrown ==
  ASSUME Shapes, [Next]_vars
  PROVE  Grown
<1>1. Len(program) \in Nat /\ program \in Seq(CallType)
  BY DEF Shapes
<1>2. ASSUME program' = program PROVE Grown
  BY <1>1, <1>2 DEF Grown
<1>3. ASSUME NEW b \in Blocks, Schedule(b) PROVE Grown
  <2>1. program' = program \o b /\ b \in Seq(CallType)
    BY <1>3, VllmAssumption DEF Schedule
  <2>2. Len(program') = Len(program) + Len(b) /\ Len(b) \in Nat
    BY <1>1, <2>1
  <2>3. \A k \in 1..Len(program) : program'[k] = program[k]
    BY <1>1, <2>1
  <2>4. QED
    BY <1>1, <2>2, <2>3 DEF Grown
<1>4. ASSUME NEW r \in Ranks, Host(r) \/ Stream(r) PROVE Grown
  BY <1>2, <1>4, HostLeavesEngine
<1>5. ASSUME Stop \/ UNCHANGED vars PROVE Grown
  BY <1>2, <1>5 DEF Stop, vars, engine
<1>6. QED
  BY <1>3, <1>4, <1>5 DEF Next

\* A step of the host that concerns neither the stream nor an input.
Quiet(r) ==
  /\ UNCHANGED <<next, queue, input, posts>>
  /\ pc[r] # "copying"
  /\ \/ pc'[r] = pc[r] \/ pc'[r] \in {"raised", "done"}
     \/ pc[r] = "building" /\ pc'[r] = "idle"

LEMMA HostSteps ==
  ASSUME Shapes, NEW r \in Ranks, Host(r)
  PROVE  Issue(r) \/ CopyToStage(r) \/ HostReturn(r) \/ RecvReturn(r) \/ SendReturn(r)
         \/ (Quiet(r) /\ result' = result)
<1>1. pc[r] \in {"building", "idle", "copying", "waiting", "raised", "done"} /\ r \in DOMAIN pc
  BY DEF Shapes
<1>2. CASE BuildLocal(r) \/ Arrive(r) \/ Meet(r)
  BY <1>1, <1>2 DEF BuildLocal, Arrive, Meet, Pass, Raise, Quiet, tensors
<1>3. CASE Destroy(r) \/ Exit(r)
  BY <1>1, <1>3 DEF Destroy, Exit, Raise, Leaving, Quiet, tensors
<1>4. CASE PeerGone(r)
  <2>1. WaitsFor(r) # {}
    BY <1>4 DEF PeerGone
  <2>2. pc[r] # "copying"
    BY <2>1 DEF WaitsFor, Leaving
  <2>3. QED
    BY <1>1, <1>4, <2>2 DEF PeerGone, Raise, Quiet, tensors
<1>5. QED
  BY <1>2, <1>3, <1>4 DEF Host

\* It changes nothing that Work(r) speaks of.
LEMMA QuietWork ==
  ASSUME Shapes, Tables, Fixed, NEW r \in Ranks, Work(r), Quiet(r), program' = program
  PROVE  Work(r)'
<1>1. Grown
  BY DEF Shapes, Grown
<1>2. ASSUME pc'[r] = pc[r] PROVE Work(r)'
  BY <1>1, <1>2, StillWork DEF Same, Quiet
<1>3. \A b, k : Count(r, b, k)' = Count(r, b, k) /\ IsTurn(r, b, k)' = IsTurn(r, b, k)
  BY SteadyTurns
<1>4. \A k : Route(r, program[k])' = Route(r, program[k])
  BY SteadyTurns
<1>5. CASE pc'[r] # pc[r]
  <2>1. /\ pc'[r] \notin {"copying", "waiting"} /\ pc[r] # "copying"
        /\ pc'[r] \in {"building", "idle"} => pc[r] = "building"
        /\ UNCHANGED <<next, queue, input, posts>>
    BY <1>5 DEF Quiet
  <2>2. Blocked(r)'
    BY <2>1 DEF Blocked
  <2>3. Queued(r)'
    <3>1. ASSUME NEW i \in 1..Len(queue[r]) PROVE TaskInPlace(r, i)'
      BY <1>4, <2>1
      DEF Work, Queued, TaskInPlace, Refuses, HoldsHost, RcclRefuses, GlooRefuses,
          D3D12Refuses, ShmRefuses
    <3>2. QED
      BY <2>1, <3>1 DEF Work, Queued, Tensor
  <2>4. ASSUME NEW b \in Channels PROVE Posted(r, b)' /\ Contributions(r, b)'
    <3>1. Posted(r, b) /\ Contributions(r, b)
      BY DEF Work
    <3>2. Posted(r, b)'
      BY <1>3, <2>1, <3>1 DEF Posted
    <3>3. Contributions(r, b)'
      BY <1>3, <2>1, <3>1 DEF Contributions, Tensor
    <3>4. QED
      BY <3>2, <3>3
  <2>5. ASSUME NEW k \in K PROVE InputKept(r, k)'
    BY <1>4, <2>1 DEF Work, InputKept, Tensor
  <2>6. QED
    BY <2>2, <2>3, <2>4, <2>5 DEF Work, K
<1>6. QED
  BY <1>2, <1>5

\* Whether a call is refused and whether it holds the host are settled with it.
LEMMA SteadyCall ==
  ASSUME NEW c, NEW b
  PROVE  Refuses(b, c)' = Refuses(b, c) /\ HoldsHost(b, c)' = HoldsHost(b, c)
  BY DEF Refuses, HoldsHost, RcclRefuses, GlooRefuses, D3D12Refuses, ShmRefuses

\* The work that was on the stream keeps its place when a call is put behind it.
LEMMA Behind ==
  ASSUME Shapes, Fixed, NEW r \in Ranks, pc[r] # "copying", program' = program,
         NEW q, q = queue[r], \A i \in 1..Len(q) : TaskInPlace(r, i),
         queue'[r] \in Seq(Task), Len(queue'[r]) > Len(q),
         \A i \in 1..Len(q) : queue'[r][i] = q[i],
         queue'[r][Len(q) + 1] = Kernel(next[r]),
         NEW i \in 1..Len(q)
  PROVE  TaskInPlace(r, i)'
<1>1. q \in Seq(Task) /\ Len(q) \in Nat /\ i \in Nat /\ 1 <= i /\ i <= Len(q)
      /\ Len(queue'[r]) \in Nat
  BY DEF Shapes
<1>2. \A j : Route(r, program[j])' = Route(r, program[j])
  BY SteadyTurns
<1>3. TaskInPlace(r, i) /\ queue'[r][i] = q[i] /\ i < Len(queue'[r])
  BY <1>1
<1>4. CASE i < Len(q)
  <2>1. queue'[r][i + 1] = q[i + 1]
    BY <1>1, <1>4
  <2>2. QED
    BY <1>1, <1>2, <1>3, <1>4, <2>1, SteadyCall DEF TaskInPlace
<1>5. CASE i = Len(q)
  <2>1. q[i].task # "kernel" /\ q[i].k = next[r] - 1
    BY <1>1, <1>3, <1>5 DEF TaskInPlace
  <2>2. /\ queue'[r][i + 1].task = "kernel" /\ queue'[r][i + 1].k = next[r]
        /\ next[r] \in Nat
    BY <1>5 DEF Kernel, Shapes
  <2>3. QED
    BY <1>1, <1>2, <1>3, <1>5, <2>1, <2>2, SteadyCall DEF TaskInPlace
<1>6. QED
  BY <1>1, <1>4, <1>5

\* A call that is issued is put behind the stream's work.
LEMMA IssueWork ==
  ASSUME Shapes, Shapes', Tables, Fixed, NEW r \in Ranks, Work(r), Issue(r)
  PROVE  Work(r)'
<1>0. PICK k, q, b : k = next[r] /\ q = queue[r] /\ b = Route(r, program[k])
  OBVIOUS
<1>1. /\ pc[r] = "idle" /\ k <= Len(program) /\ program' = program /\ k \in Nat /\ k >= 1
      /\ UNCHANGED <<input, posts>> /\ q \in Seq(Task) /\ Len(q) \in Nat
      /\ Len(program) \in Nat /\ b \in Channels /\ b # "kernel"
  BY <1>0, SameRoute DEF Shapes, Issue, engine, Channels
<1>2. /\ \A x, j : Count(r, x, j)' = Count(r, x, j) /\ IsTurn(r, x, j)' = IsTurn(r, x, j)
      /\ \A j : Route(r, program[j])' = Route(r, program[j])
  BY <1>1, SteadyTurns
<1>3. ASSUME pc' = [pc EXCEPT ![r] = "raised"], next' = next, queue' = queue PROVE Work(r)'
  <2>1. Quiet(r)
    BY <1>1, <1>3 DEF Quiet, Shapes
  <2>2. QED
    BY <1>1, <2>1, QuietWork
<1>4. \A x \in Channels : Posted(r, x) /\ Contributions(r, x)
  BY DEF Work
<1>5. \A x \in Channels : Contributions(r, x)'
  BY <1>1, <1>2, <1>4 DEF Contributions, Tensor
<1>6. \A j \in K' : InputKept(r, j)'
  BY <1>1, <1>2 DEF Work, InputKept, Tensor, K
<1>7. \A i \in 1..Len(q) : TaskInPlace(r, i)
  BY <1>0 DEF Work, Queued
<1>8. /\ Kernel(k).task = "kernel" /\ Kernel(k).k = k
      /\ Collective(b, k).task = b /\ Collective(b, k).k = k
      /\ k \in 1..Len(program')
  BY <1>1 DEF Kernel, Collective
\* the head of the stream, and what was contributed so far
<1>9. ASSUME queue'[r] # <<>>, Len(q) > 0 => queue'[r][1] = q[1],
             Len(q) = 0 => queue'[r][1] = Kernel(k), pc'[r] # "waiting"
      PROVE  /\ \A x \in Channels : Posted(r, x)'
             /\ queue'[r][1].task # "kernel" =>
                  input'[r][queue'[r][1].k] = Tensor(r, queue'[r][1].k)
  <2>1. CASE Len(q) = 0
    <3>1. q = <<>>
      BY <1>1, <2>1
    <3>2. queue'[r][1].task = "kernel" /\ queue'[r][1].k = k
      BY <1>8, <1>9, <2>1
    <3>3. ASSUME NEW x \in Channels PROVE Posted(r, x)'
      <4>1. Len(posts[x][r]) = Count(r, x, k - 1)
        BY <1>0, <1>1, <1>4, <3>1 DEF Posted
      <4>2. QED
        BY <1>1, <1>2, <1>9, <3>2, <4>1 DEF Posted
    <3>4. QED
      BY <3>2, <3>3
  <2>2. CASE Len(q) > 0
    <3>1. q # <<>> /\ queue'[r][1] = q[1]
      BY <1>1, <1>9, <2>2
    <3>2. ASSUME NEW x \in Channels PROVE Posted(r, x)'
      BY <1>0, <1>1, <1>2, <1>4, <1>9, <3>1 DEF Posted
    <3>3. QED
      BY <1>0, <1>1, <3>1, <3>2 DEF Work, Queued
  <2>3. QED
    BY <1>1, <2>1, <2>2
<1>10. ASSUME ~Refuses(b, program[k]) /\ HoldsHost(b, program[k]),
              pc' = [pc EXCEPT ![r] = "copying"],
              queue' = [queue EXCEPT ![r] = Append(@, Kernel(k))], next' = next
       PROVE  Work(r)'
  <2>1. /\ pc'[r] = "copying" /\ queue'[r] = Append(q, Kernel(k)) /\ next'[r] = k
        /\ queue'[r] \in Seq(Task)
    BY <1>0, <1>10 DEF Shapes, Fixed
  <2>2. /\ Len(queue'[r]) = Len(q) + 1
        /\ \A i \in 1..Len(q) : queue'[r][i] = q[i]
        /\ queue'[r][Len(q) + 1] = Kernel(k)
    BY <1>1, <2>1
  <2>3. Blocked(r)'
    BY <1>0, <1>1, <1>2, <1>10, <2>1, SteadyCall DEF Blocked, RouteOf, CallOf
  <2>4. ASSUME NEW i \in 1..Len(q) PROVE TaskInPlace(r, i)'
    <3>1. Len(queue'[r]) > Len(q) /\ queue'[r][Len(q) + 1] = Kernel(next[r])
      BY <1>0, <1>1, <2>2
    <3>2. pc[r] # "copying" /\ program' = program /\ q = queue[r] /\ queue'[r] \in Seq(Task)
      BY <1>0, <1>1, <2>1
    <3>3. \A j \in 1..Len(q) : queue'[r][j] = q[j]
      BY <2>2
    <3>4. QED
      BY <1>7, <3>1, <3>2, <3>3, Behind
  <2>5. ASSUME NEW i, i = Len(q) + 1 PROVE TaskInPlace(r, i)'
    BY <1>1, <1>8, <2>1, <2>2, <2>5 DEF TaskInPlace
  <2>6. \A i \in 1..Len(queue'[r]) : TaskInPlace(r, i)'
    BY <1>1, <2>2, <2>4, <2>5
  <2>7. /\ queue'[r] # <<>> /\ (Len(q) > 0 => queue'[r][1] = q[1])
        /\ (Len(q) = 0 => queue'[r][1] = Kernel(k))
    BY <1>1, <2>1, <2>2
  <2>8. Queued(r)' /\ \A x \in Channels : Posted(r, x)'
    BY <1>9, <2>1, <2>6, <2>7 DEF Queued, Tensor
  <2>9. QED
    BY <1>5, <1>6, <2>3, <2>8 DEF Work
<1>11. ASSUME ~Refuses(b, program[k]) /\ ~HoldsHost(b, program[k]),
              queue' = [queue EXCEPT ![r] = @ \o <<Kernel(k), Collective(b, k)>>],
              next' = [next EXCEPT ![r] = k + 1], pc' = pc
       PROVE  Work(r)'
  <2>1. /\ pc'[r] = "idle" /\ queue'[r] = q \o <<Kernel(k), Collective(b, k)>>
        /\ next'[r] = k + 1 /\ queue'[r] \in Seq(Task)
    BY <1>0, <1>1, <1>11 DEF Shapes, Fixed
  <2>2. /\ Len(queue'[r]) = Len(q) + 2
        /\ \A i \in 1..Len(q) : queue'[r][i] = q[i]
        /\ queue'[r][Len(q) + 1] = Kernel(k)
        /\ queue'[r][Len(q) + 2] = Collective(b, k)
    BY <1>1, <2>1
  <2>3. Blocked(r)'
    BY <2>1 DEF Blocked
  <2>4. ASSUME NEW i \in 1..Len(q) PROVE TaskInPlace(r, i)'
    <3>1. Len(queue'[r]) > Len(q) /\ queue'[r][Len(q) + 1] = Kernel(next[r])
      BY <1>0, <1>1, <2>2
    <3>2. pc[r] # "copying" /\ program' = program /\ q = queue[r] /\ queue'[r] \in Seq(Task)
      BY <1>0, <1>1, <2>1
    <3>3. \A j \in 1..Len(q) : queue'[r][j] = q[j]
      BY <2>2
    <3>4. QED
      BY <1>7, <3>1, <3>2, <3>3, Behind
  <2>5. ASSUME NEW i, i = Len(q) + 1 PROVE TaskInPlace(r, i)'
    <3>1. queue'[r][i] = Kernel(k) /\ queue'[r][i + 1] = Collective(b, k)
      BY <1>1, <2>2, <2>5
    <3>2. i < Len(queue'[r]) /\ i # Len(queue'[r])
      BY <1>1, <2>2, <2>5
    <3>3. QED
      BY <1>1, <1>8, <3>1, <3>2 DEF TaskInPlace
  <2>6. ASSUME NEW i, i = Len(q) + 2 PROVE TaskInPlace(r, i)'
    <3>1. queue'[r][i] = Collective(b, k) /\ ~(i < Len(queue'[r]))
      BY <1>1, <2>2, <2>6
    <3>2. b = Route(r, program[k])'
      BY <1>0, <1>1, <1>2
    <3>3. /\ queue'[r][i].task = b /\ queue'[r][i].k = k /\ k = next'[r] - 1
          /\ k \in 1..Len(program') /\ program'[k] = program[k] /\ pc'[r] # "copying"
      <4>1. queue'[r][i].task = b /\ queue'[r][i].k = k /\ k \in 1..Len(program')
        BY <1>8, <3>1
      <4>2. k = next'[r] - 1 /\ program'[k] = program[k] /\ pc'[r] # "copying"
        BY <1>1, <2>1
      <4>3. QED
        BY <4>1, <4>2
    <3>4. ~HoldsHost(b, program[k])' /\ ~Refuses(b, program[k])'
      BY <1>1, <1>11, SteadyCall
    <3>5. QED
      BY <1>1, <3>1, <3>2, <3>3, <3>4 DEF TaskInPlace
  <2>7. \A i \in 1..Len(queue'[r]) : TaskInPlace(r, i)'
    <3>1. \A i \in 1..Len(queue'[r]) : i \in 1..Len(q) \/ i = Len(q) + 1 \/ i = Len(q) + 2
      BY <1>1, <2>2
    <3>2. QED
      BY <2>4, <2>5, <2>6, <3>1
  <2>8. /\ queue'[r] # <<>> /\ (Len(q) > 0 => queue'[r][1] = q[1])
        /\ (Len(q) = 0 => queue'[r][1] = Kernel(k))
    BY <1>1, <2>1, <2>2
  <2>9. Queued(r)' /\ \A x \in Channels : Posted(r, x)'
    BY <1>9, <2>1, <2>7, <2>8 DEF Queued, Tensor
  <2>10. QED
    BY <1>5, <1>6, <2>3, <2>9 DEF Work
<1>12. QED
  BY <1>0, <1>3, <1>10, <1>11 DEF Issue, Raise

\* A rank's contribution to a call it has a turn in.
LEMMA ContributionOf ==
  ASSUME Shapes, Tables, NEW s \in Ranks, Work(s), NEW b \in Channels,
         NEW k \in 1..Len(program), IsTurn(s, b, k), Count(s, b, k) <= Len(posts[b][s])
  PROVE  posts[b][s][Count(s, b, k)] = Tensor(s, k)
<1>1. k \in Nat \ {0} /\ Len(posts[b][s]) \in Nat /\ Len(program) \in Nat
  BY DEF Shapes, Tables
<1>2. Count(s, b, k) \in 1..Len(posts[b][s])
  <2>1. /\ Count(s, b, k) \in Nat /\ Count(s, b, k - 1) \in Nat
        /\ Count(s, b, k) = Count(s, b, k - 1) + 1
    BY <1>1, CountStep
  <2>2. QED
    BY <1>1, <2>1
<1>3. PICK j \in 1..Len(program) :
        /\ IsTurn(s, b, j) /\ Count(s, b, j) = Count(s, b, k)
        /\ posts[b][s][Count(s, b, k)] = Tensor(s, j)
  BY <1>2 DEF Work, Contributions
<1>4. j \in Nat \ {0}
  BY <1>1
<1>5. j = k
  BY <1>1, <1>3, <1>4, TurnUnique
<1>6. QED
  BY <1>3, <1>5

\* A contribution made in its turn.
LEMMA Contribute ==
  ASSUME Shapes, Tables, Fixed, program' = program, NEW r \in Ranks, NEW b \in Channels,
         Contributions(r, b), NEW k \in 1..Len(program), IsTurn(r, b, k),
         Len(posts[b][r]) = Count(r, b, k - 1),
         posts'[b][r] = Append(posts[b][r], Tensor(r, k))
  PROVE  Contributions(r, b)' /\ Len(posts'[b][r]) = Count(r, b, k)
<1>1. PICK p, n : p = posts[b][r] /\ n = Len(p)
  OBVIOUS
<1>2. p \in Seq(Contents) /\ n \in Nat /\ k \in Nat \ {0}
  BY <1>1 DEF Tables, Shapes
<1>3. Count(r, b, k) = n + 1
  BY <1>1, <1>2, CountStep
<1>4. k \in Nat /\ r \in Nat
  BY <1>2, World DEF Shapes
<1>5. Tensor(r, k) \in Contents
  BY <1>4 DEF Contents
<1>6. /\ Len(posts'[b][r]) = n + 1 /\ posts'[b][r][n + 1] = Tensor(r, k)
      /\ \A i \in 1..n : posts'[b][r][i] = p[i]
  BY <1>1, <1>2, <1>5
<1>7. ASSUME NEW i \in 1..Len(posts'[b][r])
      PROVE  \E j \in 1..Len(program') :
               IsTurn(r, b, j)' /\ Count(r, b, j)' = i /\ posts'[b][r][i] = Tensor(r, j)
  <2>1. \A x : IsTurn(r, b, x)' = IsTurn(r, b, x) /\ Count(r, b, x)' = Count(r, b, x)
    BY SteadyTurns
  <2>2. CASE i \in 1..n
    <3>1. PICK j \in 1..Len(program) :
            IsTurn(r, b, j) /\ Count(r, b, j) = i /\ p[i] = Tensor(r, j)
      BY <1>1, <2>2 DEF Contributions
    <3>2. QED
      BY <1>6, <2>1, <2>2, <3>1
  <2>3. CASE i = n + 1
    BY <1>3, <1>6, <2>1, <2>3
  <2>4. QED
    BY <1>2, <1>6, <2>2, <2>3
<1>8. QED
  BY <1>3, <1>6, <1>7 DEF Contributions, Tensor

\* The call a rank is in, and the turns it takes in it.
LEMMA TurnOfCall ==
  ASSUME NEW r, NEW k, NEW b
  PROVE  /\ Route(r, program[k]) # b => ~IsTurn(r, b, k)
         /\ Route(r, program[k]) = "p2p" <=> IsHop(program[k])
         /\ IsHop(program[k]) /\ ~IsSend(r, program[k]) => ~IsTurn(r, b, k)
         /\ Route(r, program[k]) = b /\ ~(IsHop(program[k]) /\ ~IsSend(r, program[k])) =>
              IsTurn(r, b, k)
<1>1. Route(r, program[k]) = "p2p" <=> IsHop(program[k])
  <2>1. CASE IsHop(program[k])
    BY <2>1 DEF Route, IsHop
  <2>2. CASE ~IsHop(program[k])
    BY <2>2 DEF Route
  <2>3. QED
    BY <2>1, <2>2
<1>2. QED
  BY <1>1 DEF IsTurn

\* The host thread stages its input and contributes it.
LEMMA CopyWork ==
  ASSUME Shapes, Shapes', Tables, Fixed, NEW r \in Ranks, Work(r), CopyToStage(r)
  PROVE  Work(r)'
<1>0. PICK k, b : k = next[r] /\ b = Route(r, program[k])
  OBVIOUS
<1>1. /\ pc[r] = "copying" /\ queue[r] = <<>> /\ pc'[r] = "waiting"
      /\ UNCHANGED <<program, next, queue, input>>
      /\ k \in Nat \ {0} /\ k \in 1..Len(program) /\ b \in Channels
  BY <1>0, SameRoute DEF CopyToStage, CopiesInOrder, engine, Shapes
<1>2. input[r][k] = Tensor(r, k)
  BY <1>0, <1>1 DEF Work, Queued
<1>3. /\ \A x, j : Count(r, x, j)' = Count(r, x, j) /\ IsTurn(r, x, j)' = IsTurn(r, x, j)
      /\ \A j : Route(r, program[j])' = Route(r, program[j])
  BY <1>1, SteadyTurns
<1>4. \A x \in Channels : Len(posts[x][r]) = Count(r, x, k - 1) /\ Contributions(r, x)
  BY <1>0, <1>1 DEF Work, Posted
<1>5. Blocked(r)'
  <2>1. ~Refuses(b, program[k]) /\ HoldsHost(b, program[k])
    BY <1>0, <1>1 DEF Work, Blocked, RouteOf, CallOf
  <2>2. QED
    BY <1>0, <1>1, <1>3, <2>1, SteadyCall DEF Blocked, RouteOf, CallOf
<1>6. Queued(r)'
  <2>1. Len(queue'[r]) = 0 /\ queue'[r] = <<>>
    BY <1>1
  <2>2. QED
    BY <1>1, <2>1 DEF Queued
<1>7. \A j \in K' : InputKept(r, j)'
  BY <1>1, <1>3 DEF Work, InputKept, Tensor, K
<1>8. ASSUME NEW x \in Channels
      PROVE  Contributions(r, x)' /\ Len(posts'[x][r]) = Count(r, x, k)
  <2>1. CASE IsTurn(r, x, k)
    <3>1. x = b /\ ~(IsHop(program[k]) /\ ~IsSend(r, program[k]))
      BY <1>0, <2>1, TurnOfCall
    <3>2. posts'[x][r] = Append(posts[x][r], Tensor(r, k))
      BY <1>0, <1>1, <1>2, <3>1 DEF CopyToStage, CallOf, RouteOf, Tables
    <3>3. QED
      BY <1>1, <1>4, <2>1, <3>2, Contribute
  <2>2. CASE ~IsTurn(r, x, k)
    <3>1. posts'[x][r] = posts[x][r]
      <4>1. x # b \/ (IsHop(program[k]) /\ ~IsSend(r, program[k]))
        BY <1>0, <2>2, TurnOfCall
      <4>2. QED
        BY <1>0, <4>1 DEF CopyToStage, CallOf, RouteOf, Tables
    <3>2. Count(r, x, k) = Count(r, x, k - 1)
      BY <1>1, <2>2, CountStep
    <3>3. QED
      BY <1>1, <1>3, <1>4, <3>1, <3>2 DEF Contributions, Tensor
  <2>3. QED
    BY <2>1, <2>2
<1>9. ASSUME NEW x \in Channels PROVE Posted(r, x)'
  BY <1>0, <1>1, <1>3, <1>8 DEF Posted
<1>10. QED
  BY <1>5, <1>6, <1>7, <1>8, <1>9 DEF Work

\* What a host-staged collective finds in the channel: the inputs of its own call.
LEMMA HostValues ==
  ASSUME Shapes, Tables, \A s \in Ranks : Work(s), NEW r \in Ranks, pc[r] = "waiting",
         ~IsHop(CallOf(r)), NEW s \in Ranks,
         Len(posts[RouteOf(r)][s]) >= Len(posts[RouteOf(r)][r])
  PROVE  posts[RouteOf(r)][s][Len(posts[RouteOf(r)][r])] = Tensor(s, next[r])
<1>0. PICK k, b : k = next[r] /\ b = RouteOf(r)
  OBVIOUS
<1>1. /\ k \in 1..Len(program) /\ b = Route(r, program[k]) /\ b \in Channels
      /\ ~IsHop(program[k])
  BY <1>0, SameRoute DEF Shapes, RouteOf, CallOf
<1>2. b # "p2p" /\ IsTurn(r, b, k)
  BY <1>1, TurnOfCall
<1>3. IsTurn(s, b, k) /\ Count(s, b, k) = Count(r, b, k)
  BY <1>2, SameTurns
<1>4. Len(posts[b][r]) = Count(r, b, k)
  BY <1>0, <1>1 DEF Work, Posted
<1>5. Len(posts[b][s]) \in Nat /\ Len(posts[b][r]) \in Nat
  BY <1>1 DEF Tables
<1>6. Count(s, b, k) <= Len(posts[b][s])
  BY <1>0, <1>3, <1>4, <1>5
<1>7. posts[b][s][Count(s, b, k)] = Tensor(s, k)
  BY <1>1, <1>3, <1>6, ContributionOf
<1>8. QED
  BY <1>0, <1>3, <1>4, <1>7

\* The blocking call returns: of the tensors only a broadcast's argument changes.
LEMMA ReturnWork ==
  ASSUME Shapes, Shapes', Tables, Fixed, \A s \in Ranks : Work(s), NEW r \in Ranks,
         HostReturn(r) \/ RecvReturn(r) \/ SendReturn(r)
  PROVE  Work(r)'
<1>0. PICK k, c : k = next[r] /\ c = program[k]
  OBVIOUS
<1>1. /\ pc[r] = "waiting" /\ pc'[r] = "idle" /\ next'[r] = k + 1
      /\ UNCHANGED <<program, queue, posts>>
      /\ k \in Nat \ {0} /\ k \in 1..Len(program) /\ k \in K /\ Work(r)
  <2>1. /\ pc[r] = "waiting" /\ pc'[r] = "idle" /\ next'[r] = k + 1
        /\ k \in 1..Len(program) /\ UNCHANGED <<program, queue, posts>>
    BY <1>0 DEF HostReturn, RecvReturn, SendReturn, Returns, engine, Shapes
  <2>2. Len(program) \in Nat /\ k \in Nat \ {0} /\ k \in K
    BY <1>0, <2>1, VllmAssumption DEF Shapes, K
  <2>3. QED
    BY <2>1, <2>2
<1>2. queue[r] = <<>> /\ Len(queue[r]) = 0
  BY <1>1 DEF Work, Queued
<1>3. /\ \A x, j : Count(r, x, j)' = Count(r, x, j) /\ IsTurn(r, x, j)' = IsTurn(r, x, j)
      /\ \A j : Route(r, program[j])' = Route(r, program[j])
  BY <1>1, SteadyTurns
<1>4. Blocked(r)' /\ Queued(r)'
  BY <1>1, <1>2 DEF Blocked, Queued
<1>5. ASSUME NEW x \in Channels PROVE Posted(r, x)' /\ Contributions(r, x)'
  <2>1. Len(posts[x][r]) = Count(r, x, k) /\ Contributions(r, x)
    BY <1>0, <1>1 DEF Work, Posted
  <2>2. k + 1 - 1 = k
    BY <1>1
  <2>3. Posted(r, x)'
    BY <1>1, <1>2, <1>3, <2>1, <2>2 DEF Posted
  <2>4. Contributions(r, x)'
    BY <1>1, <1>3, <2>1 DEF Contributions, Tensor
  <2>5. QED
    BY <2>3, <2>4
<1>6. ASSUME NEW j \in K' PROVE InputKept(r, j)'
  <2>0. j \in K /\ InputKept(r, j) /\ j \in Nat
    BY <1>1, <1>6, VllmAssumption DEF Work, K
  <2>1. CASE input'[r][j] = input[r][j]
    BY <1>1, <1>3, <2>0, <2>1 DEF InputKept, Tensor
  <2>2. CASE input'[r][j] # input[r][j]
    <3>1. /\ HostReturn(r) /\ WrittenBack(c) /\ j = k
          /\ input'[r][k] = HostResult(r, c, [s \in Needed(r, c) |->
                              posts[RouteOf(r)][s][Len(posts[RouteOf(r)][r])]])
      BY <1>0, <2>0, <2>2 DEF HostReturn, RecvReturn, SendReturn, Tables, CallOf
    <3>2. c.op = "broadcast" /\ Needed(r, c) = {r, c.root} /\ c.root \in Ranks
      <4>1. c.op = "broadcast" /\ Needed(r, c) = {r, c.root}
        BY <3>1 DEF WrittenBack, Needed
      <4>2. c \in CallType /\ c.root < setting.world /\ setting.world \in Nat
        BY <1>0, <1>1, World DEF Shapes
      <4>3. QED
        BY <4>1, <4>2, World DEF CallType, Shapes
    <3>3. Len(posts[RouteOf(r)][c.root]) >= Len(posts[RouteOf(r)][r])
      BY <1>0, <3>1, <3>2 DEF HostReturn, CallOf
    <3>4. ~IsHop(CallOf(r))
      BY <3>1 DEF HostReturn
    <3>5. posts[RouteOf(r)][c.root][Len(posts[RouteOf(r)][r])] = Tensor(c.root, k)
      BY <1>0, <1>1, <3>2, <3>3, <3>4, HostValues
    <3>6. input'[r][k] = Tensor(c.root, k)
      BY <3>1, <3>2, <3>5 DEF HostResult
    <3>7. Route(r, c) = "gloo"
      <4>1. HoldsHost(Route(r, c), c)
        BY <1>0, <1>1 DEF Work, Blocked, RouteOf, CallOf
      <4>2. QED
        BY <3>2, <4>1 DEF HoldsHost, Route, IsHop
    <3>8. /\ j = k /\ program'[k] = c /\ k <= Len(program')
          /\ Route(r, program[k])' = "gloo"
      BY <1>0, <1>1, <1>3, <3>1, <3>7
    <3>9. QED
      BY <3>2, <3>6, <3>8 DEF InputKept, Tensor
  <2>3. QED
    BY <2>1, <2>2
<1>7. QED
  BY <1>4, <1>5, <1>6 DEF Work

-----------------------------------------------------------------------------
(* The stream.                                                             *)

\* The number of a collective on the stream is that of its turn.
LEMMA StreamCount ==
  ASSUME NEW r, NEW k, NEW b, b # "p2p"
  PROVE  Cardinality({j \in 1..k : Route(r, program[j]) = b}) = Count(r, b, k)
  BY DEF Count, Turns, IsTurn

\* The head of a stream.
LEMMA StreamHead ==
  ASSUME Shapes, NEW r \in Ranks, Work(r), queue[r] # <<>>
  PROVE  /\ Head(queue[r]) = queue[r][1] /\ TaskInPlace(r, 1) /\ pc[r] # "waiting"
         /\ queue[r] \in Seq(Task) /\ Len(queue[r]) \in Nat /\ Len(queue[r]) >= 1
         /\ queue[r][1].k \in 1..Len(program) /\ queue[r][1].k \in Nat \ {0}
         /\ queue[r][1].k \in K
<1>1. queue[r] \in Seq(Task) /\ Len(program) \in Nat /\ Len(program) <= Length /\ Length \in Nat
  BY VllmAssumption DEF Shapes
<1>2. Head(queue[r]) = queue[r][1] /\ Len(queue[r]) \in Nat /\ Len(queue[r]) >= 1
  BY <1>1
<1>3. TaskInPlace(r, 1) /\ pc[r] # "waiting"
  BY <1>2 DEF Work, Queued
<1>4. queue[r][1].k \in 1..Len(program)
  BY <1>3 DEF TaskInPlace
<1>5. QED
  BY <1>1, <1>2, <1>3, <1>4 DEF K

\* The tasks behind the head move up.
LEMMA MoveUp ==
  ASSUME Shapes, Fixed, program' = program, pc' = pc, next' = next, NEW r \in Ranks, Work(r),
         queue[r] # <<>>, queue'[r] = Tail(queue[r])
  PROVE  /\ \A i \in 1..Len(queue'[r]) : TaskInPlace(r, i)'
         /\ Len(queue'[r]) = Len(queue[r]) - 1
         /\ Len(queue[r]) > 1 => queue'[r] # <<>> /\ queue'[r][1] = queue[r][2]
         /\ Len(queue[r]) = 1 => queue'[r] = <<>>
<1>0. PICK q : q = queue[r]
  OBVIOUS
<1>1. q \in Seq(Task) /\ Len(q) \in Nat /\ Len(q) >= 1
  BY <1>0, StreamHead
<1>2. /\ Len(queue'[r]) = Len(q) - 1 /\ queue'[r] \in Seq(Task)
      /\ \A i \in 1..(Len(q) - 1) : queue'[r][i] = q[i + 1]
  BY <1>0, <1>1
<1>3. \A j : Route(r, program[j])' = Route(r, program[j])
  BY SteadyTurns
<1>4. ASSUME NEW i \in 1..Len(queue'[r]) PROVE TaskInPlace(r, i)'
  <2>1. i \in Nat /\ i + 1 \in 1..Len(q) /\ i \in 1..(Len(q) - 1)
    BY <1>1, <1>2
  <2>2. TaskInPlace(r, i + 1) /\ queue'[r][i] = q[i + 1]
    BY <1>0, <1>2, <2>1 DEF Work, Queued
  <2>3. i < Len(queue'[r]) => i + 1 < Len(q) /\ queue'[r][i + 1] = q[(i + 1) + 1]
    BY <1>1, <1>2, <2>1
  <2>4. i = Len(queue'[r]) => i + 1 = Len(q)
    BY <1>1, <1>2, <2>1
  <2>5. QED
    BY <1>0, <1>3, <2>2, <2>3, <2>4, SteadyCall DEF TaskInPlace
<1>5. queue'[r] = <<>> <=> Len(queue'[r]) = 0
  BY <1>2, EmptySeq
<1>6. Len(q) > 1 => queue'[r] # <<>> /\ queue'[r][1] = q[2]
  <2>1. SUFFICES ASSUME Len(q) > 1 PROVE queue'[r] # <<>> /\ queue'[r][1] = q[2]
    OBVIOUS
  <2>2. 1 \in 1..(Len(q) - 1) /\ 1 + 1 = 2 /\ Len(q) - 1 # 0
    <3>1. \A l \in Nat : l > 1 => 1 \in 1..(l - 1) /\ 1 + 1 = 2 /\ l - 1 # 0
      OBVIOUS
    <3>2. PICK l \in Nat : l = Len(q) /\ l > 1
      BY <1>1, <2>1
    <3>3. QED
      BY <3>1, <3>2
  <2>3. QED
    BY <1>2, <1>5, <2>2
<1>7. Len(q) = 1 => queue'[r] = <<>>
  BY <1>1, <1>2, <1>5
<1>8. QED
  BY <1>0, <1>2, <1>4, <1>6, <1>7

\* A kernel fills its input.
LEMMA KernelWork ==
  ASSUME Shapes, Tables, Fixed, NEW r \in Ranks, Work(r), queue[r] # <<>>,
         queue[r][1].task = "kernel",
         input' = [input EXCEPT ![r][queue[r][1].k] = Tensor(r, queue[r][1].k)],
         queue' = [queue EXCEPT ![r] = Tail(@)],
         UNCHANGED <<program, pc, next, posts>>
  PROVE  Work(r)'
<1>0. PICK k, q : q = queue[r] /\ k = q[1].k
  OBVIOUS
<1>1. /\ TaskInPlace(r, 1) /\ pc[r] # "waiting" /\ Len(q) \in Nat /\ Len(q) >= 1
      /\ k \in 1..Len(program) /\ k \in K /\ k \in Nat \ {0}
  BY <1>0, StreamHead
<1>2. queue'[r] = Tail(queue[r])
  BY DEF Shapes
<1>3. /\ \A i \in 1..Len(queue'[r]) : TaskInPlace(r, i)'
      /\ Len(q) > 1 => queue'[r] # <<>> /\ queue'[r][1] = q[2]
      /\ Len(q) = 1 => queue'[r] = <<>>
  BY <1>0, <1>2, MoveUp
<1>4. input'[r][k] = Tensor(r, k) /\ \A j \in K : j # k => input'[r][j] = input[r][j]
  BY <1>0, <1>1 DEF Tables
<1>5. /\ \A x, j : Count(r, x, j)' = Count(r, x, j) /\ IsTurn(r, x, j)' = IsTurn(r, x, j)
      /\ \A j : Route(r, program[j])' = Route(r, program[j])
  BY SteadyTurns
<1>6. /\ Len(q) > 1 => q[2].task # "kernel" /\ q[2].k = k
      /\ Len(q) = 1 => pc[r] = "copying" /\ next[r] = k
  BY <1>0, <1>1 DEF TaskInPlace
<1>60. Len(q) > 1 \/ Len(q) = 1
  <2>1. \A l \in Nat : l >= 1 => l > 1 \/ l = 1
    OBVIOUS
  <2>2. QED
    BY <1>1, <2>1
<1>7. Blocked(r)'
  BY <1>5, SteadyCall DEF Work, Blocked, RouteOf, CallOf
<1>8. Queued(r)'
  <2>1. CASE Len(q) > 1
    <3>1. queue'[r] # <<>> /\ queue'[r][1].task # "kernel" /\ queue'[r][1].k = k
      BY <1>3, <1>6, <2>1
    <3>2. QED
      BY <1>1, <1>3, <1>4, <3>1 DEF Queued, Tensor
  <2>2. CASE Len(q) = 1
    <3>1. queue'[r] = <<>> /\ next'[r] = k
      BY <1>3, <1>6, <2>2
    <3>2. QED
      BY <1>1, <1>3, <1>4, <3>1 DEF Queued, Tensor
  <2>3. QED
    BY <1>60, <2>1, <2>2
<1>9. ASSUME NEW x \in Channels PROVE Posted(r, x)' /\ Contributions(r, x)'
  <2>1. Len(posts[x][r]) = Count(r, x, k - 1) /\ Contributions(r, x)
    BY <1>0 DEF Work, Posted, Channels
  <2>2. Posted(r, x)'
    <3>1. CASE Len(q) > 1
      <4>1. queue'[r] # <<>> /\ queue'[r][1].k = k
        BY <1>3, <1>6, <3>1
      <4>2. QED
        BY <1>1, <1>5, <2>1, <4>1 DEF Posted
    <3>2. CASE Len(q) = 1
      <4>1. queue'[r] = <<>> /\ next'[r] = k
        BY <1>3, <1>6, <3>2
      <4>2. QED
        BY <1>1, <1>5, <2>1, <4>1 DEF Posted
    <3>3. QED
      BY <1>60, <3>1, <3>2
  <2>3. Contributions(r, x)'
    BY <1>5, <2>1 DEF Contributions, Tensor
  <2>4. QED
    BY <2>2, <2>3
<1>10. ASSUME NEW j \in K' PROVE InputKept(r, j)'
  <2>1. j \in K /\ InputKept(r, j)
    BY <1>10 DEF Work, K
  <2>2. QED
    BY <1>4, <1>5, <2>1 DEF InputKept, Tensor
<1>11. QED
  BY <1>7, <1>8, <1>9, <1>10 DEF Work

\* A collective that comes to the head of the stream contributes its input.
LEMMA PostWork ==
  ASSUME Shapes, Tables, Fixed, NEW r \in Ranks, Work(r), queue[r] # <<>>,
         NEW b, b = queue[r][1].task, b # "kernel", NEW k, k = queue[r][1].k,
         Len(posts[b][r]) # Count(r, b, k),
         posts'[b][r] = Append(posts[b][r], input[r][k]),
         \A x \in Channels : x # b => posts'[x][r] = posts[x][r],
         program' = program, pc' = pc, next' = next, queue' = queue, input' = input
  PROVE  Work(r)'
<1>1. /\ TaskInPlace(r, 1) /\ pc[r] # "waiting" /\ Len(queue[r]) >= 1
      /\ k \in 1..Len(program) /\ k \in K /\ k \in Nat \ {0}
  BY StreamHead
<1>2. b = Route(r, program[k]) /\ ~HoldsHost(b, program[k]) /\ b \in Channels
  BY <1>1, SameRoute DEF TaskInPlace
<1>3. b # "p2p" /\ IsTurn(r, b, k)
  BY <1>2, TurnOfCall DEF HoldsHost
<1>4. posts'[b][r] = Append(posts[b][r], Tensor(r, k))
  BY DEF Work, Queued
<1>5. /\ \A x, j : Count(r, x, j)' = Count(r, x, j) /\ IsTurn(r, x, j)' = IsTurn(r, x, j)
      /\ \A j : Route(r, program[j])' = Route(r, program[j])
  BY SteadyTurns
<1>6. Blocked(r)'
  BY <1>5, SteadyCall DEF Work, Blocked, RouteOf, CallOf
<1>7. Queued(r)'
  <2>1. \A i \in 1..Len(queue[r]) : TaskInPlace(r, i)'
    BY <1>5, SteadyCall DEF Work, Queued, TaskInPlace
  <2>2. QED
    BY <2>1 DEF Work, Queued, Tensor
<1>8. ASSUME NEW x \in Channels PROVE Posted(r, x)' /\ Contributions(r, x)'
  <2>1. Posted(r, x) /\ Contributions(r, x)
    BY DEF Work
  <2>2. CASE x = b
    <3>1. Len(posts[b][r]) = Count(r, b, k - 1)
      BY <2>1, <2>2 DEF Posted
    <3>2. Contributions(r, b)' /\ Len(posts'[b][r]) = Count(r, b, k)
      BY <1>1, <1>2, <1>3, <1>4, <2>1, <2>2, <3>1, Contribute
    <3>3. Posted(r, b)'
      BY <1>1, <1>5, <3>2 DEF Posted
    <3>4. QED
      BY <2>2, <3>2, <3>3
  <2>3. CASE x # b
    <3>1. posts'[x][r] = posts[x][r]
      BY <2>3
    <3>2. Posted(r, x)'
      BY <1>5, <2>1, <3>1 DEF Posted
    <3>3. Contributions(r, x)'
      <4>1. PICK p : p = posts[x][r] /\ p = posts'[x][r]
        BY <3>1
      <4>2. \A n \in 1..Len(p) : \E j \in 1..Len(program) :
              IsTurn(r, x, j) /\ Count(r, x, j) = n /\ p[n] = Tensor(r, j)
        BY <2>1, <4>1 DEF Contributions
      <4>3. ASSUME NEW n \in 1..Len(p)
            PROVE  \E j \in 1..Len(program') :
                     IsTurn(r, x, j)' /\ Count(r, x, j)' = n /\ p[n] = Tensor(r, j)
        <5>1. PICK j \in 1..Len(program) :
                IsTurn(r, x, j) /\ Count(r, x, j) = n /\ p[n] = Tensor(r, j)
          BY <4>2
        <5>2. j \in 1..Len(program') /\ IsTurn(r, x, j)' /\ Count(r, x, j)' = n
          BY <1>5, <5>1
        <5>3. QED
          BY <5>1, <5>2
      <4>4. QED
        BY <4>1, <4>3 DEF Contributions, Tensor
    <3>4. QED
      BY <3>2, <3>3
  <2>4. QED
    BY <2>2, <2>3
<1>9. \A j \in K' : InputKept(r, j)'
  BY <1>5 DEF Work, InputKept, Tensor, K
<1>10. QED
  BY <1>6, <1>7, <1>8, <1>9 DEF Work

\* A collective ends and leaves the stream.
LEMMA EndWork ==
  ASSUME Shapes, Tables, Fixed, NEW r \in Ranks, Work(r), queue[r] # <<>>,
         NEW b, b = queue[r][1].task, b # "kernel", NEW k, k = queue[r][1].k,
         Len(posts[b][r]) = Count(r, b, k),
         queue' = [queue EXCEPT ![r] = Tail(@)],
         UNCHANGED <<program, pc, next, posts, input>>
  PROVE  Work(r)'
<1>0. PICK q : q = queue[r]
  OBVIOUS
<1>1. /\ TaskInPlace(r, 1) /\ pc[r] # "waiting" /\ Len(q) \in Nat /\ Len(q) >= 1
      /\ k \in 1..Len(program) /\ k \in K /\ k \in Nat \ {0}
  BY <1>0, StreamHead
<1>2. b = Route(r, program[k]) /\ b \in Channels
  BY <1>1, SameRoute DEF TaskInPlace
<1>3. queue'[r] = Tail(queue[r])
  BY DEF Shapes
<1>4. /\ \A i \in 1..Len(queue'[r]) : TaskInPlace(r, i)'
      /\ Len(q) > 1 => queue'[r] # <<>> /\ queue'[r][1] = q[2]
      /\ Len(q) = 1 => queue'[r] = <<>>
  BY <1>0, <1>3, MoveUp
<1>5. /\ \A x, j : Count(r, x, j)' = Count(r, x, j) /\ IsTurn(r, x, j)' = IsTurn(r, x, j)
      /\ \A j : Route(r, program[j])' = Route(r, program[j])
  BY SteadyTurns
<1>6. /\ Len(q) > 1 => q[2].task = "kernel" /\ q[2].k = k + 1
      /\ Len(q) = 1 => pc[r] # "copying" /\ k = next[r] - 1
  BY <1>0, <1>1 DEF TaskInPlace
<1>60. Len(q) > 1 \/ Len(q) = 1
  <2>1. \A l \in Nat : l >= 1 => l > 1 \/ l = 1
    OBVIOUS
  <2>2. QED
    BY <1>1, <2>1
<1>7. Blocked(r)'
  BY <1>5, SteadyCall DEF Work, Blocked, RouteOf, CallOf
<1>8. Queued(r)'
  <2>1. CASE Len(q) > 1
    <3>1. queue'[r] # <<>> /\ queue'[r][1].task = "kernel"
      BY <1>4, <1>6, <2>1
    <3>2. QED
      BY <1>1, <1>4, <3>1 DEF Queued
  <2>2. CASE Len(q) = 1
    <3>1. queue'[r] = <<>> /\ pc'[r] # "copying"
      BY <1>4, <1>6, <2>2
    <3>2. QED
      BY <1>1, <1>4, <3>1 DEF Queued
  <2>3. QED
    BY <1>60, <2>1, <2>2
<1>9. ASSUME NEW x \in Channels PROVE Posted(r, x)' /\ Contributions(r, x)'
  <2>1. Posted(r, x) /\ Contributions(r, x)
    BY DEF Work
  <2>2. Len(posts[x][r]) = Count(r, x, k)
    <3>1. CASE x = b
      BY <3>1
    <3>2. CASE x # b
      <4>1. Len(posts[x][r]) = Count(r, x, k - 1)
        BY <2>1, <3>2 DEF Posted
      <4>2. ~IsTurn(r, x, k)
        BY <1>2, <3>2, TurnOfCall
      <4>3. QED
        BY <1>1, <4>1, <4>2, CountStep
    <3>3. QED
      BY <3>1, <3>2
  <2>3. k + 1 - 1 = k
    BY <1>1
  <2>4. Posted(r, x)'
    <3>1. CASE Len(q) > 1
      <4>1. queue'[r] # <<>> /\ queue'[r][1].k - 1 = k
        <5>1. queue'[r] # <<>> /\ queue'[r][1].k = k + 1
          BY <1>1, <1>4, <1>6, <3>1
        <5>2. QED
          BY <1>1, <5>1
      <4>2. QED
        BY <1>1, <1>5, <2>2, <4>1 DEF Posted
    <3>2. CASE Len(q) = 1
      <4>1. queue'[r] = <<>> /\ next'[r] - 1 = k
        BY <1>4, <1>6, <3>2
      <4>2. QED
        BY <1>1, <1>5, <2>2, <4>1 DEF Posted
    <3>3. QED
      BY <1>60, <3>1, <3>2
  <2>5. Contributions(r, x)'
    BY <1>5, <2>1 DEF Contributions, Tensor
  <2>6. QED
    BY <2>4, <2>5
<1>10. \A j \in K' : InputKept(r, j)'
  BY <1>5 DEF Work, InputKept, Tensor, K
<1>11. QED
  BY <1>7, <1>8, <1>9, <1>10 DEF Work

\* Every step of a stream is one of these three.
LEMMA StreamWork ==
  ASSUME Shapes, Tables, Fixed, NEW r \in Ranks, Work(r), Stream(r)
  PROVE  Work(r)'
<1>0. PICK k, b : k = queue[r][1].k /\ b = queue[r][1].task
  OBVIOUS
<1>1. queue[r] # <<>> /\ UNCHANGED <<program, pc, next>>
  BY DEF Stream, engine
<1>2. Head(queue[r]) = queue[r][1] /\ TaskInPlace(r, 1) /\ k \in 1..Len(program)
  BY <1>0, <1>1, StreamHead
<1>3. ASSUME b # "kernel"
      PROVE  Cardinality({j \in 1..k : Route(r, program[j]) = b}) = Count(r, b, k)
  <2>1. ~HoldsHost(b, program[k])
    BY <1>0, <1>2, <1>3 DEF TaskInPlace
  <2>2. QED
    BY <2>1, StreamCount DEF HoldsHost
<1>4. CASE b = "kernel"
  <2>1. /\ input' = [input EXCEPT ![r][queue[r][1].k] = Tensor(r, queue[r][1].k)]
        /\ queue' = [queue EXCEPT ![r] = Tail(@)] /\ posts' = posts
    BY <1>0, <1>2, <1>4 DEF Stream
  <2>2. QED
    BY <1>0, <1>1, <1>4, <2>1, KernelWork
<1>5. CASE b # "kernel"
  <2>1. CASE Len(posts[b][r]) # Count(r, b, k)
    <3>1. /\ posts' = [posts EXCEPT ![b][r] = Append(@, input[r][k])]
          /\ UNCHANGED <<input, queue>>
      <4>1. Len(posts[b][r]) # Cardinality({j \in 1..k : Route(r, program[j]) = b})
        BY <1>3, <1>5, <2>1
      <4>2. QED
        BY <1>0, <1>2, <1>5, <4>1 DEF Stream
    <3>2. b \in Channels
      BY <1>0, <1>2, <1>5, SameRoute DEF TaskInPlace
    <3>3. /\ posts'[b][r] = Append(posts[b][r], input[r][k])
          /\ \A x \in Channels : x # b => posts'[x][r] = posts[x][r]
      BY <3>1, <3>2 DEF Tables
    <3>4. QED
      BY <1>0, <1>1, <1>5, <2>1, <3>1, <3>3, PostWork
  <2>2. CASE Len(posts[b][r]) = Count(r, b, k)
    <3>1. b \in Channels /\ Len(posts[b][r]) \in Nat
      BY <1>0, <1>2, <1>5, SameRoute DEF TaskInPlace, Tables
    <3>2. ~(Len(posts[b][r]) < Count(r, b, k))
      BY <2>2, <3>1
    <3>3. queue' = [queue EXCEPT ![r] = Tail(@)] /\ UNCHANGED <<input, posts>>
      BY <1>0, <1>2, <1>3, <1>5, <3>2 DEF Stream
    <3>4. QED
      BY <1>0, <1>1, <1>5, <2>2, <3>3, EndWork
  <2>3. QED
    BY <2>1, <2>2
<1>6. QED
  BY <1>4, <1>5

\* What a step of rank r leaves alone: the other ranks.
LEMMA OthersStill ==
  ASSUME Shapes, Tables, NEW r \in Ranks, Host(r) \/ Stream(r), NEW s \in Ranks, s # r
  PROVE  Same(s) /\ result'[s] = result[s]
<1>1. pc'[s] = pc[s] /\ next'[s] = next[s] /\ queue'[s] = queue[s]
  <2>1. CASE Host(r)
    BY <2>1, HostIsLocal
  <2>2. CASE Stream(r)
    BY <2>2 DEF Stream, Shapes
  <2>3. QED
    BY <2>1, <2>2
<1>2. input'[s] = input[s] /\ result'[s] = result[s]
  <2>1. CASE Host(r)
    BY <2>1
    DEF Tables, Host, BuildLocal, Arrive, Meet, Issue, CopyToStage, HostReturn,
        RecvReturn, SendReturn, Returns, Destroy, Exit, PeerGone, tensors
  <2>2. CASE Stream(r)
    BY <2>2 DEF Stream, Tables
  <2>3. QED
    BY <2>1, <2>2
<1>3. ASSUME NEW b \in Channels PROVE posts'[b][s] = posts[b][s]
  <2>1. posts' = posts \/ \E x, v : posts' = [posts EXCEPT ![x][r] = v]
    <3>1. CASE Host(r)
      BY <3>1
      DEF Host, BuildLocal, Arrive, Meet, Issue, CopyToStage, HostReturn,
          RecvReturn, SendReturn, Returns, Destroy, Exit, PeerGone
    <3>2. CASE Stream(r)
      BY <3>2 DEF Stream
    <3>3. QED
      BY <3>1, <3>2
  <2>2. ASSUME NEW x, NEW v, posts' = [posts EXCEPT ![x][r] = v]
        PROVE  posts'[b][s] = posts[b][s]
    <3>1. CASE x = b
      BY <2>2, <3>1 DEF Tables
    <3>2. CASE x # b
      BY <2>2, <3>2 DEF Tables
    <3>3. QED
      BY <3>1, <3>2
  <2>3. QED
    BY <2>1, <2>2
<1>4. QED
  BY <1>1, <1>2, <1>3 DEF Same

\* What an input holds is what a contribution may hold.
LEMMA InputContents ==
  ASSUME Shapes, NEW r \in Ranks, Work(r), NEW k \in K
  PROVE  input[r][k] \in Contents
<1>1. k \in Nat /\ r \in Nat /\ InputKept(r, k) /\ Len(program) \in Nat /\ 1 <= k
  BY VllmAssumption, World DEF K, Shapes, Work
<1>2. k <= Len(program) => program[k].root \in Nat
  <2>1. k <= Len(program) => program[k] \in CallType
    BY <1>1 DEF Shapes
  <2>2. QED
    BY <2>1 DEF CallType
<1>3. QED
  BY <1>1, <1>2 DEF InputKept, Contents

\* Every step keeps the shape of the tables.
LEMMA NextTables ==
  ASSUME Shapes, Tables, Fixed, \A r \in Ranks : Work(r), [Next]_vars
  PROVE  Tables'
<1>0. Ranks' = Ranks /\ K' = K
  BY DEF Fixed, K
<1>1. ASSUME UNCHANGED <<input, result, posts>> PROVE Tables'
  BY <1>0, <1>1 DEF Tables
<1>2. ASSUME NEW r \in Ranks, Host(r) \/ Stream(r) PROVE Tables'
  <2>1. DOMAIN input' = Ranks /\ \A s \in Ranks : DOMAIN input'[s] = K
    <3>1. \/ input' = input \/ \E k, v : input' = [input EXCEPT ![r][k] = v]
      BY <1>2
      DEF Host, BuildLocal, Arrive, Meet, Issue, CopyToStage, HostReturn, RecvReturn,
          SendReturn, Returns, Destroy, Exit, PeerGone, tensors, Stream
    <3>2. QED
      BY <3>1 DEF Tables
  <2>2. DOMAIN result' = Ranks /\ \A s \in Ranks : DOMAIN result'[s] = K
    <3>1. \/ result' = result \/ \E k, v : result' = [result EXCEPT ![r][k] = v]
      BY <1>2
      DEF Host, BuildLocal, Arrive, Meet, Issue, CopyToStage, HostReturn, RecvReturn,
          SendReturn, Returns, Destroy, Exit, PeerGone, tensors, Stream
    <3>2. QED
      BY <3>1 DEF Tables
  <2>3. \/ posts' = posts
        \/ \E b \in Channels, v \in Contents : posts' = [posts EXCEPT ![b][r] = Append(@, v)]
    <3>1. CASE CopyToStage(r)
      <4>1. next[r] \in K
        BY <3>1, VllmAssumption DEF CopyToStage, Shapes, K
      <4>2. RouteOf(r) \in Channels /\ input[r][next[r]] \in Contents
        BY <4>1, SameRoute, InputContents DEF RouteOf
      <4>3. QED
        BY <3>1, <4>2 DEF CopyToStage
    <3>2. CASE Stream(r)
      <4>0. PICK k, b : k = queue[r][1].k /\ b = queue[r][1].task
        OBVIOUS
      <4>1. /\ queue[r] # <<>> /\ Head(queue[r]) = queue[r][1] /\ k \in K
            /\ TaskInPlace(r, 1)
        BY <3>2, <4>0, StreamHead DEF Stream
      <4>2. input[r][k] \in Contents
        BY <4>1, InputContents
      <4>3. b # "kernel" => b \in Channels
        BY <4>0, <4>1, SameRoute DEF TaskInPlace
      <4>4. \/ posts' = posts
            \/ b # "kernel" /\ posts' = [posts EXCEPT ![b][r] = Append(@, input[r][k])]
        BY <3>2, <4>0, <4>1 DEF Stream
      <4>5. QED
        BY <4>2, <4>3, <4>4
    <3>3. CASE Host(r) /\ ~CopyToStage(r)
      BY <3>3
      DEF Host, BuildLocal, Arrive, Meet, Issue, HostReturn, RecvReturn, SendReturn,
          Returns, Destroy, Exit, PeerGone
    <3>4. QED
      BY <1>2, <3>1, <3>2, <3>3
  <2>4. /\ DOMAIN posts' = Channels /\ \A b \in Channels : DOMAIN posts'[b] = Ranks
        /\ \A b \in Channels, s \in Ranks : posts'[b][s] \in Seq(Contents)
    <3>1. CASE posts' = posts
      BY <3>1 DEF Tables
    <3>2. ASSUME NEW x \in Channels, NEW v \in Contents,
                 posts' = [posts EXCEPT ![x][r] = Append(@, v)]
          PROVE  /\ DOMAIN posts' = Channels /\ \A b \in Channels : DOMAIN posts'[b] = Ranks
                 /\ \A b \in Channels, s \in Ranks : posts'[b][s] \in Seq(Contents)
      <4>1. Append(posts[x][r], v) \in Seq(Contents)
        BY DEF Tables
      <4>2. DOMAIN posts' = Channels /\ \A b \in Channels : DOMAIN posts'[b] = Ranks
        BY <3>2 DEF Tables
      <4>3. ASSUME NEW b \in Channels, NEW s \in Ranks
            PROVE  posts'[b][s] = posts[b][s] \/ posts'[b][s] = Append(posts[x][r], v)
        BY <3>2 DEF Tables
      <4>4. QED
        BY <4>1, <4>2, <4>3 DEF Tables
    <3>3. QED
      BY <2>3, <3>1, <3>2
  <2>5. QED
    BY <1>0, <2>1, <2>2, <2>4 DEF Tables
<1>3. ASSUME NEW b \in Blocks, Schedule(b) PROVE Tables'
  BY <1>1, <1>3 DEF Schedule, tensors
<1>4. ASSUME Stop \/ UNCHANGED vars PROVE Tables'
  BY <1>1, <1>4 DEF Stop, vars, tensors
<1>5. QED
  BY <1>2, <1>3, <1>4 DEF Next

\* Every step keeps the accounts of every rank.
LEMMA NextWInv == WInv /\ [Next]_vars => WInv'
<1> SUFFICES ASSUME WInv, [Next]_vars PROVE WInv'
  OBVIOUS
<1>1. /\ Shapes /\ Shapes' /\ Fixed /\ Tables /\ DInv' /\ Grown
      /\ \A r \in Ranks : Work(r)
  BY NextDInv, NextShapes, SettingFixed, NextGrown DEF WInv, DInv
<1>2. Tables'
  BY <1>1, NextTables
<1>3. ASSUME NEW r \in Ranks, Host(r), NEW s \in Ranks PROVE Work(s)'
  <2>1. CASE s # r
    BY <1>1, <1>3, <2>1, OthersStill, StillWork
  <2>2. CASE s = r
    <3>1. program' = program /\ Work(r)
      BY <1>1, <1>3, HostLeavesEngine
    <3>2. CASE Issue(r)
      BY <1>1, <2>2, <3>1, <3>2, IssueWork
    <3>3. CASE CopyToStage(r)
      BY <1>1, <2>2, <3>1, <3>3, CopyWork
    <3>4. CASE HostReturn(r) \/ RecvReturn(r) \/ SendReturn(r)
      BY <1>1, <2>2, <3>4, ReturnWork
    <3>5. CASE Quiet(r)
      BY <1>1, <2>2, <3>1, <3>5, QuietWork
    <3>6. QED
      BY <1>1, <1>3, <3>2, <3>3, <3>4, <3>5, HostSteps
  <2>3. QED
    BY <2>1, <2>2
<1>4. ASSUME NEW r \in Ranks, Stream(r), NEW s \in Ranks PROVE Work(s)'
  <2>1. CASE s # r
    BY <1>1, <1>4, <2>1, OthersStill, StillWork
  <2>2. CASE s = r
    BY <1>1, <1>4, <2>2, StreamWork
  <2>3. QED
    BY <2>1, <2>2
<1>5. ASSUME UNCHANGED <<pc, next, queue, input, posts>>, NEW s \in Ranks PROVE Work(s)'
  BY <1>1, <1>5, StillWork DEF Same
<1>6. ASSUME NEW b \in Blocks, Schedule(b), NEW s \in Ranks PROVE Work(s)'
  BY <1>5, <1>6 DEF Schedule, tensors
<1>7. ASSUME Stop \/ UNCHANGED vars, NEW s \in Ranks PROVE Work(s)'
  BY <1>5, <1>7 DEF Stop, vars, tensors
<1>8. \A s \in Ranks : Work(s)'
  BY <1>3, <1>4, <1>6, <1>7 DEF Next
<1>9. QED
  BY <1>1, <1>2, <1>8 DEF WInv, Fixed

\* The initial state: nothing has been contributed.
LEMMA InitWInv == Init => WInv
<1> SUFFICES ASSUME Init PROVE WInv
  OBVIOUS
<1>1. DInv /\ Shapes
  BY InitDInv DEF DInv
<1>2. /\ program = <<>> /\ Len(program) = 0
      /\ \A r \in Ranks : pc[r] = "building" /\ next[r] = 1 /\ queue[r] = <<>>
      /\ \A r \in Ranks, b \in Channels : posts[b][r] = <<>>
      /\ \A r \in Ranks, k \in K : input[r][k] = Junk
  BY DEF Init
<1>3. Tables
  BY DEF Init, Tables
<1>4. ASSUME NEW r \in Ranks PROVE Work(r)
  <2>1. Blocked(r)
    BY <1>2 DEF Blocked
  <2>2. Queued(r)
    BY <1>2 DEF Queued
  <2>3. ASSUME NEW b \in Channels PROVE Posted(r, b) /\ Contributions(r, b)
    <3>1. Turns(r, b, 1 - 1) = {}
      BY DEF Turns
    <3>2. Count(r, b, 1 - 1) = 0
      BY <3>1, FS_EmptySet DEF Count
    <3>3. Len(posts[b][r]) = 0
      BY <1>2
    <3>4. QED
      BY <1>2, <3>2, <3>3 DEF Posted, Contributions
  <2>4. \A k \in K : InputKept(r, k)
    BY <1>2 DEF InputKept
  <2>5. QED
    BY <2>1, <2>2, <2>3, <2>4 DEF Work
<1>5. QED
  BY <1>1, <1>3, <1>4 DEF WInv

\* A collective leaves its argument alone, except that the host-staged broadcast
\* writes the source's data over it.
THEOREM InputsAreKept == Spec => []InputsKept
<1>1. WInv => InputsKept
  <2> SUFFICES ASSUME WInv, NEW r \in Ranks, NEW k \in 1..Len(program)
               PROVE  input[r][k] \in {Junk, Tensor(r, k)} \cup
                        (IF program[k].op = "broadcast" /\ Route(r, program[k]) = "gloo"
                         THEN {Tensor(program[k].root, k)} ELSE {})
    BY DEF InputsKept
  <2>1. k \in K
    BY VllmAssumption DEF WInv, DInv, Shapes, K
  <2>2. InputKept(r, k)
    BY <2>1 DEF WInv, Work
  <2>3. QED
    BY <2>2 DEF InputKept
<1>2. QED
  BY <1>1, InitWInv, NextWInv, PTL DEF Spec

-----------------------------------------------------------------------------
(* What the calls return.                                                  *)

\* A result stands once it is there.
LEMMA StillOutcome ==
  ASSUME Shapes, Fixed, Grown, NEW r \in Ranks, NEW k \in K, Outcome(r, k),
         result'[r][k] = result[r][k]
  PROVE  Outcome(r, k)'
<1>1. CASE result[r][k] = Pending
  BY <1>1 DEF Outcome, Pending
<1>2. CASE result[r][k] # Pending
  <2>1. k \in Nat /\ k # 0 /\ k <= Len(program) /\ k <= Len(program') /\ k \in 1..Len(program)
    BY <1>2, VllmAssumption DEF Outcome, K, Grown
  <2>2. program'[k] = program[k]
    BY <2>1 DEF Grown
  <2>3. Count(r, "gloo", k)' = Count(r, "gloo", k) /\ Route(r, program[k])' = Route(r, program[k])
    BY <2>1, GrownTurns
  <2>4. Expected(r, k)' = Expected(r, k)
    BY <2>2 DEF Expected, Fixed, IsHop, IsSend, DefaultSrc, Tensor, Nothing
  <2>5. Refuses(Route(r, program[k]), program[k])' = Refuses(Route(r, program[k]), program[k])
    BY <2>2, <2>3
    DEF Refuses, RcclRefuses, GlooRefuses, D3D12Refuses, ShmRefuses
  <2>6. QED
    BY <1>2, <2>1, <2>4, <2>5 DEF Outcome, Refused
<1>3. QED
  BY <1>1, <1>2

\* What the host-staged collectives compute from the inputs of the call.
LEMMA HostGives ==
  ASSUME setting \in Settings, setting.world > 1, NEW r \in Ranks, NEW k,
         program[k] \in CallType, program[k].root \in Ranks, ~IsHop(program[k]),
         NEW v, v = [s \in Needed(r, program[k]) |-> Tensor(s, k)]
  PROVE  HostResult(r, program[k], v) = Expected(r, k)
<1>0. PICK c : c = program[k]
  OBVIOUS
<1>1. /\ c.op \in {"all_reduce", "all_gather", "reduce_scatter", "gather", "broadcast"}
      /\ setting.world \in Nat
  BY <1>0, World DEF CallType, Ops, IsHop
<1>2. CASE c.op = "broadcast"
  BY <1>0, <1>1, <1>2 DEF Needed, HostResult, Expected, IsHop
<1>3. CASE c.op = "gather" /\ r # c.root
  BY <1>0, <1>1, <1>3 DEF Needed, HostResult, Expected, IsHop
<1>4. ASSUME Needed(r, c) = Ranks
      PROVE  /\ v = [s \in Ranks |-> Tensor(s, k)]
             /\ SumOf(v) = <<"sum", {Tensor(s, k) : s \in Ranks}>>
             /\ Chunk(r, v) = <<"chunk", r, {Tensor(s, k) : s \in Ranks}>>
             /\ InRankOrder(v) = <<"cat", [i \in 1..setting.world |-> Tensor(i - 1, k)]>>
  <2>1. v = [s \in Ranks |-> Tensor(s, k)]
    BY <1>0, <1>4
  <2>2. \A i \in 1..setting.world : v[i - 1] = Tensor(i - 1, k)
    BY <1>1, <2>1 DEF Ranks
  <2>3. QED
    BY <2>1, <2>2 DEF SumOf, Chunk, InRankOrder
<1>5. CASE c.op # "broadcast" /\ (c.op = "gather" => r = c.root)
  <2>1. Needed(r, c) = Ranks
    BY <1>5 DEF Needed
  <2>2. \A i \in 1..setting.world :
          [s \in Ranks |-> Tensor(s, k)][i - 1] = Tensor(i - 1, k)
    BY <1>1 DEF Ranks
  <2>3. CASE c.op \in {"all_gather", "gather"}
    <3>1. HostResult(r, c, v) = InRankOrder(v)
      BY <1>5, <2>3 DEF HostResult
    <3>2. Expected(r, k) =
            <<"cat", [i \in 1..setting.world |-> [s \in Ranks |-> Tensor(s, k)][i - 1]]>>
      <4>1. CASE c.op = "all_gather"
        <5>1. ~IsHop(program[k]) /\ ~(setting.world = 1) /\ program[k].op = "all_gather"
          BY <1>0, <1>1, <4>1
        <5>2. "all_gather" # "broadcast" /\ "all_gather" # "gather" /\ setting.world > 1
              /\ "all_gather" # "all_reduce" /\ "all_gather" # "reduce_scatter"
          OBVIOUS
        <5>3. QED
          BY <5>1, <5>2, Zenon DEF Expected
      <4>2. CASE c.op = "gather"
        <5>1. ~IsHop(program[k]) /\ ~(setting.world = 1) /\ program[k].op = "gather"
              /\ r = program[k].root
          BY <1>0, <1>1, <1>5, <4>2
        <5>2. "gather" # "broadcast" /\ "all_gather" # "gather" /\ setting.world > 1
              /\ "gather" # "all_reduce" /\ "gather" # "reduce_scatter"
          OBVIOUS
        <5>3. QED
          BY <5>1, <5>2, Zenon DEF Expected
      <4>3. QED
        BY <2>3, <4>1, <4>2
    <3>3. QED
      BY <1>0, <1>4, <2>1, <2>2, <3>1, <3>2
  <2>4. {[s \in Ranks |-> Tensor(s, k)][t] : t \in Ranks} = {Tensor(s, k) : s \in Ranks}
    OBVIOUS
  <2>5. CASE c.op = "all_reduce"
    <3>1. HostResult(r, c, v) = SumOf(v)
      BY <2>5 DEF HostResult
    <3>2. Expected(r, k) = <<"sum", {[s \in Ranks |-> Tensor(s, k)][t] : t \in Ranks}>>
      BY <1>0, <1>1, <2>5 DEF Expected, IsHop
    <3>3. QED
      BY <1>0, <1>4, <2>1, <2>4, <3>1, <3>2
  <2>6. CASE c.op = "reduce_scatter"
    <3>1. HostResult(r, c, v) = Chunk(r, v)
      BY <2>6 DEF HostResult
    <3>2. Expected(r, k) = <<"chunk", r, {[s \in Ranks |-> Tensor(s, k)][t] : t \in Ranks}>>
      BY <1>0, <1>1, <2>6 DEF Expected, IsHop
    <3>3. QED
      BY <1>0, <1>4, <2>1, <2>4, <3>1, <3>2
  <2>7. QED
    BY <1>1, <1>5, <2>3, <2>5, <2>6
<1>6. QED
  BY <1>1, <1>2, <1>3, <1>5

\* The back-ends that work on the stream compute the same.
LEMMA StreamGives ==
  ASSUME NEW r, NEW c, c \in CallType, ~IsHop(c), c.op # "gather", NEW v
  PROVE  StreamResult(r, c, v) = HostResult(r, c, v)
<1>1. c.op \in {"all_reduce", "all_gather", "reduce_scatter", "broadcast"}
  BY DEF CallType, Ops, IsHop
<1>2. QED
  BY <1>1 DEF StreamResult, HostResult

\* A collective always promises a tensor or nothing, never a refusal.
LEMMA ExpectedIsNoRefusal ==
  ASSUME setting \in Settings, NEW r \in Ranks, NEW k, program[k] \in CallType,
         program[k].root \in Ranks
  PROVE  Expected(r, k) # Refused
<1>1. /\ \A s, j : Tensor(s, j) # Refused
      /\ Nothing # Refused
      /\ \A x : <<"sum", x>> # Refused /\ <<"cat", x>> # Refused
      /\ \A x, y : <<"chunk", x, y>> # Refused
  BY DEF Tensor, Refused, Nothing
<1>0. PICK c : c = program[k]
  OBVIOUS
<1>2. setting.world \in Nat /\ setting.world >= 1 /\ c.op \in Ops /\ c.root \in Nat
  BY <1>0, World DEF CallType
<1>3. CASE IsHop(c)
  BY <1>0, <1>1, <1>3 DEF Expected, IsHop
<1>4. CASE ~IsHop(c) /\ setting.world = 1
  BY <1>0, <1>1, <1>4 DEF Expected
<1>5. CASE ~IsHop(c) /\ setting.world > 1
  <2>1. c.op \in {"all_reduce", "all_gather", "reduce_scatter", "gather", "broadcast"}
    BY <1>2, <1>5 DEF Ops, IsHop
  <2>2. CASE c.op = "all_reduce"
    BY <1>0, <1>1, <1>5, <2>2 DEF Expected, IsHop
  <2>3. CASE c.op = "reduce_scatter"
    BY <1>0, <1>1, <1>5, <2>3 DEF Expected, IsHop
  <2>4. CASE c.op \in {"gather", "all_gather"}
    BY <1>0, <1>1, <1>5, <2>4 DEF Expected, IsHop
  <2>5. CASE c.op = "broadcast"
    BY <1>0, <1>1, <1>5, <2>5 DEF Expected, IsHop
  <2>6. QED
    BY <2>1, <2>2, <2>3, <2>4, <2>5
<1>6. QED
  BY <1>2, <1>3, <1>4, <1>5

\* The ring: a rank receives from the one before it.
LEMMA RingSource ==
  ASSUME setting \in Settings, setting.world > 1, NEW r \in Ranks
  PROVE  /\ DefaultSrc(r) = IF r = 0 THEN setting.world - 1 ELSE r - 1
         /\ DefaultSrc(r) \in Ranks
<1>0. PICK w : w = setting.world
  OBVIOUS
<1>1. w \in Nat /\ w > 1 /\ r \in Nat /\ r < w /\ Ranks = 0..(w - 1)
  BY <1>0, World
<1>2. CASE r = 0
  <2>1. (0 + w - 1) % w = w - 1
    BY <1>1
  <2>2. QED
    BY <1>0, <1>1, <1>2, <2>1 DEF DefaultSrc
<1>3. CASE r # 0
  <2>1. (r + w - 1) % w = r - 1
    BY <1>1, <1>3
  <2>2. QED
    BY <1>0, <1>1, <1>3, <2>1 DEF DefaultSrc
<1>4. QED
  BY <1>2, <1>3

\* The receives of rank r among its first k calls.
Receives(r, k) == {j \in 1..k : IsHop(program[j]) /\ ~IsSend(r, program[j])}

\* The receive of rank r in call k is met by the send of the rank before it in the
\* same call, or in the next one when both take part in the hop out and back.
LEMMA HopsMeet ==
  ASSUME Shapes, Paired(program), NEW r \in Ranks, NEW k \in 1..Len(program),
         k \in Receives(r, k), NEW m, m = (IF r < 2 THEN k ELSE k + 1)
  PROVE  /\ m \in 1..Len(program)
         /\ IsTurn(DefaultSrc(r), "p2p", m)
         /\ Count(DefaultSrc(r), "p2p", m) = Cardinality(Receives(r, k))
         /\ IF r < 2 THEN TRUE ELSE DefaultSrc(r) = r - 1
<1>1. /\ k \in Nat /\ Len(program) \in Nat /\ 1 <= k /\ k <= Len(program) /\ r \in Nat
      /\ IsHop(program[k]) /\ ~IsSend(r, program[k]) /\ setting \in Settings
      /\ setting.world > 1
  BY World DEF Receives, Shapes
<1>2. PICK t : t = DefaultSrc(r)
  OBVIOUS
<1>3. t = (IF r = 0 THEN setting.world - 1 ELSE r - 1) /\ setting.world \in Nat
  BY <1>1, <1>2, RingSource, World
<1>4. ASSUME NEW j PROVE IsTurn(t, "p2p", j) <=> IsHop(program[j]) /\ IsSend(t, program[j])
  BY TurnOfCall DEF IsTurn
<1>5. CASE r < 2
  <2>1. t = 0 <=> r # 0
    BY <1>1, <1>3, <1>5
  <2>2. ASSUME NEW j, IsHop(program[j])
        PROVE  IsSend(t, program[j]) <=> ~IsSend(r, program[j])
    BY <2>1 DEF IsSend
  <2>3. Turns(t, "p2p", k) = Receives(r, k)
    BY <1>4, <2>2 DEF Turns, Receives
  <2>4. QED
    BY <1>1, <1>2, <1>4, <1>5, <2>2, <2>3 DEF Count
<1>6. CASE ~(r < 2)
  <2>1. r # 0 /\ t # 0 /\ t = r - 1 /\ m = k + 1
    BY <1>1, <1>3, <1>6
  <2>2. /\ \A j : IsHop(program[j]) /\ ~IsSend(r, program[j]) <=> program[j].op = "hop_out"
        /\ \A j : IsHop(program[j]) /\ IsSend(t, program[j]) <=> program[j].op = "hop_back"
    BY <2>1 DEF IsSend, IsHop
  <2>3. DOMAIN program = 1..Len(program)
    BY DEF Shapes
  <2>4. ASSUME NEW j \in 1..k, program[j].op = "hop_out"
        PROVE  j + 1 \in 1..(k + 1) /\ j + 1 \in 1..Len(program) /\ program[j + 1].op = "hop_back"
    <3>1. j \in Nat /\ j \in 1..Len(program) /\ j + 1 \in 1..(k + 1)
      BY <1>1
    <3>2. QED
      BY <2>3, <2>4, <3>1 DEF Paired
  <2>5. ASSUME NEW j \in 1..(k + 1), program[j].op = "hop_back"
        PROVE  j - 1 \in 1..k /\ program[j - 1].op = "hop_out"
    <3>1. k + 1 \in 1..Len(program)
      BY <1>1, <2>2, <2>4
    <3>2. j \in DOMAIN program /\ j \in Nat
      BY <1>1, <2>3, <3>1
    <3>3. j - 1 \in 1..Len(program) /\ program[j - 1].op = "hop_out"
      BY <2>3, <2>5, <3>2 DEF Paired
    <3>4. QED
      BY <1>1, <3>2, <3>3
  <2>6. PICK S, T : S = Receives(r, k) /\ T = Turns(t, "p2p", k + 1)
    OBVIOUS
  <2>7. /\ S = {j \in 1..k : program[j].op = "hop_out"}
        /\ T = {j \in 1..(k + 1) : program[j].op = "hop_back"}
    BY <1>4, <2>2, <2>6 DEF Receives, Turns
  <2>8. PICK f : f = [j \in S |-> j + 1]
    OBVIOUS
  <2>9. f \in [S -> T]
    BY <2>4, <2>7, <2>8
  <2>10. \A i, j \in S : f[i] = f[j] => i = j
    BY <2>7, <2>8
  <2>11. \A j \in T : \E i \in S : f[i] = j
    <3>1. ASSUME NEW j \in T PROVE \E i \in S : f[i] = j
      <4>1. j \in Nat /\ j - 1 \in S
        BY <2>5, <2>7
      <4>2. f[j - 1] = j
        BY <2>8, <4>1
      <4>3. QED
        BY <4>1, <4>2
    <3>2. QED
      BY <3>1
  <2>12. ExistsBijection(S, T)
    BY <2>9, <2>10, <2>11 DEF ExistsBijection, Bijection, Injection, Surjection, IsInjective
  <2>13. IsFiniteSet(S)
    <3>1. IsFiniteSet(1..k) /\ S \in SUBSET (1..k)
      BY <1>1, <2>7, FS_Interval
    <3>2. QED
      BY <3>1, FS_Subset
  <2>14. Cardinality(T) = Cardinality(S)
    BY <2>12, <2>13, FS_Bijection
  <2>15. program[k].op = "hop_out" /\ k \in 1..k
    BY <1>1, <2>2
  <2>16. k + 1 \in 1..Len(program) /\ program[k + 1].op = "hop_back"
    BY <2>4, <2>15
  <2>17. IsTurn(t, "p2p", m)
    BY <1>4, <2>1, <2>2, <2>16
  <2>18. Count(t, "p2p", m) = Cardinality(Receives(r, k))
    BY <2>1, <2>6, <2>14 DEF Count
  <2>19. QED
    BY <1>2, <1>6, <2>1, <2>16, <2>17, <2>18
<1>7. QED
  BY <1>5, <1>6

\* What a result of this step has to be.
LEMMA NewOutcome ==
  ASSUME Fixed, program' = program, NEW r \in Ranks, NEW k \in 1..Len(program), k \in K,
         \/ /\ Refuses(Route(r, program[k]), program[k]) /\ result'[r][k] = Refused
         \/ /\ ~Refuses(Route(r, program[k]), program[k])
            /\ result'[r][k] = Expected(r, k)
  PROVE  Outcome(r, k)'
<1>1. k <= Len(program') /\ program'[k] = program[k]
  OBVIOUS
<1>2. Route(r, program[k])' = Route(r, program[k])
  BY SteadyTurns
<1>3. Expected(r, k)' = Expected(r, k)
  BY DEF Expected, Fixed, IsHop, IsSend, DefaultSrc, Tensor, Nothing
<1>4. Refuses(Route(r, program[k]), program[k])' = Refuses(Route(r, program[k]), program[k])
  BY <1>2 DEF Refuses, RcclRefuses, GlooRefuses, D3D12Refuses, ShmRefuses
<1>5. QED
  BY <1>1, <1>3, <1>4 DEF Outcome, Refused

\* The call of the program a rank is in.
LEMMA Call ==
  ASSUME Shapes, NEW k \in 1..Len(program)
  PROVE  /\ k \in K /\ k \in Nat \ {0} /\ program[k] \in CallType
         /\ program[k].root \in Ranks /\ setting \in Settings /\ setting.world \in Nat
         /\ setting.world >= 1 /\ (IsHop(program[k]) => setting.world > 1)
<1>1. /\ Len(program) \in Nat /\ Len(program) <= Length /\ Length \in Nat
      /\ setting \in Settings /\ program[k] \in CallType
      /\ program[k].root < setting.world /\ (IsHop(program[k]) => setting.world > 1)
  BY VllmAssumption DEF Shapes
<1>2. program[k].root \in Nat
  BY <1>1 DEF CallType
<1>3. /\ setting.world \in Nat /\ setting.world >= 1 /\ Ranks = 0..(setting.world - 1)
  BY <1>1, World
<1>4. program[k].root \in Ranks
  BY <1>1, <1>2, <1>3
<1>5. k \in K /\ k \in Nat \ {0}
  BY <1>1 DEF K
<1>6. QED
  BY <1>1, <1>3, <1>4, <1>5

\* A blocking call returns the collective of its own inputs.
LEMMA HostOutcome ==
  ASSUME WInv, Fixed, NEW r \in Ranks, HostReturn(r), NEW k, k = next[r]
  PROVE  Outcome(r, k)'
<1>0. PICK b, c : b = RouteOf(r) /\ c = program[k]
  OBVIOUS
<1>1. Shapes /\ Tables /\ (\A s \in Ranks : Work(s))
  BY DEF WInv, DInv
<1>2. /\ pc[r] = "waiting" /\ program' = program /\ k \in 1..Len(program) /\ ~IsHop(c)
      /\ \A s \in Needed(r, c) : Len(posts[b][s]) >= Len(posts[b][r])
      /\ result' = [result EXCEPT ![r][k] =
           HostResult(r, c, [s \in Needed(r, c) |-> posts[b][s][Len(posts[b][r])]])]
  BY <1>0, <1>1 DEF HostReturn, Returns, CallOf, engine, Shapes
<1>3. /\ k \in K /\ c \in CallType /\ c.root \in Ranks /\ setting \in Settings
      /\ setting.world \in Nat /\ setting.world >= 1
  BY <1>0, <1>1, <1>2, Call
<1>4. b = Route(r, c) /\ ~Refuses(b, c) /\ HoldsHost(b, c)
  BY <1>0, <1>1, <1>2 DEF Work, Blocked, RouteOf, CallOf
<1>5. setting.world > 1
  <2>1. setting.world # 1
    <3>1. setting.world = 1 => Route(r, c) = "self"
      BY <1>2 DEF Route
    <3>2. QED
      BY <1>4, <3>1 DEF HoldsHost
  <2>2. QED
    BY <1>3, <2>1
<1>6. Needed(r, c) \subseteq Ranks
  BY <1>3 DEF Needed
<1>7. ASSUME NEW s \in Needed(r, c) PROVE posts[b][s][Len(posts[b][r])] = Tensor(s, k)
  <2>1. s \in Ranks /\ Len(posts[RouteOf(r)][s]) >= Len(posts[RouteOf(r)][r])
    BY <1>0, <1>2, <1>6
  <2>2. ~IsHop(CallOf(r))
    BY <1>0, <1>2 DEF CallOf
  <2>3. QED
    BY <1>0, <1>1, <1>2, <2>1, <2>2, HostValues
<1>8. PICK v : v = [s \in Needed(r, c) |-> posts[b][s][Len(posts[b][r])]]
  OBVIOUS
<1>9. v = [s \in Needed(r, program[k]) |-> Tensor(s, k)]
  BY <1>0, <1>7, <1>8
<1>10. HostResult(r, c, v) = Expected(r, k)
  BY <1>0, <1>2, <1>3, <1>5, <1>9, HostGives
<1>11. result'[r][k] = HostResult(r, c, v)
  BY <1>1, <1>2, <1>3, <1>8 DEF Tables
<1>12. ~Refuses(Route(r, program[k]), program[k]) /\ result'[r][k] = Expected(r, k)
  BY <1>0, <1>4, <1>10, <1>11
<1>13. QED
  BY <1>2, <1>3, <1>12, NewOutcome

\* What the two sides of a hop must get.
LEMMA ExpectedHop ==
  ASSUME NEW r, NEW k, IsHop(program[k])
  PROVE  Expected(r, k) =
           IF IsSend(r, program[k]) THEN Nothing
           ELSE IF r < 2 THEN Tensor(DefaultSrc(r), k) ELSE Tensor(r - 1, k + 1)
  BY DEF Expected, IsHop

\* A receive returns what the rank before it in the ring sent in its turn.
LEMMA RecvOutcome ==
  ASSUME WInv, Paired(program), Fixed, NEW r \in Ranks, RecvReturn(r), NEW k, k = next[r]
  PROVE  Outcome(r, k)'
<1>0. PICK c, t, m, n : /\ c = program[k] /\ t = DefaultSrc(r)
                        /\ m = (IF r < 2 THEN k ELSE k + 1)
                        /\ n = Cardinality(Receives(r, k - 1))
  OBVIOUS
<1>1. Shapes /\ Tables /\ (\A s \in Ranks : Work(s)) /\ pc[r] = "waiting"
  BY DEF WInv, DInv, RecvReturn
<1>2. k \in 1..Len(program) /\ program' = program /\ IsHop(c) /\ ~IsSend(r, c)
  BY <1>0, <1>1 DEF RecvReturn, Returns, CallOf, engine, Shapes
<1>3. k \in K /\ k \in Nat \ {0} /\ setting \in Settings /\ setting.world > 1 /\ t \in Ranks
  BY <1>0, <1>1, <1>2, Call, RingSource
<1>4. n = Received(r)
  BY <1>0 DEF Received, Receives
<1>5. Cardinality(Receives(r, k)) = n + 1 /\ n \in Nat /\ k \in Receives(r, k)
  <2>0. IsFiniteSet(1..(k - 1)) /\ k \notin 1..(k - 1)
    <3>1. 1 \in Int /\ k - 1 \in Int /\ k \notin 1..(k - 1)
      BY <1>3
    <3>2. QED
      BY <3>1, FS_Interval
  <2>1. Receives(r, k - 1) \in SUBSET (1..(k - 1))
    BY DEF Receives
  <2>2. IsFiniteSet(Receives(r, k - 1)) /\ k \notin Receives(r, k - 1)
    BY <2>0, <2>1, FS_Subset
  <2>3. Receives(r, k) = Receives(r, k - 1) \cup {k}
    BY <1>0, <1>2, <1>3 DEF Receives
  <2>4. QED
    BY <1>0, <2>2, <2>3, FS_AddElement, FS_CardinalityType
<1>6. /\ m \in 1..Len(program) /\ IsTurn(t, "p2p", m) /\ Count(t, "p2p", m) = n + 1
      /\ (r < 2 \/ t = r - 1)
  BY <1>0, <1>1, <1>2, <1>5, HopsMeet
<1>7. SentTo(t, r) = posts["p2p"][t] /\ Len(posts["p2p"][t]) > n
  <2>1. Len(SentTo(t, r)) > n
    BY <1>0, <1>4 DEF RecvReturn
  <2>2. SentTo(t, r) = posts["p2p"][t] \/ SentTo(t, r) = <<>>
    BY DEF SentTo
  <2>3. Len(<<>>) = 0 /\ ~(0 > n)
    BY <1>5
  <2>4. QED
    BY <2>1, <2>2, <2>3
<1>8. posts["p2p"][t][n + 1] = Tensor(t, m)
  <2>1. "p2p" \in Channels /\ Len(posts["p2p"][t]) \in Nat
    BY <1>1, <1>3 DEF Channels, Tables
  <2>2. Count(t, "p2p", m) <= Len(posts["p2p"][t])
    BY <1>5, <1>6, <1>7, <2>1
  <2>3. posts["p2p"][t][Count(t, "p2p", m)] = Tensor(t, m)
    BY <1>1, <1>3, <1>6, <2>1, <2>2, ContributionOf
  <2>4. QED
    BY <1>6, <2>3
<1>9. result'[r][k] = Tensor(t, m)
  <2>1. result' = [result EXCEPT ![r][k] = Tensor(t, m)]
    BY <1>0, <1>4, <1>7, <1>8 DEF RecvReturn, Returns
  <2>2. QED
    BY <1>1, <1>3, <2>1 DEF Tables
<1>10. Expected(r, k) = Tensor(t, m)
  BY <1>0, <1>2, <1>6, ExpectedHop
<1>11. ~Refuses(Route(r, program[k]), program[k])
  BY <1>0, <1>2, TurnOfCall DEF Refuses
<1>12. QED
  BY <1>2, <1>3, <1>9, <1>10, <1>11, NewOutcome

\* A send returns nothing.
LEMMA SendOutcome ==
  ASSUME WInv, Fixed, NEW r \in Ranks, SendReturn(r), NEW k, k = next[r]
  PROVE  Outcome(r, k)'
<1>1. Shapes /\ Tables /\ pc[r] = "waiting"
  BY DEF WInv, DInv, SendReturn
<1>2. /\ k \in 1..Len(program) /\ program' = program /\ IsHop(program[k])
      /\ IsSend(r, program[k]) /\ result' = [result EXCEPT ![r][k] = Nothing]
  BY <1>1 DEF SendReturn, Returns, CallOf, engine, Shapes
<1>3. k \in K
  BY <1>1, <1>2, Call
<1>4. result'[r][k] = Nothing /\ Expected(r, k) = Nothing
  BY <1>1, <1>2, <1>3, ExpectedHop DEF Tables
<1>5. ~Refuses(Route(r, program[k]), program[k])
  BY <1>2, TurnOfCall DEF Refuses
<1>6. QED
  BY <1>2, <1>3, <1>4, <1>5, NewOutcome

\* A collective on the stream leaves the collective of its own inputs.
LEMMA StreamOutcome ==
  ASSUME WInv, Fixed, NEW r \in Ranks, Stream(r), NEW k \in K,
         result'[r][k] # result[r][k]
  PROVE  Outcome(r, k)'
<1>1. Shapes /\ Tables /\ (\A s \in Ranks : Work(s)) /\ queue[r] # <<>> /\ program' = program
  BY DEF WInv, DInv, Stream, engine
<1>2. PICK h, b : h = queue[r][1].k /\ b = queue[r][1].task
  OBVIOUS
<1>3. /\ Head(queue[r]) = queue[r][1] /\ TaskInPlace(r, 1) /\ h \in 1..Len(program)
      /\ h \in K
  BY <1>1, <1>2, StreamHead
<1>4. PICK c, n : /\ c = program[h]
                  /\ n = Cardinality({j \in 1..h : Route(r, program[j]) = b})
  OBVIOUS
<1>5. PICK v : v = [s \in Needed(r, c) |-> posts[b][s][n]]
  OBVIOUS
<1>6. /\ b # "kernel" /\ \A s \in Needed(r, c) : Len(posts[b][s]) >= n
      /\ result' = [result EXCEPT ![r][h] =
                      IF b = "self" THEN v[r] ELSE StreamResult(r, c, v)]
  <2>1. result' # result
    OBVIOUS
  <2>2. LET t == Head(queue[r])
            m == Cardinality({j \in 1..t.k : Route(r, program[j]) = t.task})
            w == [s \in Needed(r, program[t.k]) |-> posts[t.task][s][m]]
        IN  /\ t.task # "kernel"
            /\ \A s \in Needed(r, program[t.k]) : Len(posts[t.task][s]) >= m
            /\ result' = [result EXCEPT ![r][t.k] =
                            IF t.task = "self" THEN w[r] ELSE StreamResult(r, program[t.k], w)]
    BY <2>1, Zenon DEF Stream
  <2>3. PICK t, m, w :
          /\ t = Head(queue[r])
          /\ m = Cardinality({j \in 1..t.k : Route(r, program[j]) = t.task})
          /\ w = [s \in Needed(r, program[t.k]) |-> posts[t.task][s][m]]
          /\ t.task # "kernel"
          /\ \A s \in Needed(r, program[t.k]) : Len(posts[t.task][s]) >= m
          /\ result' = [result EXCEPT ![r][t.k] =
                          IF t.task = "self" THEN w[r] ELSE StreamResult(r, program[t.k], w)]
    BY <2>2, Zenon
  <2>4. t.k = h /\ t.task = b
    BY <1>2, <1>3, <2>3
  <2>5. m = n
    BY <1>4, <2>3, <2>4
  <2>6. w = v
    BY <1>4, <1>5, <2>3, <2>4, <2>5
  <2>7. QED
    BY <1>4, <2>3, <2>4, <2>5, <2>6
<1>7. k = h /\ result'[r][h] = IF b = "self" THEN v[r] ELSE StreamResult(r, c, v)
  BY <1>1, <1>3, <1>6 DEF Tables
<1>8. b = Route(r, c) /\ ~HoldsHost(b, c) /\ ~Refuses(b, c) /\ b \in Channels
  BY <1>2, <1>3, <1>4, <1>6, SameRoute DEF TaskInPlace
<1>9. b # "p2p" /\ ~IsHop(c) /\ IsTurn(r, b, h)
  BY <1>4, <1>8, TurnOfCall DEF HoldsHost
<1>10. n = Count(r, b, h)
  BY <1>4, <1>9, StreamCount
<1>11. /\ c \in CallType /\ c.root \in Ranks /\ setting \in Settings
       /\ setting.world \in Nat /\ setting.world >= 1
  BY <1>1, <1>3, <1>4, Call
<1>12. Needed(r, c) \subseteq Ranks
  BY <1>11 DEF Needed
<1>13. ASSUME NEW s \in Needed(r, c) PROVE posts[b][s][n] = Tensor(s, h)
  <2>1. s \in Ranks /\ Len(posts[b][s]) >= n
    BY <1>6, <1>12
  <2>2. IsTurn(s, b, h) /\ Count(s, b, h) = n
    BY <1>9, <1>10, SameTurns
  <2>3. Len(posts[b][s]) \in Nat /\ n \in Nat
    BY <1>1, <1>3, <1>8, <1>10, <2>1, CountStep DEF Tables, Shapes
  <2>4. Count(s, b, h) <= Len(posts[b][s])
    BY <2>1, <2>2, <2>3
  <2>5. QED
    BY <1>1, <1>3, <1>8, <2>1, <2>2, <2>4, ContributionOf
<1>14. v = [s \in Needed(r, program[h]) |-> Tensor(s, h)]
  BY <1>4, <1>5, <1>13
<1>15. CASE setting.world = 1
  <2>1. b = "self" /\ r = 0 /\ c.root = 0 /\ Ranks = {0}
    BY <1>8, <1>9, <1>11, <1>15, World DEF Route
  <2>2. r \in Needed(r, c)
    BY <2>1 DEF Needed
  <2>3. result'[r][h] = Tensor(r, h)
    BY <1>4, <1>7, <1>14, <2>1, <2>2
  <2>4. Expected(r, h) = Tensor(r, h)
    BY <1>4, <1>9, <1>15 DEF Expected
  <2>5. QED
    BY <1>1, <1>3, <1>4, <1>7, <1>8, <2>3, <2>4, NewOutcome
<1>16. CASE setting.world > 1
  <2>1. b # "self" /\ c.op # "gather"
    BY <1>8, <1>9, <1>16 DEF Route, HoldsHost, IsHop
  <2>2. result'[r][h] = HostResult(r, c, v)
    BY <1>7, <1>9, <1>11, <2>1, StreamGives
  <2>3. HostResult(r, c, v) = Expected(r, h)
    BY <1>4, <1>9, <1>11, <1>14, <1>16, HostGives
  <2>4. QED
    BY <1>1, <1>3, <1>4, <1>7, <1>8, <2>2, <2>3, NewOutcome
<1>17. QED
  BY <1>11, <1>15, <1>16

\* The workload stays a sequence of whole hops.
LEMMA PairedTogether ==
  ASSUME NEW p \in Seq(CallType), NEW b \in Seq(CallType), Paired(p), Paired(b)
  PROVE  Paired(p \o b)
<1>1. PICK n, l, q : n = Len(p) /\ l = Len(b) /\ q = p \o b
  OBVIOUS
<1>2. /\ n \in Nat /\ l \in Nat /\ DOMAIN q = 1..(n + l) /\ DOMAIN p = 1..n
      /\ DOMAIN b = 1..l
  BY <1>1
<1>3. /\ \A i \in 1..n : q[i] = p[i]
      /\ \A i \in 1..l : q[n + i] = b[i]
  BY <1>1, <1>2
<1>4. ASSUME NEW i \in DOMAIN q
      PROVE  /\ q[i].op = "hop_out" => i + 1 \in DOMAIN q /\ q[i + 1].op = "hop_back"
             /\ q[i].op = "hop_back" => i - 1 \in DOMAIN q /\ q[i - 1].op = "hop_out"
  <2>1. CASE i \in 1..n
    <3>1. /\ q[i] = p[i] /\ i \in Nat
          /\ p[i].op = "hop_out" => i + 1 \in 1..n /\ p[i + 1].op = "hop_back"
          /\ p[i].op = "hop_back" => i - 1 \in 1..n /\ p[i - 1].op = "hop_out"
      BY <1>2, <1>3, <2>1 DEF Paired
    <3>2. \A j \in 1..n : j \in DOMAIN q
      BY <1>2
    <3>3. QED
      BY <1>3, <3>1, <3>2
  <2>2. CASE i \notin 1..n
    <3>1. PICK j \in 1..l : i = n + j
      <4>1. i - n \in 1..l /\ i = n + (i - n)
        BY <1>2, <2>2
      <4>2. QED
        BY <4>1
    <3>2. /\ q[i] = b[j] /\ j \in Nat
          /\ b[j].op = "hop_out" => j + 1 \in 1..l /\ b[j + 1].op = "hop_back"
          /\ b[j].op = "hop_back" => j - 1 \in 1..l /\ b[j - 1].op = "hop_out"
      <4>1. q[i] = b[j] /\ j \in Nat
        BY <1>2, <1>3, <3>1
      <4>2. j \in DOMAIN b /\ DOMAIN b = 1..l
        BY <1>2, <3>1
      <4>3. QED
        BY <4>1, <4>2 DEF Paired
    <3>3. \A x \in 1..l : n + x \in DOMAIN q
      BY <1>2
    <3>4. i + 1 = n + (j + 1) /\ i - 1 = n + (j - 1)
      BY <1>2, <3>1, <3>2
    <3>5. QED
      BY <1>3, <3>2, <3>3, <3>4
  <2>3. QED
    BY <2>1, <2>2
<1>5. QED
  BY <1>1, <1>4 DEF Paired

\* Every block the engine schedules consists of whole hops.
HopsArePaired == \A b \in Blocks : Paired(b)

\* Every step keeps the results.
LEMMA NextRInv ==
  ASSUME HopsArePaired, RInv, [Next]_vars
  PROVE  RInv'
<1>1. /\ WInv /\ WInv' /\ Shapes /\ Tables /\ Fixed /\ Grown /\ Paired(program)
      /\ (\A r \in Ranks : \A k \in K : Outcome(r, k)) /\ Ranks' = Ranks /\ K' = K
  BY NextWInv, SettingFixed, NextGrown DEF RInv, WInv, DInv, Fixed, K
<1>2. Paired(program)'
  <2>1. ASSUME NEW b \in Blocks, Schedule(b) PROVE Paired(program)'
    <3>1. program' = program \o b /\ b \in Seq(CallType) /\ program \in Seq(CallType)
      BY <1>1, <2>1, VllmAssumption DEF Schedule, Shapes
    <3>2. Paired(program \o b)
      BY <1>1, <3>1, PairedTogether DEF HopsArePaired
    <3>3. QED
      BY <3>1, <3>2 DEF Paired
  <2>2. ASSUME program' = program PROVE Paired(program)'
    BY <1>1, <2>2 DEF Paired
  <2>3. QED
    BY <2>1, <2>2, HostLeavesEngine DEF Next, Stop, vars, engine
<1>3. ASSUME NEW r \in Ranks, NEW k \in K PROVE Outcome(r, k)'
  <2>1. CASE result'[r][k] = result[r][k]
    BY <1>1, <2>1, StillOutcome
  <2>2. CASE result'[r][k] # result[r][k]
    <3>1. PICK s \in Ranks : Host(s) \/ Stream(s)
      <4>1. result' # result
        BY <2>2
      <4>2. QED
        BY <4>1 DEF Next, Schedule, Stop, vars, tensors
    <3>2. s = r
      BY <1>1, <2>2, <3>1, OthersStill
    <3>3. CASE Stream(r)
      BY <1>1, <2>2, <3>3, StreamOutcome
    <3>4. CASE Host(r)
      <4>1. \/ Issue(r) \/ CopyToStage(r) \/ HostReturn(r) \/ RecvReturn(r) \/ SendReturn(r)
            \/ (Quiet(r) /\ result' = result)
        BY <1>1, <3>4, HostSteps
      <4>2. ~(CopyToStage(r) \/ (Quiet(r) /\ result' = result))
        BY <2>2 DEF CopyToStage
      <4>3. CASE Issue(r)
        <5>1. /\ k = next[r] /\ Refuses(Route(r, program[k]), program[k])
              /\ k <= Len(program) /\ result'[r][k] = Refused /\ program' = program
          BY <1>1, <2>2, <4>3 DEF Issue, Tables, engine
        <5>2. k \in 1..Len(program)
          BY <1>1, <5>1, VllmAssumption DEF K, Shapes
        <5>3. QED
          BY <1>1, <5>1, <5>2, NewOutcome
      <4>4. CASE HostReturn(r) \/ RecvReturn(r) \/ SendReturn(r)
        <5>1. k = next[r]
          <6>1. PICK x : result' = [result EXCEPT ![r][next[r]] = x]
            BY <4>4 DEF HostReturn, RecvReturn, SendReturn, Returns
          <6>2. QED
            BY <1>1, <2>2, <6>1 DEF Tables
        <5>2. QED
          BY <1>1, <4>4, <5>1, HostOutcome, RecvOutcome, SendOutcome
      <4>5. QED
        BY <4>1, <4>2, <4>3, <4>4
    <3>5. QED
      BY <3>1, <3>2, <3>3, <3>4
  <2>3. QED
    BY <2>1, <2>2
<1>4. QED
  BY <1>1, <1>2, <1>3 DEF RInv

\* Every tensor a collective returns holds the collective of all ranks' inputs of
\* that very call, and a call is refused on every rank or on none, as long as the
\* engine schedules the two halves of a trip round the ring together.
THEOREM CollectivesDeliver ==
  ASSUME HopsArePaired
  PROVE  Spec => []ResultsAreCollective
<1>1. Init => RInv
  <2> SUFFICES ASSUME Init PROVE RInv
    OBVIOUS
  <2>1. WInv
    BY InitWInv
  <2>2. \A r \in Ranks : \A k \in K : Outcome(r, k)
    BY DEF Init, Outcome
  <2>3. Paired(program)
    BY DEF Init, Paired
  <2>4. QED
    BY <2>1, <2>2, <2>3 DEF RInv
<1>2. RInv /\ [Next]_vars => RInv'
  BY NextRInv
<1>3. RInv => ResultsAreCollective
  <2> SUFFICES ASSUME RInv, NEW k \in 1..Len(program)
               PROVE  /\ \A r \in Ranks : result[r][k] \in {Pending, Refused, Expected(r, k)}
                      /\ (\E r \in Ranks : result[r][k] = Refused) =>
                           \A r \in Ranks : result[r][k] \in {Pending, Refused}
    BY DEF ResultsAreCollective
  <2>1. /\ k \in K /\ program[k] \in CallType /\ program[k].root \in Ranks
        /\ setting \in Settings
    BY Call DEF RInv, WInv, DInv
  <2>2. \A r \in Ranks : Outcome(r, k)
    BY <2>1 DEF RInv
  <2>3. \A r \in Ranks : result[r][k] \in {Pending, Refused, Expected(r, k)}
    BY <2>2 DEF Outcome
  <2>4. ASSUME NEW r \in Ranks, result[r][k] = Refused, NEW s \in Ranks
        PROVE  result[s][k] \in {Pending, Refused}
    <3>1. Expected(r, k) # Refused
      BY <2>1, ExpectedIsNoRefusal
    <3>2. Pending # Refused
      BY DEF Pending, Refused
    <3>3. Refuses(Route(r, program[k]), program[k])
      BY <2>2, <2>4, <3>1, <3>2 DEF Outcome
    <3>4. Route(s, program[k]) = Route(r, program[k])
      BY SameRoute
    <3>5. QED
      BY <2>2, <3>3, <3>4 DEF Outcome
  <2>5. QED
    BY <2>3, <2>4
<1>4. QED
  BY <1>1, <1>2, <1>3, PTL DEF Spec

=============================================================================
