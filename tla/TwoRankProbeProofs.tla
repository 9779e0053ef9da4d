------------------------- MODULE TwoRankProbeProofs -------------------------
(***************************************************************************)
(* The safety of the two-process probes for any number of failing calls    *)
(* and crashing children.  What is claimed for behaviours without failures *)
(* does not depend on a bound, so that model checking settles it.          *)
(*                                                                         *)
(* An invariant of a probe says what holds of the two children at each     *)
(* place of their programs.  The places come from the programs themselves: *)
(* the first part of this module shows what the steps of each program are. *)
(***************************************************************************)
EXTENDS TwoRankProbe, SequenceTheorems, TLAPS

Kinds == {"call", "hold", "open", "free", "close", "post", "meet", "enqueue", "sync",
          "risky", "write", "read", "key", "check", "unset", "send", "recv", "hangup",
          "set", "await", "abort"}
Ops == [op: {"signal", "wait", "result", "read", "write"}, on: Fences, val: Nat]

\* What a child can hold, and the entries of its record.
Resources == {"dist", "d3d12", "rccl", "shm", "memory", "import", "heap0", "heap1",
              "mapping", "registered", "barrier", "comm", "send_buffer",
              "receive_buffer"}
Entries == {"export_succeeded", "import_succeeded", "data_correct", "opened",
            "received_correct", "correct", "registered", "mapped_peer_copy_correct",
            "passed", "initialized", "collective_returned"}
Messages == {"handle", "empty", "record"}
Args == {"none"} \cup Resources \cup Channels \cup Messages \cup (SUBSET Entries)
          \cup Rank \cup Fences \cup (SUBSET Fences) \cup Seq(Ops)

\* The steps of programs, with the arguments that the actions presume.
Instruction ==
  {s \in [needs: Resources \cup {"nothing"}, do: Kinds, arg: Args] :
     /\ s.do \in {"post", "meet"} => s.arg \in Channels
     /\ s.do = "enqueue" => s.arg \in Seq(Ops)
     /\ s.do \in {"write", "read"} => s.arg \in Rank}

\* The operations on a stream that leave the memory between the ranks alone.
PlainOps ==
  {o \in Ops : o.op \in {"signal", "wait", "result"}
               /\ o.on[1] \in {"rccl", "d3d12", "shm", "gloo"}}

\* The steps of the probes that only use the transports: whatever they read comes
\* from a collective, and their host waits end when the peer's process does.
Ordinary ==
  {s \in Instruction :
     /\ s.do \in {"call", "hold", "free", "close", "post", "meet", "enqueue", "sync",
                  "risky", "key", "check", "unset"}
     /\ s.do = "hold" => s.arg # "import"
     /\ s.do \in {"post", "meet"} => s.arg \in {"gloo", "win32", "init"}
     /\ s.do = "enqueue" =>
          s.arg \in Seq(PlainOps)}

\* The steps that never make an entry of the record true.
Silent == {s \in Instruction : s.do \notin {"key", "check"}}

Block == {"body", "except", "finally"}
Program(r) == Child[probe][r][pc[r].block]

-----------------------------------------------------------------------------
Shapes ==
  /\ probe \in DOMAIN Parent
  /\ status \in [Rank -> {"new", "running", "ended", "failed", "crashed", "terminated"}]
  /\ pc \in [Rank -> [block: Block \cup {"exit"}, at: Nat]]
  /\ \A r \in Rank : pc[r].block # "exit" => pc[r].at \in 1..Len(Program(r))
  /\ DOMAIN held = Rank /\ DOMAIN keys = Rank /\ DOMAIN got = Rank /\ DOMAIN memory = Rank
  /\ queue \in [Rank -> Seq(Ops)]
  /\ fence \in [Fences -> Nat]
  /\ DOMAIN pipe = Rank
  /\ broken \in BOOLEAN
  /\ raised \subseteq Rank /\ wrong \subseteq Rank

\* What the end of a process says about its place.
Placed(r) ==
  /\ status[r] = "new" => pc[r] = [block |-> "body", at |-> 1]
  /\ status[r] = "ended" => pc[r].block = "exit"
  /\ status[r] = "failed" => pc[r].block = "finally"

\* A child that raised has taken back an entry its parent asks for, or is about to.
Confessed(r) ==
  /\ pc[r].block = "body" => r \notin raised
  /\ r \in raised =>
       \/ pc[r] = [block |-> "except", at |-> 1]
       \/ ~(Parent[probe].needs[r] \subseteq keys[r])

\* A verdict of success was given on two records that ask for it, and is the last word.
Judged ==
  verdict = "passed" =>
    /\ main > Len(Steps)
    /\ \A r \in Rank : status[r] = "ended" /\ Parent[probe].needs[r] \subseteq keys[r]

\* The parent starts each child once.
StartAt == IF Steps[1] = "start" THEN 1 ELSE 2
Fresh ==
  /\ main \in Nat \ {0} /\ turn \in Rank
  /\ main < StartAt => turn = 0
  /\ main <= StartAt => status[1] = "new" /\ (turn = 0 => status[0] = "new")

CInv == Shapes /\ Judged /\ Fresh /\ \A r \in Rank : Placed(r) /\ Confessed(r)
-----------------------------------------------------------------------------
(* hip_ipc_probe.py *)

\* The importer no longer has the exporter's allocation mapped.
Released ==
  \/ Over(1) \/ pc[1].block = "exit"
  \/ pc[1].block = "finally" /\ pc[1].at >= 2

\* The importer has not been given the handle.
Unheard ==
  /\ pipe[1] \in Seq({"empty"})
  /\ pc[1].block = "body" => pc[1].at = 1
  /\ "import" \notin held[1]

\* The exporter waits for the reply.
Waiting ==
  /\ pc[0] = [block |-> "body", at |-> 7]
  /\ "memory" \in held[0] /\ memory[0] = 0

Ipc ==
  /\ pipe[0] \in Seq({"record"}) /\ pipe[1] \in Seq({"handle", "empty"})
  /\ pc[0].block = "body" /\ pc[0].at >= 3 => "memory" \in held[0]
  /\ pc[0].block = "body" /\ pc[0].at >= 4 => memory[0] = 0
  /\ "import" \in held[1] => ~Released \/ Over(1)
  /\ pipe[0] # <<>> => Released
  /\ Waiting \/ Released \/ Unheard
-----------------------------------------------------------------------------
(* The probes with a slot per rank. *)

SlotProbes == {"mapped", "bench_shm", "bench_kernel"}
Meeting == IF probe = "mapped" THEN "mp" ELSE "win32"
Written == IF probe = "bench_kernel" THEN 6 ELSE 5

Slots(r) ==
  /\ memory[r] \in {r, Nobody}
  /\ fence[<<Meeting, r>>] >= 1 => memory[r] = r
  /\ pc[r].block = "body" =>
       /\ pc[r].at > Written => memory[r] = r
       /\ pc[r].at > Written + 1 => fence[<<Meeting, r>>] >= 1
       /\ pc[r].at > Written + 2 => fence[<<Meeting, Peer(r)>>] >= 1
-----------------------------------------------------------------------------
(* The probes with D3D12 heaps. *)

HeapProbes == {"cross", "bench_d3d12"}

\* The step at which the try block of rank r sets its event.
SetAt(r) == IF probe = "cross" /\ r = 1 THEN 4 ELSE 3

\* Whoever may wait for this rank's event finds it set.
Woken(r) ==
  \/ pc[r].block = "body" /\ pc[r].at > SetAt(r)
  \/ pc[r].block = "except" /\ pc[r].at >= 3
  \/ pc[r].block \in {"finally", "exit"}
  => fence[<<"ready", r>>] >= 1

\* The barrier of benchmark_d3d12_cross_adapter.py is met once or broken.
Met(r) ==
  /\ fence[<<"mp", r>>] <= 1
  /\ pc[r].block = "body" /\ pc[r].at <= 13 => fence[<<"mp", r>>] = 0
  /\ \/ pc[r].block = "body" /\ pc[r].at >= 14
     \/ pc[r].block \in {"finally", "exit"}
     => broken \/ fence[<<"mp", r>>] = 1

\* While its stream has work, a child holds both heaps.
Busy(r) ==
  /\ pc[r].block = "body" /\ pc[r].at >= 3 => HeapOf(r) \in held[r]
  /\ pc[r].block = "body" /\ pc[r].at >= 6 => HeapOf(Peer(r)) \in held[r]
  /\ queue[r] # <<>> =>
       /\ \A p \in Rank : HeapOf(p) \in held[r]
       /\ pc[r].block # "exit" /\ (pc[r].block = "finally" => pc[r].at = 1)

\* The operations of a child, in the order of its program.
CrossScript(r) ==
  IF r = 0 THEN <<Op("write", <<"heap", 0>>, 0), Op("signal", <<"heap", 0>>, 1),
                  Op("wait", <<"heap", 0>>, 2), Op("read", <<"heap", 0>>, 0)>>
  ELSE <<Op("wait", <<"heap", 0>>, 1), Op("read", <<"heap", 0>>, 0),
         Op("write", <<"heap", 0>>, 0), Op("signal", <<"heap", 0>>, 2)>>
BenchScript(r) ==
  <<Op("write", <<"heap", r>>, 0), Op("signal", <<"heap", r>>, 1),
    Op("wait", <<"heap", 1 - r>>, 1), Op("read", <<"heap", 1 - r>>, 0),
    Op("signal", <<"heap", 1 - r>>, 2), Op("wait", <<"heap", r>>, 2),
    Op("write", <<"heap", r>>, 0), Op("signal", <<"heap", r>>, 3),
    Op("wait", <<"heap", 1 - r>>, 3), Op("read", <<"heap", 1 - r>>, 0),
    Op("signal", <<"heap", 1 - r>>, 4), Op("wait", <<"heap", r>>, 4)>>
Script(r) == IF probe = "cross" THEN CrossScript(r) ELSE BenchScript(r)

\* How many of them are enqueued at a place of the body.
Enqueued(at) ==
  IF probe = "cross"
  THEN IF at <= 5 THEN 0 ELSE IF at >= 9 THEN 4 ELSE at - 5
  ELSE IF at <= 6 THEN 0 ELSE IF at <= 12 THEN at - 6
       ELSE IF at <= 15 THEN 6 ELSE IF at <= 21 THEN at - 9 ELSE 12

\* The stream holds what is enqueued and not yet executed, d operations being executed.
Streaming(r, d) ==
  \E e \in d..Len(Script(r)) :
    /\ queue[r] = SubSeq(Script(r), d + 1, e)
    /\ pc[r].block = "body" => e = Enqueued(pc[r].at)

\* What is in the heaps after d operations of each rank.
Contents(d) ==
  IF probe = "cross"
  THEN /\ d[1] >= 1 => d[0] >= 2
       /\ d[0] >= 3 => d[1] = 4
       /\ fence[<<"heap", 0>>] = IF d[1] = 4 THEN 2 ELSE IF d[0] >= 2 THEN 1 ELSE 0
       /\ memory[0] = IF d[1] >= 3 THEN 1 ELSE IF d[0] >= 1 THEN 0 ELSE Nobody
  ELSE \A r \in Rank :
         /\ memory[r] = IF d[r] >= 1 THEN r ELSE Nobody
         /\ fence[<<"heap", r>>] >= 1 => d[r] >= 1
         /\ d[r] >= 3 => d[Peer(r)] >= 1

Heaps ==
  \E d \in [Rank -> 0..12] : Contents(d) /\ \A r \in Rank : Streaming(r, d[r])

\* The streams hold operations that leave the memory between the ranks alone.
PlainStreams == queue \in [Rank -> Seq(PlainOps)]

\* The invariant of all the probes.
GInv ==
  /\ CInv
  /\ wrong = {}
  /\ probe # "ipc" => "import" \notin held[1]
  /\ probe \notin HeapProbes => PlainStreams
  /\ probe = "ipc" => Ipc
  /\ probe \in SlotProbes => \A r \in Rank : Slots(r)
  /\ probe \in HeapProbes => Heaps /\ \A r \in Rank : Woken(r)
  /\ probe = "bench_d3d12" => \A r \in Rank : Met(r) /\ Busy(r)
-----------------------------------------------------------------------------
(* The programs.                                                           *)

\* The nonempty programs of steps from G.
Programs(G) == {p \in Seq(G) : Len(p) >= 1}

\* An except block that begins by taking back an entry.
TakesBack(p, needs) ==
  /\ p[1].needs = "nothing" /\ p[1].do = "unset"
  /\ \E k \in needs : k \in p[1].arg

\* What the proofs need of the child functions of every probe.
Sound(c, needs) ==
  /\ c.body \in Programs(Instruction)
  /\ c.except \in Programs(Silent) /\ TakesBack(c.except, needs)
  /\ c.finally \in Programs(Silent)

\* A child function of a probe that only uses the transports.
Usual(c) ==
  /\ c.body \in Programs(Ordinary)
  /\ c.except \in Programs(Ordinary)
  /\ c.finally \in Programs(Ordinary)

\* A program of one step.
LEMMA OneStep ==
  ASSUME NEW G, NEW n, NEW d, NEW a, [needs |-> n, do |-> d, arg |-> a] \in G
  PROVE  If(n, d, a) \in Programs(G)
  BY DEF If, Programs

\* Programs are closed under sequencing, whichever steps they are made of.
LEMMA Sequencing ==
  ASSUME NEW G, NEW p \in Programs(G), NEW q \in Programs(G)
  PROVE  p \o q \in Programs(G)
  BY ConcatProperties DEF Programs

\* A program of some steps is one of more.
LEMMA Wider ==
  ASSUME NEW G, NEW H, G \subseteq H, NEW p \in Programs(G)
  PROVE  p \in Programs(H)
  BY DEF Programs

\* What an argument can be.
LEMMA ArgKinds ==
  /\ "none" \in Args
  /\ \A x \in Resources : x \in Args
  /\ \A x \in Channels : x \in Args
  /\ \A x \in Messages : x \in Args
  /\ \A x \in SUBSET Entries : x \in Args
  /\ \A x \in Rank : x \in Args
  /\ \A x \in Fences : x \in Args
  /\ \A x \in SUBSET Fences : x \in Args
  /\ \A x \in Seq(Ops) : x \in Args
  BY DEF Args

\* A step with what it needs is an instruction.
LEMMA IsInstruction ==
  ASSUME NEW n \in Resources \cup {"nothing"}, NEW d \in Kinds, NEW a \in Args,
         d \in {"post", "meet"} => a \in Channels,
         d = "enqueue" => a \in Seq(Ops),
         d \in {"write", "read"} => a \in Rank
  PROVE  [needs |-> n, do |-> d, arg |-> a] \in Instruction
  BY DEF Instruction

\* The same for the ordinary ones.
LEMMA IsOrdinary ==
  ASSUME NEW n \in Resources \cup {"nothing"}, NEW a \in Args,
         NEW d \in {"call", "hold", "free", "close", "post", "meet", "enqueue", "sync",
                    "risky", "key", "check", "unset"},
         d = "hold" => a # "import",
         d \in {"post", "meet"} => a \in {"gloo", "win32", "init"},
         d = "enqueue" => a \in Seq(PlainOps) /\ a \in Seq(Ops)
  PROVE  If(n, d, a) \in Programs(Ordinary)
<1>1. d \in Kinds /\ (d \in {"post", "meet"} => a \in Channels)
  BY DEF Kinds, Channels
<1>2. [needs |-> n, do |-> d, arg |-> a] \in Instruction
  BY <1>1, IsInstruction
<1>3. [needs |-> n, do |-> d, arg |-> a] \in Ordinary
  BY <1>2 DEF Ordinary
<1>4. QED
  BY <1>3, OneStep

\* The steps that the ordinary programs are built from.
LEMMA Bricks ==
  /\ Call \in Programs(Ordinary) /\ Sync \in Programs(Ordinary)
  /\ \A x \in Resources : x # "import" => Hold(x) \in Programs(Ordinary)
  /\ \A x \in Resources : Free(x) \in Programs(Ordinary) /\ Close(x) \in Programs(Ordinary)
  /\ \A x \in Resources \cup {"nothing"} : \A c \in {"gloo", "win32", "init"} :
       If(x, "post", c) \in Programs(Ordinary) /\ If(x, "meet", c) \in Programs(Ordinary)
  /\ \A x \in Resources \cup {"nothing"} :
       If(x, "sync", "none") \in Programs(Ordinary) /\ If(x, "risky", "none") \in Programs(Ordinary)
  /\ \A k \in SUBSET Entries : \A d \in {"key", "check", "unset"} : Do(d, k) \in Programs(Ordinary)
<1>1. Call \in Programs(Ordinary) /\ Sync \in Programs(Ordinary)
  BY ArgKinds, IsOrdinary DEF Call, Sync, Do
<1>2. ASSUME NEW x \in Resources, x # "import" PROVE Hold(x) \in Programs(Ordinary)
  BY <1>2, ArgKinds, IsOrdinary DEF Hold, Do
<1>3. ASSUME NEW x \in Resources PROVE Free(x) \in Programs(Ordinary) /\ Close(x) \in Programs(Ordinary)
  BY ArgKinds, IsOrdinary DEF Free, Close
<1>4. ASSUME NEW x \in Resources \cup {"nothing"}, NEW c \in {"gloo", "win32", "init"}
      PROVE  If(x, "post", c) \in Programs(Ordinary) /\ If(x, "meet", c) \in Programs(Ordinary)
  <2>1. c \in Args
    BY ArgKinds DEF Channels
  <2>2. QED
    BY <2>1, IsOrdinary
<1>5. ASSUME NEW x \in Resources \cup {"nothing"}
      PROVE  If(x, "sync", "none") \in Programs(Ordinary) /\ If(x, "risky", "none") \in Programs(Ordinary)
  BY ArgKinds, IsOrdinary
<1>6. ASSUME NEW k \in SUBSET Entries, NEW d \in {"key", "check", "unset"}
      PROVE  Do(d, k) \in Programs(Ordinary)
  BY ArgKinds, IsOrdinary DEF Do
<1>7. QED
  BY <1>1, <1>2, <1>3, <1>4, <1>5, <1>6

\* The operations of a collective are ordinary.
LEMMA CollectiveBrick ==
  ASSUME NEW c \in {"rccl", "d3d12", "shm"}, NEW n \in Nat, NEW r \in Rank
  PROVE  Collective(c, n, r) \in Programs(Ordinary)
<1>1. /\ Op("signal", <<c, r>>, n) \in PlainOps
      /\ Op("wait", <<c, 1 - r>>, n) \in PlainOps
      /\ Op("result", <<c, r>>, n) \in PlainOps
  BY DEF PlainOps, Ops, Op, Fences, Channels, Rank
<1> DEFINE ops == <<Op("signal", <<c, r>>, n), Op("wait", <<c, 1 - r>>, n),
                    Op("result", <<c, r>>, n)>>
<1>2. ops \in Seq(PlainOps) /\ PlainOps \subseteq Ops
  BY <1>1 DEF PlainOps
<1> HIDE DEF ops
<1>3. ops \in Seq(Ops)
  BY <1>2
<1>4. QED
  BY <1>2, <1>3, ArgKinds, IsOrdinary DEF Collective, Enq, Do, ops

\* Joining a process group, the constructors and the destructors.
LEMMA CompoundBricks ==
  /\ \A c \in {"gloo", "win32", "init"} : Meet(c) \in Programs(Ordinary)
  /\ InitGroup \in Programs(Ordinary) /\ LeaveGroup \in Programs(Ordinary)
  /\ NewD3D12 \in Programs(Ordinary) /\ NewRccl \in Programs(Ordinary) /\ NewShm \in Programs(Ordinary)
  /\ DestroyD3D12 \in Programs(Ordinary) /\ DestroyRccl \in Programs(Ordinary)
  /\ DestroyShm \in Programs(Ordinary)
<1> DEFINE S == Programs(Ordinary)
<1>1. \A p, q \in S : p \o q \in S
  BY Sequencing
<1>2. \A c \in {"gloo", "win32", "init"} : Meet(c) \in S
  BY <1>1, Bricks DEF Meet, Do
<1>3. /\ Call \in S /\ Hold("dist") \in S /\ Hold("d3d12") \in S /\ Hold("rccl") \in S
      /\ Hold("shm") \in S /\ Close("d3d12") \in S /\ Close("rccl") \in S /\ Close("shm") \in S
  BY Bricks DEF Resources
<1>4. /\ If("d3d12", "sync", "none") \in S /\ If("rccl", "sync", "none") \in S
      /\ If("shm", "sync", "none") \in S /\ LeaveGroup \in S
      /\ If("d3d12", "post", "gloo") \in S /\ If("d3d12", "meet", "gloo") \in S
      /\ If("shm", "post", "win32") \in S /\ If("shm", "meet", "win32") \in S
  BY Bricks DEF Resources, LeaveGroup
<1> HIDE DEF S
<1>5. InitGroup \in S
  BY <1>1, <1>2, <1>3 DEF InitGroup
<1>6. NewD3D12 \in S /\ NewRccl \in S /\ NewShm \in S
  BY <1>1, <1>2, <1>3 DEF NewD3D12, NewRccl, NewShm
<1>7. DestroyD3D12 \in S /\ DestroyRccl \in S /\ DestroyShm \in S
  BY <1>1, <1>3, <1>4 DEF DestroyD3D12, DestroyRccl, DestroyShm
<1>8. QED
  BY <1>2, <1>4, <1>5, <1>6, <1>7 DEF S

\* A step of an all_reduce through the host.
LEMMA HostBrick ==
  ASSUME NEW r \in Rank
  PROVE  HostAllReduce(r) \in Programs(Ordinary)
<1>1. Op("result", <<"gloo", r>>, 0) \in PlainOps
  BY DEF PlainOps, Ops, Op, Fences, Channels
<1> DEFINE ops == <<Op("result", <<"gloo", r>>, 0)>>
<1>2. ops \in Seq(PlainOps) /\ PlainOps \subseteq Ops
  BY <1>1 DEF PlainOps
<1> HIDE DEF ops
<1>3. ops \in Seq(Ops)
  BY <1>2
<1>4. Enq(ops) \in Programs(Ordinary)
  BY <1>2, <1>3, ArgKinds, IsOrdinary DEF Enq, Do
<1>5. QED
  BY <1>4, Bricks, CompoundBricks, Sequencing DEF HostAllReduce, ops

UsualProbes == {"gloo", "host_staged", "d3d12", "stream", "hybrid", "torch", "rccl"}

\* The child functions of seven probes only use the transports.
LEMMA UsualPrograms ==
  ASSUME NEW r \in Rank, NEW n \in UsualProbes
  PROVE  Usual(Child[n][r])
<1> DEFINE S == Programs(Ordinary)
<1>1. \A p, q \in S : p \o q \in S
  BY Sequencing
<1>2. Call \in S /\ Sync \in S /\ Meet("gloo") \in S /\ Meet("init") \in S
  BY Bricks, CompoundBricks
<1>3. /\ InitGroup \in S /\ LeaveGroup \in S
      /\ NewD3D12 \in S /\ NewRccl \in S /\ NewShm \in S
      /\ DestroyD3D12 \in S /\ DestroyRccl \in S /\ DestroyShm \in S
  BY CompoundBricks
<1>4. \A c \in {"rccl", "d3d12", "shm"} : \A k \in Nat : Collective(c, k, r) \in S
  BY CollectiveBrick
<1>5. HostAllReduce(r) \in S
  BY HostBrick
<1>6. /\ Do("check", {"passed"}) \in S /\ Do("key", {"passed"}) \in S
      /\ Do("unset", {"passed"}) \in S /\ Do("check", {"correct"}) \in S
      /\ Do("key", {"initialized"}) \in S /\ Do("key", {"collective_returned"}) \in S
      /\ Do("unset", {"collective_returned", "correct"}) \in S
  BY Bricks DEF Entries
<1>7. /\ Hold("comm") \in S /\ Hold("send_buffer") \in S /\ Hold("receive_buffer") \in S
      /\ Free("comm") \in S /\ Free("send_buffer") \in S /\ Free("receive_buffer") \in S
  BY Bricks DEF Resources
<1> HIDE DEF S
<1>8. /\ GlooRank(r).body \in S /\ GlooRank(r).except \in S /\ GlooRank(r).finally \in S
  BY <1>1, <1>2, <1>3, <1>4, <1>6 DEF GlooRank
<1>9. /\ HostStagedRank(r).body \in S /\ HostStagedRank(r).except \in S
      /\ HostStagedRank(r).finally \in S
  BY <1>1, <1>2, <1>3, <1>5, <1>6 DEF HostStagedRank
<1>10. /\ D3D12Rank(r).body \in S /\ D3D12Rank(r).except \in S /\ D3D12Rank(r).finally \in S
  BY <1>1, <1>2, <1>3, <1>4, <1>6 DEF D3D12Rank
<1>11. /\ StreamRank(r).body \in S /\ StreamRank(r).except \in S /\ StreamRank(r).finally \in S
  BY <1>1, <1>2, <1>3, <1>4, <1>6 DEF StreamRank
<1>12. /\ HybridRank(r).body \in S /\ HybridRank(r).except \in S /\ HybridRank(r).finally \in S
  BY <1>1, <1>2, <1>3, <1>4, <1>6 DEF HybridRank
<1>13. /\ TorchRank(r).body \in S /\ TorchRank(r).except \in S /\ TorchRank(r).finally \in S
  BY <1>1, <1>2, <1>3, <1>4, <1>6 DEF TorchRank
<1>14. /\ RcclRank(r).body \in S /\ RcclRank(r).except \in S /\ RcclRank(r).finally \in S
  BY <1>1, <1>2, <1>4, <1>6, <1>7 DEF RcclRank
<1>15. /\ Child["gloo"][r] = GlooRank(r) /\ Child["host_staged"][r] = HostStagedRank(r)
       /\ Child["d3d12"][r] = D3D12Rank(r) /\ Child["stream"][r] = StreamRank(r)
       /\ Child["hybrid"][r] = HybridRank(r) /\ Child["torch"][r] = TorchRank(r)
       /\ Child["rccl"][r] = RcclRank(r)
  BY DEF Child
<1>16. QED
  BY <1>8, <1>9, <1>10, <1>11, <1>12, <1>13, <1>14, <1>15 DEF Usual, UsualProbes, S

\* A step of an except or a finally block.
LEMMA IsSilent ==
  ASSUME NEW n \in Resources \cup {"nothing"}, NEW d \in Kinds, NEW a \in Args,
         d \notin {"key", "check", "enqueue", "write", "read"},
         d \in {"post", "meet"} => a \in Channels
  PROVE  If(n, d, a) \in Programs(Silent)
<1>1. [needs |-> n, do |-> d, arg |-> a] \in Instruction
  BY IsInstruction
<1>2. [needs |-> n, do |-> d, arg |-> a] \in Silent
  BY <1>1 DEF Silent
<1>3. QED
  BY <1>2, OneStep

\* The parts of the except and finally blocks.
LEMMA SilentBricks ==
  /\ \A k \in SUBSET Entries : Do("unset", k) \in Programs(Silent)
  /\ \A x \in Resources : Free(x) \in Programs(Silent) /\ If(x, "risky", "none") \in Programs(Silent)
  /\ LeaveGroup \in Programs(Silent) /\ Sync \in Programs(Silent)
  /\ DestroyD3D12 \in Programs(Silent) /\ DestroyRccl \in Programs(Silent)
  /\ DestroyShm \in Programs(Silent)
  /\ Do("abort", "none") \in Programs(Silent) /\ Do("hangup", "none") \in Programs(Silent)
  /\ \A m \in Messages : Do("send", m) \in Programs(Silent)
  /\ \A f \in SUBSET Fences : Do("set", f) \in Programs(Silent)
<1> USE IsSilent, ArgKinds DEF Kinds
<1>1. \A k \in SUBSET Entries : Do("unset", k) \in Programs(Silent)
  BY DEF Do
<1>2. \A x \in Resources : Free(x) \in Programs(Silent) /\ If(x, "risky", "none") \in Programs(Silent)
  BY DEF Free
<1>3. LeaveGroup \in Programs(Silent) /\ Sync \in Programs(Silent)
  BY DEF LeaveGroup, Sync, Do, Resources
<1>4. Do("abort", "none") \in Programs(Silent) /\ Do("hangup", "none") \in Programs(Silent)
  BY DEF Do
<1>5. \A m \in Messages : Do("send", m) \in Programs(Silent)
  BY DEF Do
<1>6. \A f \in SUBSET Fences : Do("set", f) \in Programs(Silent)
  BY DEF Do
<1>7. \A x \in Resources :
        Close(x) \in Programs(Silent) /\ If(x, "sync", "none") \in Programs(Silent)
  BY DEF Close
<1>8. \A x \in Resources : \A c \in Channels :
        If(x, "post", c) \in Programs(Silent) /\ If(x, "meet", c) \in Programs(Silent)
  OBVIOUS
<1>9. "gloo" \in Channels /\ "win32" \in Channels
  BY DEF Channels
<1>10. DestroyD3D12 \in Programs(Silent) /\ DestroyRccl \in Programs(Silent)
       /\ DestroyShm \in Programs(Silent)
  BY <1>7, <1>8, <1>9, Sequencing DEF DestroyD3D12, DestroyRccl, DestroyShm, Resources
<1>11. QED
  BY <1>1, <1>2, <1>3, <1>4, <1>5, <1>6, <1>10

\* The seven probes above are sound.
LEMMA UsualSound ==
  ASSUME NEW r \in Rank, NEW n \in UsualProbes
  PROVE  Sound(Child[n][r], Parent[n].needs[r])
<1> DEFINE S == Programs(Silent)
<1>1. /\ Child["gloo"][r] = GlooRank(r) /\ Child["host_staged"][r] = HostStagedRank(r)
      /\ Child["d3d12"][r] = D3D12Rank(r) /\ Child["stream"][r] = StreamRank(r)
      /\ Child["hybrid"][r] = HybridRank(r) /\ Child["torch"][r] = TorchRank(r)
      /\ Child["rccl"][r] = RcclRank(r)
  BY DEF Child
<1>2. \A p, q \in S : p \o q \in S
  BY Sequencing
<1>3. /\ LeaveGroup \in S /\ DestroyD3D12 \in S /\ DestroyRccl \in S /\ DestroyShm \in S
      /\ Free("comm") \in S /\ Free("send_buffer") \in S /\ Free("receive_buffer") \in S
      /\ Do("unset", {"passed"}) \in S /\ Do("unset", {"collective_returned", "correct"}) \in S
  BY SilentBricks DEF Resources, Entries
<1> HIDE DEF S
<1>4. /\ GlooRank(r).except \in S /\ GlooRank(r).finally \in S
      /\ HostStagedRank(r).except \in S /\ HostStagedRank(r).finally \in S
      /\ D3D12Rank(r).except \in S /\ D3D12Rank(r).finally \in S
      /\ StreamRank(r).except \in S /\ StreamRank(r).finally \in S
      /\ HybridRank(r).except \in S /\ HybridRank(r).finally \in S
      /\ TorchRank(r).except \in S /\ TorchRank(r).finally \in S
      /\ RcclRank(r).except \in S /\ RcclRank(r).finally \in S
  BY <1>2, <1>3
  DEF GlooRank, HostStagedRank, D3D12Rank, StreamRank, HybridRank, TorchRank, RcclRank
<1>5. /\ Parent["gloo"] = GlooMain /\ Parent["host_staged"] = HostStagedMain
      /\ Parent["d3d12"] = D3D12Main /\ Parent["stream"] = StreamMain
      /\ Parent["hybrid"] = HybridMain /\ Parent["torch"] = TorchMain
      /\ Parent["rccl"] = RcclMain
  BY DEF Parent
<1>6. /\ "passed" \in GlooMain.needs[r] /\ "passed" \in HostStagedMain.needs[r]
      /\ "passed" \in D3D12Main.needs[r] /\ "passed" \in StreamMain.needs[r]
      /\ "passed" \in HybridMain.needs[r] /\ "passed" \in TorchMain.needs[r]
      /\ "correct" \in RcclMain.needs[r]
  BY DEF GlooMain, HostStagedMain, D3D12Main, StreamMain, HybridMain, TorchMain, RcclMain,
         Main, Passed
<1>7. \A needs :
        /\ "passed" \in needs =>
             /\ TakesBack(GlooRank(r).except, needs) /\ TakesBack(HostStagedRank(r).except, needs)
             /\ TakesBack(D3D12Rank(r).except, needs) /\ TakesBack(StreamRank(r).except, needs)
             /\ TakesBack(HybridRank(r).except, needs) /\ TakesBack(TorchRank(r).except, needs)
        /\ "correct" \in needs => TakesBack(RcclRank(r).except, needs)
  BY DEF TakesBack, GlooRank, HostStagedRank, D3D12Rank, StreamRank, HybridRank, TorchRank,
         RcclRank, Do, If
<1>8. TakesBack(Child[n][r].except, Parent[n].needs[r])
  BY <1>1, <1>5, <1>6, <1>7 DEF UsualProbes
<1>9. Child[n][r].except \in S /\ Child[n][r].finally \in S
  BY <1>1, <1>4 DEF UsualProbes
<1>10. Child[n][r].body \in Programs(Instruction)
  BY UsualPrograms, Wider DEF Usual, Ordinary
<1>11. QED
  BY <1>8, <1>9, <1>10 DEF Sound, S

\* The steps that the other six probes are built from.
LEMMA OtherBricks ==
  /\ Call \in Programs(Instruction) /\ Sync \in Programs(Instruction)
  /\ Do("recv", "none") \in Programs(Instruction)
  /\ \A x \in Resources : Hold(x) \in Programs(Instruction) /\ Open(x) \in Programs(Instruction)
  /\ \A c \in Channels : Meet(c) \in Programs(Instruction)
  /\ \A k \in SUBSET Entries : \A d \in {"key", "check"} : Do(d, k) \in Programs(Instruction)
  /\ \A m \in Messages : Do("send", m) \in Programs(Instruction)
  /\ \A f \in SUBSET Fences : Do("set", f) \in Programs(Instruction)
  /\ \A f \in Fences : Do("await", f) \in Programs(Instruction)
  /\ \A h \in Rank : Do("write", h) \in Programs(Instruction) /\ Do("read", h) \in Programs(Instruction)
<1>1. ASSUME NEW d \in Kinds, NEW a \in Args,
             d \in {"post", "meet"} => a \in Channels,
             d = "enqueue" => a \in Seq(Ops),
             d \in {"write", "read"} => a \in Rank
      PROVE  Do(d, a) \in Programs(Instruction)
  BY <1>1, IsInstruction, OneStep DEF Do
<1> USE <1>1, ArgKinds DEF Kinds
<1>2. Call \in Programs(Instruction) /\ Sync \in Programs(Instruction)
      /\ Do("recv", "none") \in Programs(Instruction)
  BY DEF Call, Sync
<1>3. \A x \in Resources : Hold(x) \in Programs(Instruction) /\ Open(x) \in Programs(Instruction)
  BY DEF Hold, Open
<1>4. \A c \in Channels : Meet(c) \in Programs(Instruction)
  BY Sequencing DEF Meet
<1>5. \A k \in SUBSET Entries : \A d \in {"key", "check"} : Do(d, k) \in Programs(Instruction)
  OBVIOUS
<1>6. \A m \in Messages : Do("send", m) \in Programs(Instruction)
  OBVIOUS
<1>7. \A f \in SUBSET Fences : Do("set", f) \in Programs(Instruction)
  OBVIOUS
<1>8. \A f \in Fences : Do("await", f) \in Programs(Instruction)
  OBVIOUS
<1>9. \A h \in Rank :
        Do("write", h) \in Programs(Instruction) /\ Do("read", h) \in Programs(Instruction)
  OBVIOUS
<1>10. QED
  BY <1>2, <1>3, <1>4, <1>5, <1>6, <1>7, <1>8, <1>9

\* An operation on a heap, enqueued.
LEMMA HeapBrick ==
  ASSUME NEW h \in Rank, NEW v \in Nat, NEW o \in {"signal", "wait", "read", "write"}
  PROVE  Heap(h, o, v) \in Programs(Instruction) /\ Op(o, <<"heap", h>>, v) \in Ops
<1> DEFINE ops == <<Op(o, <<"heap", h>>, v)>>
<1>1. Op(o, <<"heap", h>>, v) \in Ops
  BY DEF Ops, Op, Fences, Channels
<1>2. ops \in Seq(Ops)
  BY <1>1
<1> HIDE DEF ops
<1>3. [needs |-> "nothing", do |-> "enqueue", arg |-> ops] \in Instruction
  BY <1>2, ArgKinds, IsInstruction DEF Kinds
<1>4. QED
  BY <1>1, <1>3, OneStep DEF Heap, Enq, Do, ops

\* The two functions of hip_ipc_probe.py are sound.
LEMMA IpcSound ==
  ASSUME NEW r \in Rank
  PROVE  Sound(Child["ipc"][r], Parent["ipc"].needs[r])
<1>1. Child["ipc"][0] = IpcExporter /\ Child["ipc"][1] = IpcImporter
  BY DEF Child, Rank
<1>2. "export_succeeded" \in Parent["ipc"].needs[0] /\ "data_correct" \in Parent["ipc"].needs[1]
  BY DEF Parent, IpcMain, Main, Rank
<1>3. /\ TakesBack(IpcExporter.except, Parent["ipc"].needs[0])
      /\ TakesBack(IpcImporter.except, Parent["ipc"].needs[1])
  BY <1>2 DEF TakesBack, IpcExporter, IpcImporter, Do, If
<1>4. IpcExporter.body \in Programs(Instruction)
  BY OtherBricks, Sequencing DEF IpcExporter, Export, Resources, Messages, Entries, Rank
<1>5. IpcImporter.body \in Programs(Instruction)
  BY OtherBricks, Sequencing DEF IpcImporter, Resources, Messages, Entries, Rank
<1>6. /\ IpcExporter.except \in Programs(Silent) /\ IpcExporter.finally \in Programs(Silent)
      /\ IpcImporter.except \in Programs(Silent) /\ IpcImporter.finally \in Programs(Silent)
  BY SilentBricks, Sequencing DEF IpcExporter, IpcImporter, Resources, Messages, Entries
<1>7. QED
  BY <1>1, <1>3, <1>4, <1>5, <1>6 DEF Sound, Rank

\* So are those of the probes with a slot per rank.
LEMMA SlotsSound ==
  ASSUME NEW r \in Rank, NEW n \in SlotProbes
  PROVE  Sound(Child[n][r], Parent[n].needs[r])
<1>1. /\ Child["mapped"][r] = MappedRank(r) /\ Child["bench_shm"][r] = BenchShmRank(r)
      /\ Child["bench_kernel"][r] = BenchKernelRank(r)
  BY DEF Child
<1>2. /\ "correct" \in Parent["mapped"].needs[r] /\ "passed" \in Parent["bench_shm"].needs[r]
      /\ "passed" \in Parent["bench_kernel"].needs[r]
  BY DEF Parent, MappedMain, BenchShmMain, BenchKernelMain, Main, Passed
<1>3. /\ TakesBack(MappedRank(r).except, Parent["mapped"].needs[r])
      /\ TakesBack(BenchShmRank(r).except, Parent["bench_shm"].needs[r])
      /\ TakesBack(BenchKernelRank(r).except, Parent["bench_kernel"].needs[r])
  BY <1>2 DEF TakesBack, MappedRank, FailVerdict, BenchShmRank, BenchKernelRank, Do, If
<1> DEFINE S == Programs(Instruction)
<1>4. \A p, q \in S : p \o q \in S
  BY Sequencing
<1>5. /\ Call \in S /\ Hold("mapping") \in S /\ Hold("registered") \in S /\ Hold("barrier") \in S
      /\ Meet("mp") \in S /\ Meet("win32") \in S
      /\ Do("write", r) \in S /\ Do("read", 1 - r) \in S
      /\ Do("check", {"passed"}) \in S /\ Do("key", {"registered"}) \in S
      /\ Do("check", {"correct", "mapped_peer_copy_correct"}) \in S
  <2>1. 1 - r \in Rank
    BY DEF Rank
  <2>2. {"correct", "mapped_peer_copy_correct"} \in SUBSET Entries
    BY DEF Entries
  <2>3. QED
    BY <2>1, <2>2, OtherBricks DEF Resources, Channels, Entries
<1> HIDE DEF S
<1>6. MappedRank(r).body \in S
  BY <1>4, <1>5 DEF MappedRank
<1>7. SlotAllReduce(r) \in S /\ KernelAllReduce(r) \in S
  BY <1>4, <1>5 DEF SlotAllReduce, KernelAllReduce
<1>8. BenchShmRank(r).body \in S /\ BenchKernelRank(r).body \in S
  BY <1>4, <1>5, <1>7 DEF BenchShmRank, BenchKernelRank
<1>9. /\ MappedRank(r).except \in Programs(Silent) /\ MappedRank(r).finally \in Programs(Silent)
      /\ BenchShmRank(r).except \in Programs(Silent) /\ BenchShmRank(r).finally \in Programs(Silent)
      /\ BenchKernelRank(r).except \in Programs(Silent)
      /\ BenchKernelRank(r).finally \in Programs(Silent)
  BY SilentBricks, Sequencing
  DEF MappedRank, FailVerdict, BenchShmRank, BenchKernelRank, Resources, Entries
<1>10. QED
  BY <1>1, <1>3, <1>6, <1>8, <1>9 DEF Sound, SlotProbes, S

\* And those of the probes with D3D12 heaps.
LEMMA HeapsSound ==
  ASSUME NEW r \in Rank, NEW n \in HeapProbes
  PROVE  Sound(Child[n][r], Parent[n].needs[r])
<1>1. Child["cross"][r] = CrossRank(r) /\ Child["bench_d3d12"][r] = BenchD3D12Rank(r)
  BY DEF Child
<1>2. "opened" \in Parent["cross"].needs[r] /\ "opened" \in Parent["bench_d3d12"].needs[r]
  BY DEF Parent, CrossMain, BenchD3D12Main, Main
<1>3. /\ TakesBack(CrossRank(r).except, Parent["cross"].needs[r])
      /\ TakesBack(BenchD3D12Rank(r).except, Parent["bench_d3d12"].needs[r])
  BY <1>2 DEF TakesBack, CrossRank, BenchD3D12Rank, WakePeer, Do, If
<1> DEFINE S == Programs(Instruction)
<1>4. \A p, q \in S : p \o q \in S
  BY Sequencing
<1>5. /\ Call \in S /\ Sync \in S /\ Meet("mp") \in S
      /\ Hold("heap0") \in S /\ Hold("heap1") \in S /\ Open("heap0") \in S /\ Open("heap1") \in S
      /\ Do("check", {"received_correct"}) \in S /\ Do("key", {"opened"}) \in S
      /\ Do("check", {"correct"}) \in S
  BY OtherBricks DEF Resources, Channels, Entries
<1>6. \A p \in Rank : Do("set", {<<"ready", p>>}) \in S /\ Do("await", <<"ready", p>>) \in S
  <2>1. \A p \in Rank : <<"ready", p>> \in Fences
    BY DEF Fences, Channels
  <2>2. QED
    BY <2>1, OtherBricks
<1>7. \A h \in Rank : \A v \in Nat : \A o \in {"signal", "wait", "read", "write"} :
        Heap(h, o, v) \in S
  BY HeapBrick
<1>8. 0 \in Rank /\ 1 \in Rank /\ 1 - r \in Rank
  BY DEF Rank
<1>9. HandOver(r) \in S /\ Exchange(r, 0) \in S /\ Exchange(r, 1) \in S
  <2> HIDE DEF S
  <2>1. HandOver(r) \in S
    BY <1>4, <1>7, <1>8 DEF HandOver
  <2>2. ASSUME NEW i \in {0, 1} PROVE Exchange(r, i) \in S
    <3>1. i * 2 + 1 \in Nat /\ i * 2 + 1 + 1 \in Nat
      OBVIOUS
    <3>2. QED
      BY <1>4, <1>7, <1>8, <3>1 DEF Exchange
  <2>3. QED
    BY <2>1, <2>2
<1>10. CreateAndOpen(r) \in S
  <2> HIDE DEF S
  <2>1. QED
    BY <1>4, <1>5, <1>6, <1>8 DEF CreateAndOpen, HeapOf
<1>11. CrossRank(r).body \in S /\ BenchD3D12Rank(r).body \in S
  <2> HIDE DEF S
  <2>1. CrossRank(r).body \in S
    BY <1>4, <1>5, <1>6, <1>8, <1>9 DEF CrossRank
  <2>2. BenchD3D12Rank(r).body \in S
    BY <1>4, <1>5, <1>9, <1>10 DEF BenchD3D12Rank
  <2>3. QED
    BY <2>1, <2>2
<1>12. {<<"ready", 0>>, <<"ready", 1>>} \in SUBSET Fences
  BY DEF Fences, Channels, Rank
<1>13. /\ CrossRank(r).except \in Programs(Silent) /\ CrossRank(r).finally \in Programs(Silent)
       /\ BenchD3D12Rank(r).except \in Programs(Silent)
       /\ BenchD3D12Rank(r).finally \in Programs(Silent)
  BY <1>12, SilentBricks, Sequencing
  DEF CrossRank, BenchD3D12Rank, WakePeer, SyncAndClose, HeapOf, Resources, Entries
<1>14. QED
  BY <1>1, <1>3, <1>11, <1>13 DEF Sound, HeapProbes, S

\* Every child function of every probe is sound.
LEMMA AllSound ==
  ASSUME NEW r \in Rank, NEW n \in DOMAIN Parent
  PROVE  /\ Sound(Child[n][r], Parent[n].needs[r])
         /\ n \in UsualProbes \cup SlotProbes \cup HeapProbes \cup {"ipc"}
<1>1. n \in UsualProbes \cup SlotProbes \cup HeapProbes \cup {"ipc"}
  BY DEF Parent, UsualProbes, SlotProbes, HeapProbes
<1>2. QED
  BY <1>1, UsualSound, SlotsSound, HeapsSound, IpcSound

-----------------------------------------------------------------------------
(* The steps of a child, by the kind of its instruction.                   *)

Acts(r, s) == s.needs \in held[r] \cup {"nothing"}

\* What a step that succeeds does to the state.
Effect(r, s) ==
  /\ pc' = [pc EXCEPT ![r] = After(r, s)]
  /\ UNCHANGED <<setup, status, raised, results, parent, faults, late>>
  /\ Acts(r, s) /\ s.do \in {"await", "meet", "sync", "recv", "open"} => Ready(r, s)
  /\ held' = IF Acts(r, s) /\ s.do \in {"hold", "open"}
             THEN [held EXCEPT ![r] = @ \cup {s.arg}]
             ELSE IF Acts(r, s) /\ s.do \in {"free", "close"}
             THEN [held EXCEPT ![r] = @ \ {s.arg}] ELSE held
  /\ \/ keys' = keys /\ (Acts(r, s) => s.do # "unset")
     \/ s.do \in {"key", "check"} /\ keys' = [keys EXCEPT ![r] = @ \cup s.arg]
     \/ s.do \in {"unset", "check"} /\ keys' = [keys EXCEPT ![r] = @ \ s.arg]
  /\ IF Acts(r, s) /\ s.do = "read" THEN Saw(r, memory[s.arg]) ELSE UNCHANGED <<got, wrong>>
  /\ memory' = IF Acts(r, s) /\ s.do = "write" THEN [memory EXCEPT ![s.arg] = r] ELSE memory
  /\ queue' = IF Acts(r, s) /\ s.do = "enqueue"
              THEN [queue EXCEPT ![r] = @ \o s.arg] ELSE queue
  /\ fence' = IF Acts(r, s) /\ s.do = "set"
              THEN [f \in Fences |-> IF f \in s.arg THEN 1 ELSE fence[f]]
              ELSE IF Acts(r, s) /\ s.do = "post"
              THEN [fence EXCEPT ![<<s.arg, r>>] = @ + 1] ELSE fence
  /\ pipe' = IF Acts(r, s) /\ s.do = "send"
             THEN [pipe EXCEPT ![Peer(r)] = Append(@, s.arg)]
             ELSE IF Acts(r, s) /\ s.do = "recv"
             THEN [pipe EXCEPT ![r] = Tail(@)] ELSE pipe
  /\ broken' = IF Acts(r, s) /\ s.do = "abort" THEN TRUE ELSE broken

\* What a step that fails does to it.
Failure(r, s) ==
  /\ Raise(r, s) /\ Acts(r, s)
  /\ s.do \in MayFail \cup {"meet", "recv", "send", "open", "await"}
  /\ s.do \in {"recv", "send"} => Refused(r, s)
  /\ queue' = IF s.do = "sync" THEN [queue EXCEPT ![r] = <<>>] ELSE queue
  /\ broken' \in {broken, TRUE}
  /\ UNCHANGED <<setup, got, wrong, fence, memory, pipe, results, parent>>

\* The actions of a child amount to that.
LEMMA StepEffect ==
  ASSUME NEW r, NEW s, Step(r, s)
  PROVE  Effect(r, s)
<1> USE DEF At, Acts, Effect, Advance, own, between
<1>1. CASE Skip(r, s)
  BY <1>1 DEF Skip
<1>2. CASE Work(r, s)
  BY <1>2 DEF Work
<1>3. CASE Take(r, s)
  BY <1>3 DEF Take, Ready
<1>4. CASE Release(r, s)
  BY <1>4 DEF Release
<1>5. CASE Note(r, s)
  BY <1>5 DEF Note
<1>6. CASE CopyIn(r, s)
  BY <1>6 DEF CopyIn
<1>7. CASE CopyOut(r, s)
  BY <1>7 DEF CopyOut
<1>8. CASE SetEvents(r, s)
  BY <1>8 DEF SetEvents
<1>9. CASE Arrive(r, s)
  BY <1>9 DEF Arrive
<1>10. CASE Pass(r, s)
  BY <1>10 DEF Pass
<1>11. CASE Enqueue(r, s)
  BY <1>11 DEF Enqueue
<1>12. CASE Send(r, s)
  BY <1>12 DEF Send
<1>13. CASE Receive(r, s)
  BY <1>13 DEF Receive
<1>14. CASE AbortBarrier(r, s)
  BY <1>14 DEF AbortBarrier
<1>15. QED
  BY <1>1, <1>2, <1>3, <1>4, <1>5, <1>6, <1>7, <1>8, <1>9, <1>10, <1>11, <1>12, <1>13,
     <1>14 DEF Step

\* So do its failures.
LEMMA FailureEffect ==
  ASSUME NEW r, NEW s, GoesWrong(r, s), broken \in BOOLEAN
  PROVE  Failure(r, s)
<1> USE DEF At, Acts, Failure, between, MayFail
<1>1. CASE PeerRefuses(r, s)
  BY <1>1 DEF PeerRefuses
<1>2. CASE TimeOut(r, s)
  BY <1>2 DEF TimeOut, Timed
<1>3. CASE Fault(r, s)
  BY <1>3 DEF Fault
<1>4. QED
  BY <1>1, <1>2, <1>3 DEF GoesWrong

\* What a child is at is an instruction of the block it is in.
LEMMA NowIs ==
  ASSUME Shapes, NEW r \in Rank, NEW s \in Now(r)
  PROVE  /\ status[r] = "running" /\ pc[r].block \in Block
         /\ pc[r].at \in 1..Len(Program(r)) /\ pc[r].at \in Nat /\ Len(Program(r)) \in Nat
         /\ s.needs = Program(r)[pc[r].at].needs /\ s.do = Program(r)[pc[r].at].do
         /\ s.arg = Program(r)[pc[r].at].arg
         /\ s.last <=> pc[r].at = Len(Program(r))
         /\ Program(r) \in Programs(Instruction) /\ Program(r)[pc[r].at] \in Instruction
         /\ pc[r].block # "body" => Program(r) \in Programs(Silent) /\ Program(r)[pc[r].at] \in Silent
<1>1. /\ Running(r) /\ pc[r].block # "exit"
      /\ s = [needs |-> Program(r)[pc[r].at].needs, do |-> Program(r)[pc[r].at].do,
              arg |-> Program(r)[pc[r].at].arg, last |-> pc[r].at = Len(Program(r))]
  BY DEF Now, Program
<1>2. pc[r].block \in Block /\ pc[r].at \in 1..Len(Program(r)) /\ pc[r].at \in Nat
  BY <1>1 DEF Shapes
<1>3. /\ Program(r) \in Programs(Instruction)
      /\ pc[r].block # "body" => Program(r) \in Programs(Silent)
  <2>1. Sound(Child[probe][r], Parent[probe].needs[r])
    BY AllSound DEF Shapes
  <2>2. Silent \subseteq Instruction
    BY DEF Silent
  <2>3. QED
    BY <1>2, <2>1, <2>2, Wider DEF Sound, Program, Block
<1>4. /\ Program(r)[pc[r].at] \in Instruction /\ Len(Program(r)) \in Nat
      /\ pc[r].block # "body" => Program(r)[pc[r].at] \in Silent
  BY <1>2, <1>3 DEF Programs
<1>5. QED
  BY <1>1, <1>2, <1>3, <1>4 DEF Running

-----------------------------------------------------------------------------
(* Control flow, records and verdicts.                                     *)

\* A place in the programs of rank r.
Place(r, p) ==
  /\ p \in [block: Block \cup {"exit"}, at: Nat]
  /\ p.block # "exit" => p.at \in 1..Len(Child[probe][r][p.block])

\* A child that goes on, or enters a block, is at a step of it.
LEMMA AfterPlace ==
  ASSUME Shapes, NEW r \in Rank, NEW s \in Now(r)
  PROVE  /\ Place(r, After(r, s))
         /\ \A b \in Block : Place(r, [block |-> b, at |-> 1])
         /\ ~s.last => After(r, s) = [block |-> pc[r].block, at |-> pc[r].at + 1]
         /\ s.last /\ pc[r].block = "finally" => After(r, s) = [block |-> "exit", at |-> 1]
         /\ s.last /\ pc[r].block # "finally" => After(r, s) = [block |-> "finally", at |-> 1]
<1>1. /\ pc[r].block \in Block /\ pc[r].at \in Nat /\ Len(Program(r)) \in Nat
      /\ pc[r].at \in 1..Len(Program(r)) /\ (s.last <=> pc[r].at = Len(Program(r)))
  BY NowIs
<1>2. \A b \in Block : Place(r, [block |-> b, at |-> 1])
  <2>1. Sound(Child[probe][r], Parent[probe].needs[r])
    BY AllSound DEF Shapes
  <2>2. QED
    BY <2>1 DEF Sound, Place, Block, Programs
<1>3. /\ ~s.last => After(r, s) = [block |-> pc[r].block, at |-> pc[r].at + 1]
      /\ s.last /\ pc[r].block = "finally" => After(r, s) = [block |-> "exit", at |-> 1]
      /\ s.last /\ pc[r].block # "finally" => After(r, s) = [block |-> "finally", at |-> 1]
  BY <1>1 DEF After, Shapes
<1>4. Place(r, After(r, s))
  BY <1>1, <1>2, <1>3 DEF Place, Program, Block
<1>5. QED
  BY <1>2, <1>3, <1>4

\* Shapes in terms of places.
LEMMA ShapesPlaces ==
  ASSUME Shapes
  PROVE  \A r \in Rank : Place(r, pc[r])
  BY DEF Shapes, Place, Program

\* What a step of a child leaves alone: the other child.
LEMMA OthersStill ==
  ASSUME Shapes, NEW r \in Rank, NEW s \in Now(r), Effect(r, s) \/ Failure(r, s)
  PROVE  /\ setup' = setup /\ parent' = parent /\ probe' = probe /\ verdict' = verdict
         /\ main' = main
         /\ \A q \in Rank \ {r} :
              /\ status'[q] = status[q] /\ pc'[q] = pc[q] /\ held'[q] = held[q]
              /\ keys'[q] = keys[q] /\ got'[q] = got[q] /\ queue'[q] = queue[q]
              /\ q \in raised' <=> q \in raised
<1>1. CASE Effect(r, s)
  BY <1>1 DEF Effect, setup, parent, Saw, Shapes
<1>2. CASE Failure(r, s)
  BY <1>2 DEF Failure, Raise, setup, parent, Shapes
<1>3. QED
  BY <1>1, <1>2

\* Where a failure takes a child.
LEMMA FailurePlace ==
  ASSUME Shapes, NEW r \in Rank, NEW s \in Now(r), Failure(r, s)
  PROVE  \/ /\ pc[r].block = "body" /\ pc'[r] = [block |-> "except", at |-> 1]
            /\ status' = status /\ raised' = raised \cup {r} /\ held' = held /\ keys' = keys
         \/ /\ pc[r].block = "finally" /\ pc'[r] = After(r, s) /\ s.do # "risky"
            /\ status' = status /\ raised' = raised /\ held'[r] = held[r] \ {s.needs}
            /\ keys'[r] = keys[r] \ {"passed"}
         \/ /\ pc[r].block = "finally" /\ pc' = pc /\ status'[r] = "failed"
            /\ raised' = raised /\ held' = held /\ keys' = keys
  BY DEF Failure, Raise, Shapes

\* The shapes are kept by the children.
LEMMA ChildShapes ==
  ASSUME Shapes, NEW r \in Rank, NEW s \in Now(r), Effect(r, s) \/ Failure(r, s)
  PROVE  Shapes'
<1>1. /\ setup' = setup /\ probe' = probe /\ probe \in DOMAIN Parent
      /\ \A p : Place(r, p)' <=> Place(r, p)
  BY OthersStill DEF Shapes, Place
<1>2. /\ s.do = Program(r)[pc[r].at].do /\ s.arg = Program(r)[pc[r].at].arg
      /\ Program(r)[pc[r].at] \in Instruction /\ status[r] = "running"
  BY NowIs
<1>3. Place(r, After(r, s)) /\ Place(r, pc[r]) /\ Place(r, [block |-> "except", at |-> 1])
  BY AfterPlace, ShapesPlaces DEF Block
<1>4. /\ pc' \in [Rank -> [block: Block \cup {"exit"}, at: Nat]]
      /\ \A q \in Rank : pc'[q].block # "exit" => pc'[q].at \in 1..Len(Program(q)')
  <2>1. PICK p : Place(r, p) /\ pc' = [pc EXCEPT ![r] = p]
    <3>1. CASE Effect(r, s)
      BY <1>3, <3>1 DEF Effect
    <3>2. CASE Failure(r, s)
      <4>1. pc = [pc EXCEPT ![r] = pc[r]]
        BY DEF Shapes
      <4>2. \/ pc' = [pc EXCEPT ![r] = [block |-> "except", at |-> 1]]
            \/ pc' = [pc EXCEPT ![r] = After(r, s)] \/ pc' = pc
        BY <3>2 DEF Failure, Raise
      <4>3. QED
        BY <1>3, <4>1, <4>2
    <3>3. QED
      BY <3>1, <3>2
  <2>2. QED
    BY <1>1, <2>1 DEF Shapes, Place, Program
<1>5. fence' \in [Fences -> Nat] /\ queue' \in [Rank -> Seq(Ops)]
  <2>1. CASE Failure(r, s)
    BY <2>1 DEF Failure, Shapes
  <2>2. CASE Effect(r, s)
    <3>1. s.do = "enqueue" => s.arg \in Seq(Ops)
      BY <1>2 DEF Instruction
    <3>2. s.do = "post" => <<s.arg, r>> \in Fences
      BY <1>2 DEF Instruction, Fences
    <3>3. queue' \in [Rank -> Seq(Ops)]
      BY <2>2, <3>1, ConcatProperties DEF Effect, Shapes
    <3>4. fence' \in [Fences -> Nat]
      BY <2>2, <3>2 DEF Effect, Shapes
    <3>5. QED
      BY <3>3, <3>4
  <2>3. QED
    BY <2>1, <2>2
<1>6. /\ status' \in [Rank -> {"new", "running", "ended", "failed", "crashed", "terminated"}]
      /\ DOMAIN held' = Rank /\ DOMAIN keys' = Rank /\ DOMAIN got' = Rank
      /\ DOMAIN memory' = Rank /\ DOMAIN pipe' = Rank
      /\ broken' \in BOOLEAN /\ raised' \subseteq Rank /\ wrong' \subseteq Rank
  <2>1. CASE Failure(r, s)
    BY <2>1 DEF Failure, Raise, Shapes
  <2>2. CASE Effect(r, s)
    BY <2>2 DEF Effect, Saw, Shapes
  <2>3. QED
    BY <2>1, <2>2
<1>7. QED
  BY <1>1, <1>4, <1>5, <1>6 DEF Shapes

\* They are kept by all the others.
LEMMA NextShapes ==
  ASSUME Shapes, [Next]_vars
  PROVE  Shapes'
<1>1. ASSUME NEW r \in Rank, NEW s \in Now(r), Step(r, s) \/ GoesWrong(r, s) PROVE Shapes'
  BY <1>1, ChildShapes, StepEffect, FailureEffect DEF Shapes
<1> USE DEF Shapes, Program, setup, parent, own, between
<1>2. ASSUME NEW r \in Rank, Exit(r) PROVE Shapes'
  BY <1>2 DEF Exit
<1>3. ASSUME NEW r \in Rank, Crash(r) PROVE Shapes'
  BY <1>3 DEF Crash
<1>4. ASSUME NEW r \in Rank, Device(r) PROVE Shapes'
  <2>1. /\ Head(queue[r]) \in Ops /\ Tail(queue[r]) \in Seq(Ops)
    BY <1>4, HeadTailProperties DEF Device
  <2>2. queue' \in [Rank -> Seq(Ops)] /\ fence' \in [Fences -> Nat]
    BY <1>4, <2>1 DEF Device, Ops
  <2>3. DOMAIN got' = Rank /\ DOMAIN memory' = Rank /\ wrong' \subseteq Rank
    BY <1>4 DEF Device, Saw
  <2>4. QED
    BY <1>4, <2>2, <2>3 DEF Device
<1>5. ASSUME ParentStep PROVE Shapes'
  BY <1>5 DEF ParentStep, Prepare, PrepareFails, Start, Join, Terminate, Get
<1>6. ASSUME UNCHANGED vars PROVE Shapes'
  BY <1>6 DEF vars
<1>7. QED
  BY <1>1, <1>2, <1>3, <1>4, <1>5, <1>6 DEF Next

-----------------------------------------------------------------------------
\* A step that is not taken by a child's program or its stream: a process starts or
\* ends, or the parent goes on.
Outside ==
  /\ UNCHANGED <<setup, pc, raised, own, queue, between>>
  /\ main' >= main
  /\ \A r \in Rank :
       \/ status'[r] = status[r]
       \/ status[r] = "running" /\ status'[r] = "ended" /\ pc[r].block = "exit"
       \/ status[r] = "running" /\ status'[r] = "crashed"
       \/ status[r] \in {"new", "running"} /\ status'[r] = "terminated"
       \/ status[r] = "new" /\ status'[r] = "running"

\* The parents' programs: they start the children first, or second, and judge last.
LEMMA ParentPrograms ==
  ASSUME probe \in DOMAIN Parent
  PROVE  /\ Len(Steps) \in 4..5
         /\ Steps[Len(Steps)] = "get"
         /\ \A i \in 1..Len(Steps) : Steps[i] = "get" => i = Len(Steps)
         /\ \A i \in 1..Len(Steps) : Steps[i] = "start" <=> i = StartAt
         /\ \A i \in 1..Len(Steps) : i > 1 => Steps[i] \notin {"create", "load"}
         /\ Steps[1] \in {"start", "create", "load"}
<1>1. \/ Steps = Plain \/ Steps = <<"start", "close", "join", "terminate", "get">>
      \/ Steps = <<"create">> \o Plain \/ Steps = <<"load">> \o Plain
  <2>1. \/ Parent[probe] = IpcMain \/ Parent[probe] = CrossMain
        \/ Parent[probe] = BenchD3D12Main \/ Parent[probe] = MappedMain
        \/ Parent[probe] = BenchShmMain \/ Parent[probe] = BenchKernelMain
        \/ Parent[probe] = GlooMain \/ Parent[probe] = HostStagedMain
        \/ Parent[probe] = D3D12Main \/ Parent[probe] = StreamMain
        \/ Parent[probe] = HybridMain \/ Parent[probe] = TorchMain
        \/ Parent[probe] = RcclMain
    BY DEF Parent
  <2>2. IpcMain.steps = <<"start", "close", "join", "terminate", "get">>
    BY DEF IpcMain, Main
  <2>3. /\ CrossMain.steps = Plain /\ BenchD3D12Main.steps = Plain /\ GlooMain.steps = Plain
        /\ HostStagedMain.steps = Plain /\ D3D12Main.steps = Plain
        /\ StreamMain.steps = Plain /\ HybridMain.steps = Plain /\ TorchMain.steps = Plain
    BY DEF Main, CrossMain, BenchD3D12Main, GlooMain, HostStagedMain, D3D12Main, StreamMain,
           HybridMain, TorchMain
  <2>4. /\ MappedMain.steps = <<"create">> \o Plain
        /\ BenchShmMain.steps = <<"create">> \o Plain
        /\ BenchKernelMain.steps = <<"create">> \o Plain
        /\ RcclMain.steps = <<"load">> \o Plain
    BY DEF Main, MappedMain, BenchShmMain, BenchKernelMain, RcclMain
  <2>5. QED
    BY <2>1, <2>2, <2>3, <2>4 DEF Steps
<1>2. CASE Len(Steps) = 4 /\ Steps = Plain
  <2>1. /\ Steps[1] = "start" /\ Steps[2] = "join" /\ Steps[3] = "terminate"
        /\ Steps[4] = "get"
    BY <1>2 DEF Plain
  <2>2. QED
    BY <1>2, <2>1 DEF StartAt
<1>3. CASE Steps = <<"start", "close", "join", "terminate", "get">>
  <2>1. /\ Steps[1] = "start" /\ Steps[2] = "close" /\ Steps[3] = "join"
        /\ Steps[4] = "terminate" /\ Steps[5] = "get" /\ Len(Steps) = 5
    BY <1>3
  <2>2. QED
    BY <2>1 DEF StartAt
<1>4. ASSUME NEW x \in {"create", "load"}, Steps = <<x>> \o Plain
      PROVE  /\ Steps[1] = x /\ Steps[2] = "start" /\ Steps[3] = "join"
             /\ Steps[4] = "terminate" /\ Steps[5] = "get" /\ Len(Steps) = 5
  BY <1>4 DEF Plain
<1>5. CASE \E x \in {"create", "load"} : Steps = <<x>> \o Plain
  <2>1. PICK x \in {"create", "load"} : Steps = <<x>> \o Plain
    BY <1>5
  <2>2. /\ Steps[1] = x /\ Steps[2] = "start" /\ Steps[3] = "join"
        /\ Steps[4] = "terminate" /\ Steps[5] = "get" /\ Len(Steps) = 5
    BY <1>4, <2>1
  <2>3. StartAt = 2
    BY <2>2 DEF StartAt
  <2>4. QED
    BY <2>2, <2>3
<1>6. Len(Plain) = 4
  BY DEF Plain
<1>7. QED
  BY <1>1, <1>2, <1>3, <1>5, <1>6

\* What the parent does to its children, and how it stays fresh.
LEMMA ParentSteps ==
  ASSUME Shapes, Fresh, ParentStep
  PROVE  Outside /\ Fresh'
<1>1. /\ Len(Steps) \in 4..5 /\ StartAt \in 1..2 /\ StartAt' = StartAt /\ Steps' = Steps
      /\ \A i \in 1..Len(Steps) : Steps[i] = "start" <=> i = StartAt
      /\ \A i \in 1..Len(Steps) : i > 1 => Steps[i] \notin {"create", "load"}
      /\ Steps[1] \in {"start", "create", "load"}
  <2>1. probe' = probe
    BY DEF ParentStep, Prepare, PrepareFails, Start, Join, Terminate, Get, setup
  <2>2. Steps' = Steps /\ StartAt' = StartAt
    BY <2>1 DEF Steps, StartAt
  <2>3. probe \in DOMAIN Parent
    BY DEF Shapes
  <2>4. StartAt \in 1..2
    BY DEF StartAt
  <2>5. QED
    BY <2>2, <2>3, <2>4, ParentPrograms
<1> USE DEF own, between, setup, Outside, Fresh, Shapes, Rank, ParentAt
<1>2. CASE Prepare
  BY <1>1, <1>2 DEF Prepare
<1>3. CASE PrepareFails
  BY <1>1, <1>3 DEF PrepareFails
<1>4. CASE Start
  BY <1>1, <1>4 DEF Start, NextTurn
<1>5. CASE Join
  BY <1>1, <1>5 DEF Join, NextTurn
<1>6. CASE Terminate
  BY <1>1, <1>6 DEF Terminate, NextTurn, Over
<1>7. CASE Get
  BY <1>1, <1>7 DEF Get
<1>8. QED
  BY <1>2, <1>3, <1>4, <1>5, <1>6, <1>7 DEF ParentStep

\* The steps there are.
LEMMA AnyStep ==
  ASSUME Shapes, Fresh, [Next]_vars
  PROVE  \/ \E r \in Rank : \E s \in Now(r) : Effect(r, s) \/ Failure(r, s)
         \/ \E r \in Rank : Device(r)
         \/ Outside
<1>1. ASSUME NEW r \in Rank, NEW s \in Now(r), Step(r, s) \/ GoesWrong(r, s)
      PROVE  Effect(r, s) \/ Failure(r, s)
  BY <1>1, StepEffect, FailureEffect DEF Shapes
<1>2. ASSUME NEW r \in Rank, Exit(r) PROVE Outside
  BY <1>2 DEF Exit, Outside, Running, Shapes, Fresh, parent
<1>3. ASSUME NEW r \in Rank, Crash(r) PROVE Outside
  BY <1>3 DEF Crash, Outside, Running, Shapes, Fresh, parent
<1>4. ASSUME UNCHANGED vars PROVE Outside
  BY <1>4 DEF vars, Outside, Fresh, parent
<1>5. QED
  BY <1>1, <1>2, <1>3, <1>4, ParentSteps DEF Next

\* A parent that has started its children has started both.
LEMMA NextFresh ==
  ASSUME Shapes, Fresh, [Next]_vars
  PROVE  Fresh'
<1>1. CASE ParentStep
  BY <1>1, ParentSteps
<1>2. CASE UNCHANGED vars
  BY <1>2 DEF vars, setup, parent, Fresh, StartAt, Steps
<1>3. ASSUME main' = main, turn' = turn, probe' = probe,
             \A q \in Rank : status[q] = "new" => status'[q] = "new"
      PROVE  Fresh'
  BY <1>3 DEF Fresh, StartAt, Steps, Rank
<1>4. ASSUME NEW r \in Rank, Exit(r) PROVE Fresh'
  BY <1>3, <1>4 DEF Exit, Running, Shapes, parent, setup
<1>5. ASSUME NEW r \in Rank, Crash(r) PROVE Fresh'
  BY <1>3, <1>5 DEF Crash, Running, Shapes, parent, setup
<1>6. ASSUME NEW r \in Rank, Device(r) PROVE Fresh'
  BY <1>3, <1>6 DEF Device, parent, setup
<1>7. ASSUME NEW r \in Rank, NEW s \in Now(r), Step(r, s) \/ GoesWrong(r, s) PROVE Fresh'
  <2>1. Effect(r, s) \/ Failure(r, s)
    BY <1>7, StepEffect, FailureEffect DEF Shapes
  <2>2. probe' = probe /\ main' = main /\ turn' = turn
    BY <2>1, OthersStill DEF parent
  <2>3. \A q \in Rank \ {r} : status'[q] = status[q]
    BY <2>1, OthersStill
  <2>4. status[r] = "running"
    BY NowIs
  <2>5. QED
    BY <1>3, <2>2, <2>3, <2>4
<1>8. QED
  BY <1>1, <1>2, <1>4, <1>5, <1>6, <1>7 DEF Next

\* Success is the last word.
LEMMA NextJudged ==
  ASSUME Shapes, Fresh, Judged, [Next]_vars
  PROVE  Judged'
<1>1. /\ Len(Steps) \in Nat /\ main \in Nat
      /\ \A i \in 1..Len(Steps) : Steps[i] = "get" => i = Len(Steps)
  BY ParentPrograms DEF Shapes, Fresh
<1>2. CASE verdict = "passed"
  <2>1. \A q \in Rank : ~Running(q) /\ Now(q) = {}
    BY <1>2 DEF Judged, Running, Now
  <2>2. ~ParentStep
    BY <1>1, <1>2 DEF Judged, ParentStep, Prepare, PrepareFails, Start, Join, Terminate, Get,
                      ParentAt
  <2>3. UNCHANGED vars
    BY <2>1, <2>2 DEF Next, Exit, Device, Crash
  <2>4. QED
    BY <1>2, <2>3 DEF Judged, vars, setup, parent, own, Steps
<1>3. CASE verdict # "passed" /\ Get
  <2>1. /\ UNCHANGED <<probe, status, keys>> /\ main' = main + 1 /\ verdict' = Verdict
    BY <1>3 DEF Get, own, setup
  <2>2. main = Len(Steps) /\ Steps' = Steps
    BY <1>1, <1>3, <2>1 DEF Get, ParentAt, Fresh, Steps
  <2>3. main' > Len(Steps')
    BY <1>1, <2>1, <2>2
  <2>4. QED
    BY <2>1, <2>3 DEF Verdict, Judged
<1>4. CASE verdict # "passed" /\ ~Get
  <2>1. verdict' # "passed"
    <3>1. CASE ParentStep
      BY <1>4, <3>1 DEF ParentStep, Prepare, PrepareFails, Start, Join, Terminate
    <3>2. CASE UNCHANGED vars
      BY <1>4, <3>2 DEF vars, parent
    <3>3. ASSUME NEW r \in Rank, NEW s \in Now(r), Step(r, s) \/ GoesWrong(r, s)
          PROVE  verdict' = verdict
      BY <3>3, OthersStill, StepEffect, FailureEffect DEF Shapes
    <3>4. ASSUME NEW r \in Rank, Exit(r) \/ Device(r) \/ Crash(r) PROVE verdict' = verdict
      BY <3>4 DEF Exit, Device, Crash, parent
    <3>5. QED
      BY <1>4, <3>1, <3>2, <3>3, <3>4 DEF Next
  <2>2. QED
    BY <2>1 DEF Judged
<1>5. QED
  BY <1>2, <1>3, <1>4

\* What the end of a process says about its place, and what it has confessed, when the
\* step is one of a program.
LEMMA ChildPlaced ==
  ASSUME Shapes, NEW r \in Rank, NEW s \in Now(r), Effect(r, s) \/ Failure(r, s),
         NEW q \in Rank, Placed(q), Confessed(q)
  PROVE  Placed(q)' /\ Confessed(q)'
<1>1. CASE q # r
  BY <1>1, OthersStill DEF Placed, Confessed
<1>2. CASE q = r
  <2>1. /\ status[r] = "running" /\ pc[r].block \in Block
        /\ s.do = Program(r)[pc[r].at].do /\ s.needs = Program(r)[pc[r].at].needs
        /\ s.arg = Program(r)[pc[r].at].arg
        /\ pc[r].block # "body" => Program(r)[pc[r].at] \in Silent
    BY NowIs
  <2>2. probe' = probe
    BY OthersStill
  <2>3. CASE Effect(r, s)
    <3>1. status'[r] = "running" /\ raised' = raised /\ pc'[r] = After(r, s)
      BY <2>1, <2>3 DEF Effect, Shapes
    <3>2. pc'[r].block = "body" => pc[r].block = "body"
      BY <3>1, AfterPlace
    <3>3. pc[r].block # "body" => s.do \notin {"key", "check"}
      BY <2>1 DEF Silent
    <3>4. ASSUME pc[r].block # "body" PROVE keys'[r] \subseteq keys[r]
      BY <2>3, <3>3, <3>4 DEF Effect, Shapes
    <3>5. ASSUME pc[r] = [block |-> "except", at |-> 1]
          PROVE  ~(Parent[probe].needs[r] \subseteq keys'[r])
      <4>1. TakesBack(Program(r), Parent[probe].needs[r])
        BY <3>5, AllSound DEF Program, Sound, Shapes
      <4>2. /\ s.needs = "nothing" /\ s.do = "unset"
            /\ \E k \in Parent[probe].needs[r] : k \in s.arg
        BY <2>1, <3>5, <4>1 DEF TakesBack
      <4>3. keys'[r] = keys[r] \ s.arg
        BY <2>3, <4>2 DEF Effect, Acts, Shapes
      <4>4. QED
        BY <4>2, <4>3
    <3>6. ASSUME r \in raised PROVE ~(Parent[probe].needs[r] \subseteq keys'[r])
      BY <1>2, <3>4, <3>5, <3>6 DEF Confessed
    <3>7. QED
      BY <1>2, <2>2, <3>1, <3>2, <3>6 DEF Placed, Confessed
  <2>4. CASE Failure(r, s)
    <3>1. CASE pc[r].block = "body"
      <4>1. pc'[r] = [block |-> "except", at |-> 1] /\ status' = status
        BY <2>4, <3>1, FailurePlace
      <4>2. QED
        BY <1>2, <2>1, <4>1 DEF Placed, Confessed
    <3>2. CASE pc[r].block # "body"
      <4>1. /\ pc[r].block = "finally" /\ raised' = raised /\ keys'[r] \subseteq keys[r]
            /\ \/ pc'[r] = After(r, s) /\ status' = status
               \/ pc'[r] = pc[r] /\ status'[r] = "failed"
        BY <2>4, <3>2, FailurePlace
      <4>2. pc'[r].block # "body"
        BY <4>1, AfterPlace
      <4>3. Placed(r)'
        BY <2>1, <4>1 DEF Placed
      <4>4. Confessed(r)'
        BY <1>2, <2>2, <4>1, <4>2 DEF Confessed
      <4>5. QED
        BY <1>2, <4>3, <4>4
    <3>3. QED
      BY <3>1, <3>2
  <2>5. QED
    BY <2>3, <2>4
<1>3. QED
  BY <1>1, <1>2

\* Control flow, records and verdicts stay consistent.
LEMMA NextCInv ==
  ASSUME CInv, [Next]_vars
  PROVE  CInv'
<1>1. Shapes' /\ Judged' /\ Fresh'
  BY NextShapes, NextJudged, NextFresh DEF CInv
<1>2. ASSUME NEW q \in Rank PROVE Placed(q)' /\ Confessed(q)'
  <2>1. ASSUME NEW r \in Rank, NEW s \in Now(r), Effect(r, s) \/ Failure(r, s)
        PROVE  Placed(q)' /\ Confessed(q)'
    BY <2>1, ChildPlaced DEF CInv
  <2>2. ASSUME NEW r \in Rank, Device(r) PROVE Placed(q)' /\ Confessed(q)'
    BY <2>2 DEF Device, CInv, Placed, Confessed, setup
  <2>3. ASSUME Outside PROVE Placed(q)' /\ Confessed(q)'
    BY <2>3 DEF Outside, CInv, Placed, Confessed, setup, own
  <2>4. QED
    BY <2>1, <2>2, <2>3, AnyStep DEF CInv
<1>3. QED
  BY <1>1, <1>2 DEF CInv

-----------------------------------------------------------------------------
(* hip_ipc_probe.py.                                                       *)

\* The i-th step of program p.
Is(p, i, needs, do, arg) == p[i].needs = needs /\ p[i].do = do /\ p[i].arg = arg

\* A child is at a step of the program of its block and goes on to the next one.
LEMMA Here ==
  ASSUME Shapes, NEW r \in Rank, NEW s \in Now(r)
  PROVE  LET p == Program(r)
             n == Len(p)
             at == pc[r].at
         IN  /\ at \in 1..n
             /\ s.needs = p[at].needs /\ s.do = p[at].do /\ s.arg = p[at].arg
             /\ at # n => After(r, s) = [block |-> pc[r].block, at |-> at + 1]
             /\ at = n /\ pc[r].block = "finally" => After(r, s) = [block |-> "exit", at |-> 1]
             /\ at = n /\ pc[r].block # "finally" => After(r, s) = [block |-> "finally", at |-> 1]
<1>1. /\ pc[r].at \in 1..Len(Program(r)) /\ Len(Program(r)) \in Nat
      /\ s.needs = Program(r)[pc[r].at].needs /\ s.do = Program(r)[pc[r].at].do
      /\ s.arg = Program(r)[pc[r].at].arg
      /\ s.last <=> pc[r].at = Len(Program(r))
  BY NowIs
<1>2. QED
  BY <1>1, AfterPlace

\* What the exporter and the importer do.
LEMMA IpcTable ==
  /\ Len(IpcExporter.body) = 7 /\ Len(IpcExporter.except) = 2 /\ Len(IpcExporter.finally) = 2
  /\ Is(IpcExporter.body, 1, "nothing", "call", "none")
  /\ Is(IpcExporter.body, 2, "nothing", "hold", "memory")
  /\ Is(IpcExporter.body, 3, "nothing", "write", 0)
  /\ Is(IpcExporter.body, 4, "nothing", "call", "none")
  /\ IpcExporter.body[5].do = "key"
  /\ Is(IpcExporter.body, 6, "nothing", "send", "handle")
  /\ Is(IpcExporter.body, 7, "nothing", "recv", "none")
  /\ IpcExporter.except[1].do = "unset"
  /\ Is(IpcExporter.except, 2, "nothing", "send", "empty")
  /\ Is(IpcExporter.finally, 1, "memory", "free", "memory")
  /\ Is(IpcExporter.finally, 2, "nothing", "hangup", "none")
  /\ Len(IpcImporter.body) = 6 /\ Len(IpcImporter.except) = 1 /\ Len(IpcImporter.finally) = 3
  /\ Is(IpcImporter.body, 1, "nothing", "recv", "none")
  /\ Is(IpcImporter.body, 2, "nothing", "call", "none")
  /\ Is(IpcImporter.body, 3, "nothing", "hold", "import")
  /\ IpcImporter.body[4].do = "key"
  /\ Is(IpcImporter.body, 5, "nothing", "read", 0)
  /\ IpcImporter.body[6].do = "check"
  /\ IpcImporter.except[1].do = "unset"
  /\ Is(IpcImporter.finally, 1, "import", "free", "import")
  /\ Is(IpcImporter.finally, 2, "nothing", "send", "record")
  /\ Is(IpcImporter.finally, 3, "nothing", "hangup", "none")
  BY DEF Is, Do, If, Call, Hold, Free, IpcExporter, Export, IpcImporter

\* Each step of the exporter with the place it leads to.
LEMMA ExporterAt ==
  ASSUME Shapes, probe = "ipc", NEW s \in Now(0)
  PROVE  \/ /\ pc[0].block = "body" /\ pc[0].at \in {1, 4, 5} /\ s.do \in {"call", "key"}
            /\ After(0, s) = [block |-> "body", at |-> pc[0].at + 1]
         \/ /\ pc[0].block = "body" /\ pc[0].at = 2 /\ s.needs = "nothing" /\ s.do = "hold"
            /\ s.arg = "memory" /\ After(0, s) = [block |-> "body", at |-> 3]
         \/ /\ pc[0].block = "body" /\ pc[0].at = 3 /\ s.needs = "nothing" /\ s.do = "write"
            /\ s.arg = 0 /\ After(0, s) = [block |-> "body", at |-> 4]
         \/ /\ pc[0].block = "body" /\ pc[0].at = 6 /\ s.needs = "nothing" /\ s.do = "send"
            /\ s.arg = "handle" /\ After(0, s) = [block |-> "body", at |-> 7]
         \/ /\ pc[0].block = "body" /\ pc[0].at = 7 /\ s.needs = "nothing" /\ s.do = "recv"
            /\ After(0, s) = [block |-> "finally", at |-> 1]
         \/ /\ pc[0].block = "except" /\ s.do = "unset"
            /\ After(0, s) = [block |-> "except", at |-> 2]
         \/ /\ pc[0].block = "except" /\ s.needs = "nothing" /\ s.do = "send"
            /\ s.arg = "empty" /\ After(0, s) = [block |-> "finally", at |-> 1]
         \/ /\ pc[0].block = "finally" /\ s.do = "free"
            /\ After(0, s) = [block |-> "finally", at |-> 2]
         \/ /\ pc[0].block = "finally" /\ s.do = "hangup"
            /\ After(0, s) = [block |-> "exit", at |-> 1]
<1>1. /\ 0 \in Rank /\ pc[0].block \in Block
      /\ Child["ipc"][0] = IpcExporter
  BY NowIs DEF Child, Rank
<1>2. CASE pc[0].block = "body"
  <2>1. Program(0) = IpcExporter.body /\ Len(IpcExporter.body) = 7
    BY <1>1, <1>2, IpcTable DEF Program
  <2>2. /\ pc[0].at \in 1..7 /\ s.needs = IpcExporter.body[pc[0].at].needs
        /\ s.do = IpcExporter.body[pc[0].at].do /\ s.arg = IpcExporter.body[pc[0].at].arg
        /\ pc[0].at # 7 => After(0, s) = [block |-> "body", at |-> pc[0].at + 1]
        /\ pc[0].at = 7 => After(0, s) = [block |-> "finally", at |-> 1]
    BY <1>1, <1>2, <2>1, Here
  <2>3. QED
    BY <1>2, <2>2, IpcTable DEF Is
<1>3. CASE pc[0].block = "except"
  <2>1. Program(0) = IpcExporter.except /\ Len(IpcExporter.except) = 2
    BY <1>1, <1>3, IpcTable DEF Program
  <2>2. /\ pc[0].at \in 1..2 /\ s.needs = IpcExporter.except[pc[0].at].needs
        /\ s.do = IpcExporter.except[pc[0].at].do /\ s.arg = IpcExporter.except[pc[0].at].arg
        /\ pc[0].at # 2 => After(0, s) = [block |-> "except", at |-> pc[0].at + 1]
        /\ pc[0].at = 2 => After(0, s) = [block |-> "finally", at |-> 1]
    BY <1>1, <1>3, <2>1, Here
  <2>3. QED
    BY <1>3, <2>2, IpcTable DEF Is
<1>4. CASE pc[0].block = "finally"
  <2>1. Program(0) = IpcExporter.finally /\ Len(IpcExporter.finally) = 2
    BY <1>1, <1>4, IpcTable DEF Program
  <2>2. /\ pc[0].at \in 1..2 /\ s.needs = IpcExporter.finally[pc[0].at].needs
        /\ s.do = IpcExporter.finally[pc[0].at].do /\ s.arg = IpcExporter.finally[pc[0].at].arg
        /\ pc[0].at # 2 => After(0, s) = [block |-> "finally", at |-> pc[0].at + 1]
        /\ pc[0].at = 2 => After(0, s) = [block |-> "exit", at |-> 1]
    BY <1>1, <1>4, <2>1, Here
  <2>3. QED
    BY <1>4, <2>2, IpcTable DEF Is
<1>5. QED
  BY <1>1, <1>2, <1>3, <1>4 DEF Block

\* The same for the importer.
LEMMA ImporterAt ==
  ASSUME Shapes, probe = "ipc", NEW s \in Now(1)
  PROVE  \/ /\ pc[1].block = "body" /\ pc[1].at = 1 /\ s.needs = "nothing" /\ s.do = "recv"
            /\ After(1, s) = [block |-> "body", at |-> 2]
         \/ /\ pc[1].block = "body" /\ pc[1].at \in {2, 4} /\ s.do \in {"call", "key"}
            /\ After(1, s) = [block |-> "body", at |-> pc[1].at + 1]
         \/ /\ pc[1].block = "body" /\ pc[1].at = 3 /\ s.do = "hold"
            /\ After(1, s) = [block |-> "body", at |-> 4]
         \/ /\ pc[1].block = "body" /\ pc[1].at = 5 /\ s.needs = "nothing" /\ s.do = "read"
            /\ s.arg = 0 /\ After(1, s) = [block |-> "body", at |-> 6]
         \/ /\ pc[1].block = "body" /\ pc[1].at = 6 /\ s.do = "check"
            /\ After(1, s) = [block |-> "finally", at |-> 1]
         \/ /\ pc[1].block = "except" /\ s.do = "unset"
            /\ After(1, s) = [block |-> "finally", at |-> 1]
         \/ /\ pc[1].block = "finally" /\ pc[1].at = 1 /\ s.needs = "import" /\ s.do = "free"
            /\ s.arg = "import" /\ After(1, s) = [block |-> "finally", at |-> 2]
         \/ /\ pc[1].block = "finally" /\ pc[1].at = 2 /\ s.do = "send"
            /\ s.arg = "record" /\ After(1, s) = [block |-> "finally", at |-> 3]
         \/ /\ pc[1].block = "finally" /\ pc[1].at = 3 /\ s.do = "hangup"
            /\ After(1, s) = [block |-> "exit", at |-> 1]
<1>1. /\ 1 \in Rank /\ pc[1].block \in Block
      /\ Child["ipc"][1] = IpcImporter
  BY NowIs DEF Child, Rank
<1>2. CASE pc[1].block = "body"
  <2>1. Program(1) = IpcImporter.body /\ Len(IpcImporter.body) = 6
    BY <1>1, <1>2, IpcTable DEF Program
  <2>2. /\ pc[1].at \in 1..6 /\ s.needs = IpcImporter.body[pc[1].at].needs
        /\ s.do = IpcImporter.body[pc[1].at].do /\ s.arg = IpcImporter.body[pc[1].at].arg
        /\ pc[1].at # 6 => After(1, s) = [block |-> "body", at |-> pc[1].at + 1]
        /\ pc[1].at = 6 => After(1, s) = [block |-> "finally", at |-> 1]
    BY <1>1, <1>2, <2>1, Here
  <2>3. QED
    BY <1>2, <2>2, IpcTable DEF Is
<1>3. CASE pc[1].block = "except"
  <2>1. Program(1) = IpcImporter.except /\ Len(IpcImporter.except) = 1
    BY <1>1, <1>3, IpcTable DEF Program
  <2>2. /\ pc[1].at \in 1..1 /\ s.needs = IpcImporter.except[pc[1].at].needs
        /\ s.do = IpcImporter.except[pc[1].at].do /\ s.arg = IpcImporter.except[pc[1].at].arg
        /\ pc[1].at # 1 => After(1, s) = [block |-> "except", at |-> pc[1].at + 1]
        /\ pc[1].at = 1 => After(1, s) = [block |-> "finally", at |-> 1]
    BY <1>1, <1>3, <2>1, Here
  <2>3. QED
    BY <1>3, <2>2, IpcTable DEF Is
<1>4. CASE pc[1].block = "finally"
  <2>1. Program(1) = IpcImporter.finally /\ Len(IpcImporter.finally) = 3
    BY <1>1, <1>4, IpcTable DEF Program
  <2>2. /\ pc[1].at \in 1..3 /\ s.needs = IpcImporter.finally[pc[1].at].needs
        /\ s.do = IpcImporter.finally[pc[1].at].do /\ s.arg = IpcImporter.finally[pc[1].at].arg
        /\ pc[1].at # 3 => After(1, s) = [block |-> "finally", at |-> pc[1].at + 1]
        /\ pc[1].at = 3 => After(1, s) = [block |-> "exit", at |-> 1]
    BY <1>1, <1>4, <2>1, Here
  <2>3. QED
    BY <1>4, <2>2, IpcTable DEF Is
<1>5. QED
  BY <1>1, <1>2, <1>3, <1>4 DEF Block

\* A message added to a pipe, and one taken from it.
LEMMA PipeFacts ==
  ASSUME NEW M, NEW p \in Seq(M)
  PROVE  /\ \A m \in M : Append(p, m) \in Seq(M)
         /\ p # <<>> => Head(p) \in M /\ Tail(p) \in Seq(M)
  BY AppendProperties, HeadTailProperties

\* The exporter keeps the invariant: it leaves its wait only when the importer has
\* released the allocation.
LEMMA ExporterIpc ==
  ASSUME Shapes, Ipc, probe = "ipc", NEW s \in Now(0), Effect(0, s) \/ Failure(0, s)
  PROVE  Ipc'
<1>1. /\ pc'[1] = pc[1] /\ held'[1] = held[1] /\ status'[1] = status[1]
      /\ (Released' <=> Released) /\ (Over(1)' <=> Over(1))
      /\ 0 \in Rank /\ 1 \in Rank /\ Peer(0) = 1
  <2>1. 0 \in Rank /\ 1 \in Rank \ {0} /\ 1 \in Rank /\ Peer(0) = 1
    BY DEF Rank, Peer
  <2>2. pc'[1] = pc[1] /\ held'[1] = held[1] /\ status'[1] = status[1]
    BY <2>1, OthersStill
  <2>3. QED
    BY <2>1, <2>2 DEF Released, Over
<1>2. CASE Effect(0, s)
  <2>1. /\ pc'[0] = After(0, s)
        /\ s.do # "write" => memory'[0] = memory[0]
        /\ s.do \notin {"hold", "open", "free", "close"} => held'[0] = held[0]
        /\ s.do \notin {"send", "recv"} => pipe' = pipe
    BY <1>1, <1>2 DEF Effect, Shapes
  <2> USE <1>1, <2>1, PipeFacts DEF Ipc
  <2>2. CASE pc[0].block = "body" /\ pc[0].at = 7
    <3>1. s.needs = "nothing" /\ s.do = "recv" /\ After(0, s) = [block |-> "finally", at |-> 1]
      BY <2>2, ExporterAt
    <3>2. pipe[0] # <<>> /\ pipe'[0] = Tail(pipe[0]) /\ pipe'[1] = pipe[1]
      BY <1>2, <3>1 DEF Effect, Ready, Acts, Shapes
    <3>3. QED
      BY <3>1, <3>2
  <2>3. CASE ~(pc[0].block = "body" /\ pc[0].at = 7)
    <3>1. ~Waiting /\ (Released \/ Unheard)
      BY <2>3 DEF Waiting
    <3>2. CASE pc[0].block = "body" /\ pc[0].at = 6
      <4>1. /\ s.needs = "nothing" /\ s.do = "send" /\ s.arg = "handle"
            /\ After(0, s) = [block |-> "body", at |-> 7]
        BY <3>2, ExporterAt
      <4>2. pipe'[1] = Append(pipe[1], "handle") /\ pipe'[0] = pipe[0]
        BY <1>2, <4>1 DEF Effect, Acts, Shapes
      <4>3. QED
        BY <3>2, <4>1, <4>2 DEF Waiting
    <3>3. CASE pc[0].block = "except" /\ s.do = "send"
      <4>1. s.needs = "nothing" /\ s.arg = "empty" /\ After(0, s) = [block |-> "finally", at |-> 1]
        BY <3>3, ExporterAt
      <4>2. pipe'[1] = Append(pipe[1], "empty") /\ pipe'[0] = pipe[0]
        BY <1>2, <3>3, <4>1 DEF Effect, Acts, Shapes
      <4>3. QED
        BY <3>1, <4>1, <4>2 DEF Unheard
    <3>4. CASE s.do \notin {"send", "recv"}
      <4>1. Unheard => Unheard'
        BY <3>4 DEF Unheard
      <4>2. CASE pc[0].block = "body"
        <5>1. /\ s.do = "hold" => "memory" \in held'[0]
              /\ s.do = "write" => memory'[0] = 0
          BY <1>2, <4>2, ExporterAt DEF Effect, Acts, Shapes
        <5>2. QED
          BY <3>1, <3>4, <4>1, <4>2, <5>1, ExporterAt
      <4>3. CASE pc[0].block # "body"
        BY <3>1, <3>4, <4>1, <4>3, ExporterAt
      <4>4. QED
        BY <4>2, <4>3
    <3>5. QED
      BY <2>3, <3>2, <3>3, <3>4, ExporterAt
  <2>4. QED
    BY <2>2, <2>3
<1>3. CASE Failure(0, s)
  <2>1. pipe' = pipe /\ memory' = memory
    BY <1>3 DEF Failure
  <2>2. pc[0].block = "body" /\ pc'[0] = [block |-> "except", at |-> 1]
    <3>1. pc[0].block # "finally"
      BY <1>3, ExporterAt DEF Failure, MayFail
    <3>2. QED
      BY <1>1, <1>3, <3>1, FailurePlace
  <2>3. ASSUME Waiting PROVE Released
    <3>1. s.do = "recv"
      BY <2>3, ExporterAt DEF Waiting
    <3>2. Refused(0, s)
      BY <1>3, <3>1 DEF Failure
    <3>3. IF pipe[0] = <<>> THEN HungUp(1) ELSE Head(pipe[0]) = "empty"
      BY <1>1, <3>1, <3>2 DEF Refused
    <3>4. QED
      BY <3>3, PipeFacts DEF Ipc, HungUp, Released
  <2>4. Unheard => Unheard'
    BY <1>1, <2>1 DEF Unheard
  <2>5. QED
    BY <1>1, <2>1, <2>2, <2>3, <2>4 DEF Ipc
<1>4. QED
  BY <1>2, <1>3

\* So does the importer, and what it reads is the exporter's data.
LEMMA ImporterIpc ==
  ASSUME Shapes, Ipc, probe = "ipc", NEW s \in Now(1), Effect(1, s) \/ Failure(1, s)
  PROVE  Ipc' /\ wrong' = wrong
<1>1. /\ 0 \in Rank /\ 1 \in Rank /\ 0 \in Rank \ {1} /\ Peer(1) = 0
  BY DEF Rank, Peer
<1>2. /\ pc'[0] = pc[0] /\ held'[0] = held[0] /\ status[1] = "running"
  BY <1>1, OthersStill, NowIs
<1>3. ~Over(1) /\ (pc[1].block = "body" => ~Released)
  BY <1>2 DEF Over, Released
<1>4. CASE Effect(1, s)
  <2>1. /\ pc'[1] = After(1, s) /\ status'[1] = "running"
        /\ s.do # "write" => memory'[0] = memory[0]
        /\ s.do \notin {"hold", "open", "free", "close"} => held'[1] = held[1]
        /\ s.do \notin {"send", "recv"} => pipe' = pipe
        /\ s.do # "read" => wrong' = wrong
    BY <1>1, <1>2, <1>4 DEF Effect, Shapes
  <2>2. ~Over(1)'
    BY <2>1 DEF Over
  <2>3. memory'[0] = memory[0] /\ (Waiting' <=> Waiting)
    BY <1>2, <2>1, ImporterAt DEF Waiting
  <2>4. CASE pc[1].block = "body"
    <3>1. Waiting
      <4>1. CASE pc[1].at = 1
        <5>1. s.needs = "nothing" /\ s.do = "recv"
          BY <2>4, <4>1, ImporterAt
        <5>2. pipe[1] # <<>> /\ Head(pipe[1]) # "empty"
          BY <1>4, <5>1 DEF Effect, Acts, Ready
        <5>3. ~Unheard
          BY <5>2, PipeFacts DEF Unheard
        <5>4. QED
          BY <1>3, <2>4, <5>3 DEF Ipc
      <4>2. CASE pc[1].at # 1
        BY <1>3, <2>4, <4>2 DEF Ipc, Unheard
      <4>3. QED
        BY <4>1, <4>2
    <3>2. ~Released'
      BY <2>1, <2>2, <2>4, ImporterAt DEF Released
    <3>3. pipe[0] = <<>> /\ pipe'[0] = pipe[0] /\ pipe'[1] \in Seq({"handle", "empty"})
      <4>1. pipe[0] = <<>>
        BY <1>3, <2>4 DEF Ipc
      <4>2. CASE s.do = "recv"
        <5>1. pc[1].at = 1 /\ s.needs = "nothing"
          BY <2>4, <4>2, ImporterAt
        <5>2. pipe[1] # <<>> /\ pipe'[1] = Tail(pipe[1]) /\ pipe'[0] = pipe[0]
          BY <1>1, <1>4, <4>2, <5>1 DEF Effect, Acts, Ready, Shapes
        <5>3. QED
          BY <4>1, <5>2, PipeFacts DEF Ipc
      <4>3. CASE s.do # "recv"
        BY <2>1, <2>4, <4>1, <4>3, ImporterAt DEF Ipc
      <4>4. QED
        BY <4>2, <4>3
    <3>4. wrong' = wrong
      <4>1. CASE s.do = "read"
        <5>1. s.needs = "nothing" /\ s.arg = 0
          BY <2>4, <4>1, ImporterAt
        <5>2. Saw(1, memory[0])
          BY <1>4, <4>1, <5>1 DEF Effect, Acts
        <5>3. QED
          BY <1>1, <3>1, <5>2 DEF Saw, Waiting
      <4>2. QED
        BY <2>1, <4>1
    <3>5. QED
      BY <1>2, <2>2, <2>3, <3>1, <3>2, <3>3, <3>4 DEF Ipc
  <2>5. CASE pc[1].block = "except"
    <3>1. s.do = "unset" /\ pc'[1] = [block |-> "finally", at |-> 1]
      BY <2>1, <2>5, ImporterAt
    <3>2. ~Released /\ ~Released'
      BY <1>3, <2>2, <2>5, <3>1 DEF Released
    <3>3. Unheard => Unheard'
      BY <2>1, <3>1 DEF Unheard
    <3>4. QED
      BY <1>2, <2>1, <2>2, <2>3, <3>1, <3>2, <3>3 DEF Ipc
  <2>6. CASE pc[1].block = "finally" /\ pc[1].at = 1
    <3>1. /\ s.needs = "import" /\ s.do = "free" /\ s.arg = "import"
          /\ pc'[1] = [block |-> "finally", at |-> 2]
      BY <2>1, <2>6, ImporterAt
    <3>2. "import" \notin held'[1]
      BY <1>1, <1>4, <3>1 DEF Effect, Acts, Shapes
    <3>3. Released'
      BY <3>1 DEF Released
    <3>4. QED
      BY <1>2, <2>1, <2>2, <2>3, <3>1, <3>2, <3>3 DEF Ipc
  <2>7. CASE pc[1].block = "finally" /\ pc[1].at # 1
    <3>1. pc[1].at \in {2, 3} /\ s.do \in {"send", "hangup"}
      BY <2>7, ImporterAt
    <3>2. Released /\ Released'
      BY <2>1, <2>7, <3>1, ImporterAt DEF Released
    <3>3. "import" \notin held[1] /\ held'[1] = held[1]
      BY <1>3, <2>1, <3>1, <3>2 DEF Ipc
    <3>4. pipe'[0] \in Seq({"record"}) /\ pipe'[1] = pipe[1]
      <4>1. CASE s.do = "send"
        <5>1. s.arg = "record"
          BY <2>7, <4>1, ImporterAt
        <5>2. /\ pipe' = pipe \/ pipe' = [pipe EXCEPT ![0] = Append(@, "record")]
          BY <1>1, <1>4, <4>1, <5>1 DEF Effect
        <5>3. /\ pipe'[0] = pipe[0] \/ pipe'[0] = Append(pipe[0], "record")
              /\ pipe'[1] = pipe[1]
          BY <1>1, <5>2 DEF Shapes
        <5>4. pipe[0] \in Seq({"record"})
          BY DEF Ipc
        <5>5. QED
          BY <5>3, <5>4, PipeFacts
      <4>2. QED
        BY <2>1, <3>1, <4>1 DEF Ipc
    <3>5. QED
      BY <1>2, <2>1, <2>2, <2>3, <3>1, <3>2, <3>3, <3>4 DEF Ipc
  <2>8. QED
    BY <2>4, <2>5, <2>6, <2>7, ImporterAt
<1>5. CASE Failure(1, s)
  <2>1. pipe' = pipe /\ memory' = memory /\ wrong' = wrong
    BY <1>5 DEF Failure
  <2>2. /\ pc[1].block = "body" /\ pc'[1] = [block |-> "except", at |-> 1]
        /\ status' = status /\ held' = held
    <3>1. pc[1].block # "finally"
      <4>1. s.do \notin {"free", "hangup"} /\ (s.do = "send" => Refused(1, s))
        BY <1>5 DEF Failure, MayFail
      <4>2. s.do = "send" => pc[1].block = "body"
        BY <4>1 DEF Refused
      <4>3. QED
        BY <4>1, <4>2, ImporterAt
    <3>2. QED
      BY <1>1, <1>5, <3>1, FailurePlace
  <2>3. ~Over(1)' /\ ~Released' /\ ~Released
    BY <1>2, <1>3, <2>2 DEF Over, Released
  <2>4. (Waiting => Waiting') /\ (Unheard => Unheard')
    BY <1>2, <2>1, <2>2 DEF Unheard, Waiting
  <2>5. QED
    BY <1>2, <2>1, <2>2, <2>3, <2>4 DEF Ipc
<1>6. QED
  BY <1>4, <1>5

\* What the device does with one of them.
LEMMA PlainDevice ==
  ASSUME Shapes, PlainStreams, NEW r \in Rank, Device(r)
  PROVE  /\ PlainStreams' /\ memory' = memory /\ wrong' = wrong
         /\ UNCHANGED <<setup, status, pc, raised, held, keys, pipe, broken, parent>>
         /\ \A f \in Fences : f[1] \notin {"rccl", "d3d12", "shm", "gloo"} => fence'[f] = fence[f]
<1>1. Head(queue[r]) \in PlainOps /\ Tail(queue[r]) \in Seq(PlainOps)
  BY HeadTailProperties DEF Device, PlainStreams
<1>2. PlainStreams'
  BY <1>1 DEF Device, PlainStreams
<1>3. /\ Head(queue[r]).op \in {"signal", "wait", "result"}
      /\ Head(queue[r]).on[1] \in {"rccl", "d3d12", "shm", "gloo"}
  BY <1>1 DEF PlainOps
<1>4. memory' = memory /\ wrong' = wrong
  BY <1>3 DEF Device, Saw
<1>5. \A f \in Fences : f[1] \notin {"rccl", "d3d12", "shm", "gloo"} => fence'[f] = fence[f]
  BY <1>3 DEF Device, Shapes
<1>6. QED
  BY <1>2, <1>4, <1>5 DEF Device

\* hip_ipc_probe.py keeps its invariant.
LEMMA NextIpc ==
  ASSUME CInv, [Next]_vars, probe = "ipc", Ipc, PlainStreams
  PROVE  Ipc' /\ wrong' = wrong
<1>1. ASSUME NEW r \in Rank, NEW s \in Now(r), Effect(r, s) \/ Failure(r, s)
      PROVE  Ipc' /\ wrong' = wrong
  <2>1. CASE r = 0
    <3>1. s.do # "read"
      BY <2>1, ExporterAt DEF CInv
    <3>2. wrong' = wrong
      BY <1>1, <3>1 DEF Effect, Failure
    <3>3. QED
      BY <1>1, <2>1, <3>2, ExporterIpc DEF CInv
  <2>2. CASE r = 1
    BY <1>1, <2>2, ImporterIpc DEF CInv
  <2>3. QED
    BY <2>1, <2>2 DEF Rank
<1>2. ASSUME NEW r \in Rank, Device(r) PROVE Ipc' /\ wrong' = wrong
  <2>1. memory' = memory /\ wrong' = wrong /\ UNCHANGED <<status, pc, held, pipe>>
    BY <1>2, PlainDevice DEF CInv
  <2>2. QED
    BY <2>1 DEF Ipc, Waiting, Released, Unheard, Over
<1>3. ASSUME Outside PROVE Ipc' /\ wrong' = wrong
  <2>1. UNCHANGED <<pc, held, pipe, memory, wrong>>
    BY <1>3 DEF Outside, own, between
  <2>2. Over(1) => Over(1)'
    BY <1>3 DEF Outside, Over, Rank
  <2>3. (Waiting => Waiting') /\ (Unheard => Unheard') /\ (Released => Released')
    BY <2>1, <2>2 DEF Waiting, Unheard, Released
  <2>4. ~Over(1)' => (Released' => Released)
    BY <2>1 DEF Released
  <2>5. QED
    BY <2>1, <2>2, <2>3, <2>4 DEF Ipc
<1>4. QED
  BY <1>1, <1>2, <1>3, AnyStep DEF CInv

-----------------------------------------------------------------------------
(* The probes with a slot per rank.                                        *)

\* The steps of rank r of a probe whose ranks meet at m: it writes its own slot, reads
\* the peer's and puts nothing on a stream.
SlotSteps(r, m) ==
  {s \in Instruction :
     /\ s.do \in {"call", "hold", "free", "risky", "post", "meet", "write", "read", "key",
                  "check", "unset"}
     /\ s.do = "hold" => s.arg # "import"
     /\ s.do \in {"post", "meet"} => s.arg = m
     /\ s.do = "write" => s.arg = r
     /\ s.do = "read" => s.arg = 1 - r}

\* The steps that clean up after it.
Cleanup == {s \in Instruction : s.do \in {"unset", "free", "risky"}}

\* A body that writes the slot at step w, then meets, and only then reads.
SlotBody(p, r, m, w) ==
  /\ p \in Programs(SlotSteps(r, m))
  /\ \A i \in 1..w - 1 : p[i].do \in {"call", "hold"}
  /\ p[w].needs = "nothing" /\ p[w].do = "write"
  /\ p[w + 1].needs = "nothing" /\ p[w + 1].do = "post"
  /\ p[w + 2].needs = "nothing" /\ p[w + 2].do = "meet"

\* The parts of these programs.
LEMMA SlotBricks ==
  ASSUME NEW r \in Rank, NEW m \in Channels
  PROVE  LET S == Programs(SlotSteps(r, m)) IN
         /\ \A p, q \in S : p \o q \in S
         /\ Call \in S /\ Meet(m) \in S /\ Do("write", r) \in S /\ Do("read", 1 - r) \in S
         /\ \A x \in Resources : x # "import" => Hold(x) \in S
         /\ \A k \in SUBSET Entries : Do("check", k) \in S /\ Do("key", k) \in S
<1> DEFINE S == Programs(SlotSteps(r, m))
<1>1. ASSUME NEW a \in Args,
             NEW d \in {"call", "hold", "post", "meet", "write", "read", "key", "check"},
             d = "hold" => a # "import", d \in {"post", "meet"} => a = m,
             d = "write" => a = r, d = "read" => a = 1 - r
      PROVE  Do(d, a) \in S
  <2>1. d \in Kinds /\ 1 - r \in Rank
    BY DEF Kinds, Rank
  <2>2. [needs |-> "nothing", do |-> d, arg |-> a] \in Instruction
    BY <1>1, <2>1, IsInstruction
  <2>3. [needs |-> "nothing", do |-> d, arg |-> a] \in SlotSteps(r, m)
    BY <1>1, <2>2 DEF SlotSteps
  <2>4. QED
    BY <2>3, OneStep DEF Do
<1>2. m \in Args /\ r \in Args /\ 1 - r \in Args /\ "none" \in Args
  BY ArgKinds DEF Rank
<1>3. \A p, q \in S : p \o q \in S
  BY Sequencing
<1> HIDE DEF S
<1>4. Call \in S /\ Do("write", r) \in S /\ Do("read", 1 - r) \in S
  BY <1>1, <1>2 DEF Call
<1>5. Do("post", m) \in S /\ Do("meet", m) \in S
  BY <1>1, <1>2
<1>6. \A x \in Resources : x # "import" => Hold(x) \in S
  BY <1>1, ArgKinds DEF Hold
<1>7. \A k \in SUBSET Entries : Do("check", k) \in S /\ Do("key", k) \in S
  BY <1>1, ArgKinds
<1>8. QED
  BY <1>3, <1>4, <1>5, <1>6, <1>7 DEF S, Meet

\* Their bodies.
LEMMA SlotBodies ==
  ASSUME NEW r \in Rank
  PROVE  /\ SlotBody(Child["mapped"][r].body, r, "mp", 5)
         /\ SlotBody(Child["bench_shm"][r].body, r, "win32", 5)
         /\ SlotBody(Child["bench_kernel"][r].body, r, "win32", 6)
<1>1. /\ Child["mapped"][r].body = MappedRank(r).body
      /\ Child["bench_shm"][r].body = BenchShmRank(r).body
      /\ Child["bench_kernel"][r].body = BenchKernelRank(r).body
  BY DEF Child
<1>2. MappedRank(r).body \in Programs(SlotSteps(r, "mp"))
  <2> DEFINE S == Programs(SlotSteps(r, "mp"))
  <2>1. /\ \A p, q \in S : p \o q \in S
        /\ Call \in S /\ Meet("mp") \in S /\ Do("write", r) \in S /\ Do("read", 1 - r) \in S
        /\ Hold("mapping") \in S /\ Hold("registered") \in S
        /\ Do("check", {"correct", "mapped_peer_copy_correct"}) \in S
        /\ Do("key", {"registered"}) \in S
    BY SlotBricks DEF Channels, Resources, Entries
  <2> HIDE DEF S
  <2>2. QED
    BY <2>1 DEF MappedRank, S
<1>3. /\ BenchShmRank(r).body \in Programs(SlotSteps(r, "win32"))
      /\ BenchKernelRank(r).body \in Programs(SlotSteps(r, "win32"))
  <2> DEFINE S == Programs(SlotSteps(r, "win32"))
  <2>1. /\ \A p, q \in S : p \o q \in S
        /\ Call \in S /\ Meet("win32") \in S /\ Do("write", r) \in S /\ Do("read", 1 - r) \in S
        /\ Hold("mapping") \in S /\ Hold("registered") \in S /\ Hold("barrier") \in S
        /\ Do("check", {"passed"}) \in S
    BY SlotBricks DEF Channels, Resources, Entries
  <2> HIDE DEF S
  <2>2. SlotAllReduce(r) \in S /\ KernelAllReduce(r) \in S
    BY <2>1 DEF SlotAllReduce, KernelAllReduce
  <2>3. BenchShmRank(r).body \in S
    BY <2>1, <2>2 DEF BenchShmRank
  <2>4. BenchKernelRank(r).body \in S
    BY <2>1, <2>2 DEF BenchKernelRank
  <2>5. QED
    BY <2>3, <2>4 DEF S
<1> USE DEF Do, If, Call, Hold, Meet
<1>4. LET p == MappedRank(r).body IN
      /\ p[1].do = "call" /\ p[2].do = "hold" /\ p[3].do = "hold" /\ p[4].do = "call"
      /\ p[5].needs = "nothing" /\ p[5].do = "write" /\ p[6].needs = "nothing"
      /\ p[6].do = "post" /\ p[7].needs = "nothing" /\ p[7].do = "meet"
  BY DEF MappedRank
<1>5. LET p == BenchShmRank(r).body IN
      /\ p[1].do = "call" /\ p[2].do = "hold" /\ p[3].do = "hold" /\ p[4].do = "hold"
      /\ p[5].needs = "nothing" /\ p[5].do = "write" /\ p[6].needs = "nothing"
      /\ p[6].do = "post" /\ p[7].needs = "nothing" /\ p[7].do = "meet"
  BY DEF BenchShmRank, SlotAllReduce
<1>6. LET p == BenchKernelRank(r).body IN
      /\ p[1].do = "call" /\ p[2].do = "hold" /\ p[3].do = "hold" /\ p[4].do = "call"
      /\ p[5].do = "hold"
      /\ p[6].needs = "nothing" /\ p[6].do = "write" /\ p[7].needs = "nothing"
      /\ p[7].do = "post" /\ p[8].needs = "nothing" /\ p[8].do = "meet"
  BY DEF BenchKernelRank, KernelAllReduce
<1>7. SlotBody(MappedRank(r).body, r, "mp", 5)
  BY <1>2, <1>4 DEF SlotBody
<1>8. SlotBody(BenchShmRank(r).body, r, "win32", 5)
  BY <1>3, <1>5 DEF SlotBody
<1>9. SlotBody(BenchKernelRank(r).body, r, "win32", 6)
  BY <1>3, <1>6 DEF SlotBody
<1>10. QED
  BY <1>1, <1>7, <1>8, <1>9

\* Their except and finally blocks.
LEMMA SlotCleanup ==
  ASSUME NEW r \in Rank, NEW n \in SlotProbes
  PROVE  Child[n][r].except \in Programs(Cleanup) /\ Child[n][r].finally \in Programs(Cleanup)
<1> DEFINE S == Programs(Cleanup)
<1>1. /\ Child["mapped"][r] = MappedRank(r) /\ Child["bench_shm"][r] = BenchShmRank(r)
      /\ Child["bench_kernel"][r] = BenchKernelRank(r)
  BY DEF Child
<1>2. ASSUME NEW k \in Resources \cup {"nothing"}, NEW a \in Args,
             NEW d \in {"unset", "free", "risky"}
      PROVE  If(k, d, a) \in S
  <2>1. [needs |-> k, do |-> d, arg |-> a] \in Instruction
    BY IsInstruction DEF Kinds
  <2>2. [needs |-> k, do |-> d, arg |-> a] \in Cleanup
    BY <2>1 DEF Cleanup
  <2>3. QED
    BY <2>2, OneStep
<1>3. \A p, q \in S : p \o q \in S
  BY Sequencing
<1> HIDE DEF S
<1>4. \A k \in SUBSET Entries : Do("unset", k) \in S
  BY <1>2, ArgKinds DEF Do
<1>5. \A x \in Resources : Free(x) \in S /\ If(x, "risky", "none") \in S
  BY <1>2, ArgKinds DEF Free
<1>6. /\ Do("unset", {"correct"}) \in S /\ Do("unset", {"passed"}) \in S
      /\ Free("registered") \in S /\ If("mapping", "risky", "none") \in S
      /\ If("barrier", "risky", "none") \in S
  BY <1>4, <1>5 DEF Resources, Entries
<1>7. /\ MappedRank(r).except \in S /\ MappedRank(r).finally \in S
      /\ BenchShmRank(r).except \in S /\ BenchShmRank(r).finally \in S
      /\ BenchKernelRank(r).except \in S /\ BenchKernelRank(r).finally \in S
  BY <1>3, <1>6 DEF MappedRank, FailVerdict, BenchShmRank, BenchKernelRank
<1>8. QED
  BY <1>1, <1>7 DEF SlotProbes, S

\* A step of these probes.
LEMMA SlotNow ==
  ASSUME Shapes, probe \in SlotProbes, NEW r \in Rank, NEW s \in Now(r)
  PROVE  /\ pc[r].at \in Nat
         /\ s.do \in {"call", "hold", "free", "risky", "post", "meet", "write", "read", "key",
                      "check", "unset"}
         /\ s.do = "hold" => s.arg # "import"
         /\ s.do \in {"post", "meet"} => s.arg = Meeting
         /\ s.do = "write" => s.arg = r
         /\ s.do = "read" => s.arg = 1 - r
         /\ pc[r].block # "body" => s.do \in {"unset", "free", "risky"}
         /\ pc[r].block = "body" =>
              /\ pc[r].at < Written => s.do \in {"call", "hold"}
              /\ pc[r].at = Written => s.needs = "nothing" /\ s.do = "write"
              /\ pc[r].at = Written + 1 => s.needs = "nothing" /\ s.do = "post"
              /\ pc[r].at = Written + 2 => s.needs = "nothing" /\ s.do = "meet"
<1>1. /\ pc[r].at \in 1..Len(Program(r)) /\ pc[r].at \in Nat /\ Len(Program(r)) \in Nat
      /\ pc[r].block \in Block
      /\ s.needs = Program(r)[pc[r].at].needs /\ s.do = Program(r)[pc[r].at].do
      /\ s.arg = Program(r)[pc[r].at].arg
  BY NowIs
<1>2. CASE pc[r].block = "body"
  <2>1. SlotBody(Program(r), r, Meeting, Written)
    BY <1>2, SlotBodies DEF Program, SlotProbes, Meeting, Written
  <2>2. Program(r)[pc[r].at] \in SlotSteps(r, Meeting)
    BY <1>1, <2>1 DEF SlotBody, Programs
  <2>3. Written \in 5..6
    BY DEF Written
  <2>4. /\ pc[r].at < Written => s.do \in {"call", "hold"}
        /\ pc[r].at = Written => s.needs = "nothing" /\ s.do = "write"
        /\ pc[r].at = Written + 1 => s.needs = "nothing" /\ s.do = "post"
        /\ pc[r].at = Written + 2 => s.needs = "nothing" /\ s.do = "meet"
    BY <1>1, <2>1, <2>3 DEF SlotBody
  <2>5. QED
    BY <1>1, <1>2, <2>2, <2>4 DEF SlotSteps
<1>3. CASE pc[r].block # "body"
  <2>1. Program(r) \in Programs(Cleanup)
    BY <1>1, <1>3, SlotCleanup DEF Program, Block
  <2>2. Program(r)[pc[r].at] \in Cleanup
    BY <1>1, <2>1 DEF Programs
  <2>3. QED
    BY <1>1, <1>3, <2>2 DEF Cleanup
<1>4. QED
  BY <1>2, <1>3

\* A child that reads its peer's slot reads the peer's data: both have met since each wrote.
LEMMA ChildSlots ==
  ASSUME Shapes, probe \in SlotProbes, \A q \in Rank : Slots(q),
         NEW r \in Rank, NEW s \in Now(r), Effect(r, s) \/ Failure(r, s)
  PROVE  /\ \A q \in Rank : Slots(q)'
         /\ wrong' = wrong
<1>1. probe' = probe /\ Meeting' = Meeting /\ Written' = Written /\ Written \in 5..6
      /\ Meeting \in Channels
  BY OthersStill DEF Meeting, Written, Channels
<1>2. /\ Peer(r) = 1 - r /\ Peer(r) \in Rank /\ Peer(r) # r /\ Peer(Peer(r)) = r
      /\ \A q \in Rank : q = r \/ q = Peer(r)
      /\ <<Meeting, r>> \in Fences /\ <<Meeting, Peer(r)>> \in Fences
  BY <1>1 DEF Rank, Peer, Fences
<1>3. pc'[Peer(r)] = pc[Peer(r)]
  BY <1>2, OthersStill
<1>4. CASE Effect(r, s)
  <2>1. /\ pc'[r] = After(r, s)
        /\ memory'[Peer(r)] = memory[Peer(r)]
        /\ memory'[r] = memory[r] \/ memory'[r] = r
        /\ s.do = "write" /\ s.needs = "nothing" => memory'[r] = r
        /\ fence'[<<Meeting, Peer(r)>>] = fence[<<Meeting, Peer(r)>>]
        /\ fence'[<<Meeting, r>>] >= fence[<<Meeting, r>>]
        /\ s.do = "post" /\ s.needs = "nothing" => fence'[<<Meeting, r>>] >= 1
        /\ s.do # "post" => fence' = fence
    <3>1. pc'[r] = After(r, s)
      BY <1>4 DEF Effect, Shapes
    <3>2. /\ memory'[Peer(r)] = memory[Peer(r)]
          /\ memory'[r] = memory[r] \/ memory'[r] = r
          /\ s.do = "write" /\ s.needs = "nothing" => memory'[r] = r
      BY <1>2, <1>4, SlotNow DEF Effect, Acts, Shapes
    <3>3. fence' = fence \/ (s.do = "post" /\ fence' = [fence EXCEPT ![<<Meeting, r>>] = @ + 1])
      BY <1>4, SlotNow DEF Effect
    <3>4. s.do = "post" /\ s.needs = "nothing" => fence' = [fence EXCEPT ![<<Meeting, r>>] = @ + 1]
      BY <1>4, SlotNow DEF Effect, Acts
    <3>5. fence \in [Fences -> Nat] /\ fence[<<Meeting, r>>] \in Nat
      BY <1>2 DEF Shapes
    <3>6. <<Meeting, Peer(r)>> # <<Meeting, r>>
      BY <1>2
    <3>7. /\ fence'[<<Meeting, Peer(r)>>] = fence[<<Meeting, Peer(r)>>]
          /\ fence'[<<Meeting, r>>] >= fence[<<Meeting, r>>]
          /\ s.do = "post" /\ s.needs = "nothing" => fence'[<<Meeting, r>>] >= 1
          /\ s.do # "post" => fence' = fence
      BY <1>2, <3>3, <3>4, <3>5, <3>6
    <3>8. QED
      BY <3>1, <3>2, <3>7
  <2>2. /\ pc[r].at \in Nat
        /\ pc'[r].block = "body" => pc[r].block = "body" /\ pc'[r].at = pc[r].at + 1
    BY <2>1, Here, SlotNow
  <2>3. s.do \in {"post", "read"} => pc[r].block = "body" /\ pc[r].at > Written
    BY <1>1, SlotNow
  <2>4. s.do = "read" => pc[r].at > Written + 2
    BY <1>1, <2>3, SlotNow
  <2>5. /\ fence[<<Meeting, r>>] \in Nat /\ fence[<<Meeting, Peer(r)>>] \in Nat
        /\ fence'[<<Meeting, r>>] \in Nat
    BY <1>2, <1>4, ChildShapes DEF Shapes
  <2>6. s.do = "meet" /\ s.needs = "nothing" =>
          fence[<<Meeting, Peer(r)>>] >= fence[<<Meeting, r>>]
    BY <1>4, SlotNow DEF Effect, Acts, Ready
  <2>7. Slots(r)'
    <3>1. memory'[r] \in {r, Nobody}
      BY <1>2, <2>1 DEF Slots
    <3>2. fence'[<<Meeting, r>>] >= 1 => memory'[r] = r
      BY <1>2, <2>1, <2>3 DEF Slots
    <3>3. ASSUME pc'[r].block = "body" PROVE pc'[r].at > Written => memory'[r] = r
      BY <1>1, <1>2, <2>1, <2>2, <3>3, SlotNow DEF Slots
    <3>4. ASSUME pc'[r].block = "body"
          PROVE  pc'[r].at > Written + 1 => fence'[<<Meeting, r>>] >= 1
      BY <1>1, <1>2, <2>1, <2>2, <2>5, <3>4, SlotNow DEF Slots
    <3>5. ASSUME pc'[r].block = "body"
          PROVE  pc'[r].at > Written + 2 => fence'[<<Meeting, Peer(r)>>] >= 1
      BY <1>1, <1>2, <2>1, <2>2, <2>5, <2>6, <3>5, SlotNow DEF Slots
    <3>6. QED
      BY <1>1, <1>2, <3>1, <3>2, <3>3, <3>4, <3>5 DEF Slots, Peer
  <2>8. Slots(Peer(r))'
    <3>1. /\ Slots(Peer(r)) /\ memory'[Peer(r)] = memory[Peer(r)]
          /\ fence'[<<Meeting, Peer(r)>>] = fence[<<Meeting, Peer(r)>>]
          /\ fence[<<Meeting, r>>] >= 1 => fence'[<<Meeting, r>>] >= 1
          /\ Peer(Peer(r)) = r
      BY <1>2, <2>1, <2>5
    <3>2. QED
      BY <1>1, <1>3, <3>1 DEF Slots, Peer
  <2>9. wrong' = wrong
    <3>1. CASE s.do = "read" /\ Acts(r, s)
      <4>1. Saw(r, memory[1 - r])
        BY <1>4, <3>1, SlotNow DEF Effect
      <4>2. memory[Peer(r)] = Peer(r)
        BY <1>1, <1>2, <2>3, <2>4, <3>1 DEF Slots
      <4>3. QED
        BY <1>2, <4>1, <4>2 DEF Saw
    <3>2. QED
      BY <1>4, <3>1 DEF Effect
  <2>10. QED
    BY <1>2, <2>7, <2>8, <2>9
<1>5. CASE Failure(r, s)
  <2>1. memory' = memory /\ fence' = fence /\ wrong' = wrong
    BY <1>5 DEF Failure
  <2>2. pc'[r] = pc[r] \/ pc'[r].block # "body"
    <3>1. pc[r].block = "finally" => After(r, s).block # "body"
      BY AfterPlace
    <3>2. QED
      BY <1>5, <3>1, FailurePlace
  <2>3. \A q \in Rank : pc'[q] = pc[q] \/ pc'[q].block # "body"
    BY <1>2, <1>3, <2>2
  <2>4. QED
    BY <1>1, <2>1, <2>3 DEF Slots
<1>6. QED
  BY <1>4, <1>5

-----------------------------------------------------------------------------
(* The probes with D3D12 heaps.                                            *)

\* The i-th step of program p does this, whatever else may be held.
Plainly(p, i, do, arg) == Is(p, i, "nothing", do, arg)

\* What the children of d3d12_cross_process_probe.py do before they use the heap ...
LEMMA CrossOpening ==
  ASSUME NEW r \in Rank
  PROVE  LET p == CrossRank(r).body
         IN  /\ Len(p) = 11 /\ p[1].do = "call"
             /\ r = 0 => Plainly(p, 2, "hold", "heap0") /\ Plainly(p, 3, "set", {<<"ready", 0>>})
                         /\ Plainly(p, 4, "await", <<"ready", 1>>)
             /\ r = 1 => Plainly(p, 2, "await", <<"ready", 0>>) /\ Plainly(p, 3, "open", "heap0")
                         /\ Plainly(p, 4, "set", {<<"ready", 1>>})
<1>1. CASE r = 0
  BY <1>1
  DEF Plainly, Is, CrossRank, HandOver, Heap, Enq, Call, Do, If, Hold, Open, Sync
<1>2. CASE r = 1
  BY <1>2
  DEF Plainly, Is, CrossRank, HandOver, Heap, Enq, Call, Do, If, Hold, Open, Sync
<1>3. QED
  BY <1>1, <1>2 DEF Rank

\* ... with the heap ...
LEMMA CrossUse ==
  ASSUME NEW r \in Rank
  PROVE  LET p == CrossRank(r).body
         IN  /\ Plainly(p, 5, "enqueue", <<CrossScript(r)[1]>>)
             /\ Plainly(p, 6, "enqueue", <<CrossScript(r)[2]>>)
             /\ Plainly(p, 7, "enqueue", <<CrossScript(r)[3]>>)
             /\ Plainly(p, 8, "enqueue", <<CrossScript(r)[4]>>)
<1>1. CASE r = 0
  BY <1>1
  DEF Plainly, Is, CrossRank, HandOver, CrossScript, Heap, Enq, Call, Do, If, Hold, Open, Sync
<1>2. CASE r = 1
  BY <1>2
  DEF Plainly, Is, CrossRank, HandOver, CrossScript, Heap, Enq, Call, Do, If, Hold, Open, Sync
<1>3. QED
  BY <1>1, <1>2 DEF Rank

\* ... and afterwards.
LEMMA CrossEnd ==
  ASSUME NEW r \in Rank
  PROVE  LET p == CrossRank(r).body
         IN  p[9].do = "sync" /\ p[10].do = "check" /\ p[11].do = "key"
<1>1. CASE r = 0
  BY <1>1 DEF CrossRank, HandOver, Heap, Enq, Call, Do, If, Hold, Open, Sync
<1>2. CASE r = 1
  BY <1>2 DEF CrossRank, HandOver, Heap, Enq, Call, Do, If, Hold, Open, Sync
<1>3. QED
  BY <1>1, <1>2 DEF Rank

\* What those of benchmark_d3d12_cross_adapter.py do before they use the heaps ...
LEMMA BenchOpening ==
  ASSUME NEW r \in Rank
  PROVE  LET p == BenchD3D12Rank(r).body
         IN  /\ Len(p) = 23
             /\ p[1].do = "call" /\ Plainly(p, 2, "hold", HeapOf(r))
             /\ Plainly(p, 3, "set", {<<"ready", r>>}) /\ Plainly(p, 4, "await", <<"ready", 1 - r>>)
             /\ Plainly(p, 5, "open", HeapOf(1 - r))
  BY DEF Plainly, Is, BenchD3D12Rank, CreateAndOpen, Exchange, BenchScript, Heap, Enq, Call,
         Do, If, Hold, Open, Sync, Meet

\* ... in the warm-up ...
LEMMA BenchWarmUp ==
  ASSUME NEW r \in Rank
  PROVE  LET p == BenchD3D12Rank(r).body
         IN  /\ Plainly(p, 6, "enqueue", <<BenchScript(r)[1]>>)
             /\ Plainly(p, 7, "enqueue", <<BenchScript(r)[2]>>)
             /\ Plainly(p, 8, "enqueue", <<BenchScript(r)[3]>>)
             /\ Plainly(p, 9, "enqueue", <<BenchScript(r)[4]>>)
             /\ Plainly(p, 10, "enqueue", <<BenchScript(r)[5]>>)
             /\ Plainly(p, 11, "enqueue", <<BenchScript(r)[6]>>)
<1> DEFINE p == BenchD3D12Rank(r).body
<1>1. /\ Plainly(p, 6, "enqueue", <<BenchScript(r)[1]>>)
      /\ Plainly(p, 7, "enqueue", <<BenchScript(r)[2]>>)
      /\ Plainly(p, 8, "enqueue", <<BenchScript(r)[3]>>)
  BY DEF Plainly, Is, BenchD3D12Rank, CreateAndOpen, Exchange, BenchScript, Heap, Enq, Call,
         Do, If, Hold, Open, Sync, Meet
<1>2. /\ Plainly(p, 9, "enqueue", <<BenchScript(r)[4]>>)
      /\ Plainly(p, 10, "enqueue", <<BenchScript(r)[5]>>)
      /\ Plainly(p, 11, "enqueue", <<BenchScript(r)[6]>>)
  BY DEF Plainly, Is, BenchD3D12Rank, CreateAndOpen, Exchange, BenchScript, Heap, Enq, Call,
         Do, If, Hold, Open, Sync, Meet
<1>3. QED
  BY <1>1, <1>2

\* ... between the rounds ...
LEMMA BenchMeeting ==
  ASSUME NEW r \in Rank
  PROVE  LET p == BenchD3D12Rank(r).body
         IN  p[12].do = "sync" /\ Plainly(p, 13, "post", "mp") /\ Plainly(p, 14, "meet", "mp")
  BY DEF Plainly, Is, BenchD3D12Rank, CreateAndOpen, Exchange, BenchScript, Heap, Enq, Call,
         Do, If, Hold, Open, Sync, Meet

\* ... in the measured round ...
LEMMA BenchRound ==
  ASSUME NEW r \in Rank
  PROVE  LET p == BenchD3D12Rank(r).body
         IN  /\ Plainly(p, 15, "enqueue", <<BenchScript(r)[7]>>)
             /\ Plainly(p, 16, "enqueue", <<BenchScript(r)[8]>>)
             /\ Plainly(p, 17, "enqueue", <<BenchScript(r)[9]>>)
             /\ Plainly(p, 18, "enqueue", <<BenchScript(r)[10]>>)
             /\ Plainly(p, 19, "enqueue", <<BenchScript(r)[11]>>)
             /\ Plainly(p, 20, "enqueue", <<BenchScript(r)[12]>>)
<1> DEFINE p == BenchD3D12Rank(r).body
<1>1. /\ Plainly(p, 15, "enqueue", <<BenchScript(r)[7]>>)
      /\ Plainly(p, 16, "enqueue", <<BenchScript(r)[8]>>)
      /\ Plainly(p, 17, "enqueue", <<BenchScript(r)[9]>>)
  BY DEF Plainly, Is, BenchD3D12Rank, CreateAndOpen, Exchange, BenchScript, Heap, Enq, Call,
         Do, If, Hold, Open, Sync, Meet
<1>2. /\ Plainly(p, 18, "enqueue", <<BenchScript(r)[10]>>)
      /\ Plainly(p, 19, "enqueue", <<BenchScript(r)[11]>>)
      /\ Plainly(p, 20, "enqueue", <<BenchScript(r)[12]>>)
  BY DEF Plainly, Is, BenchD3D12Rank, CreateAndOpen, Exchange, BenchScript, Heap, Enq, Call,
         Do, If, Hold, Open, Sync, Meet
<1>3. QED
  BY <1>1, <1>2

\* ... and afterwards.
LEMMA BenchEnd ==
  ASSUME NEW r \in Rank
  PROVE  LET p == BenchD3D12Rank(r).body
         IN  p[21].do = "sync" /\ p[22].do = "check" /\ p[23].do = "key"
  BY DEF Plainly, Is, BenchD3D12Rank, CreateAndOpen, Exchange, BenchScript, Heap, Enq, Call,
         Do, If, Hold, Open, Sync, Meet

\* The except and finally blocks of the cross-process probe.
LEMMA CrossCleanup ==
  ASSUME NEW r \in Rank
  PROVE  LET c == CrossRank(r)
         IN  /\ Len(c.except) = 2 /\ Len(c.finally) = 1
             /\ c.except[1].do = "unset"
             /\ Plainly(c.except, 2, "set", {<<"ready", 0>>, <<"ready", 1>>})
             /\ c.finally[1].do = "free"
  BY DEF Plainly, Is, CrossRank, Do, If, Free

\* The except and finally blocks of the benchmark over D3D12.
LEMMA BenchCleanup ==
  ASSUME NEW r \in Rank
  PROVE  LET b == BenchD3D12Rank(r)
         IN  /\ Len(b.except) = 3 /\ Len(b.finally) = 3
             /\ b.except[1].do = "unset"
             /\ Plainly(b.except, 2, "set", {<<"ready", 0>>, <<"ready", 1>>})
             /\ Plainly(b.except, 3, "abort", "none")
             /\ Plainly(b.finally, 1, "sync", "none")
             /\ b.finally[2].do = "free" /\ b.finally[3].do = "free"
  BY DEF Plainly, Is, BenchD3D12Rank, WakePeer, SyncAndClose, Do, If, Free, Sync

\* What the proofs need of a step of these children ...
HeapStep(r, s) ==
  /\ s.do \in {"call", "hold", "open", "set", "await", "enqueue", "sync", "post", "meet", "check",
               "key", "unset", "abort", "free"}
  /\ s.do \in {"hold", "open"} => s.arg \in {"heap0", "heap1"}
  /\ s.do = "set" => \A f \in s.arg : f[1] = "ready"
  /\ s.do = "await" => s.arg = <<"ready", 1 - r>>
  /\ s.do \in {"post", "meet"} => probe = "bench_d3d12" /\ s.arg = "mp"

\* ... of one in the try block ...
BodyStep(r, s) ==
  LET at == pc[r].at
      e == Enqueued(at)
  IN  /\ at = SetAt(r) => s.needs = "nothing" /\ s.do = "set" /\ <<"ready", r>> \in s.arg
      /\ s.do = "enqueue" =>
           /\ s.needs = "nothing" /\ s.arg = <<Script(r)[e + 1]>>
           /\ e < Len(Script(r)) /\ Enqueued(at + 1) = e + 1
      /\ s.do # "enqueue" => Enqueued(at + 1) = e

\* ... and of one in another block.
OtherStep(r, s) ==
  /\ s.do \in {"unset", "set", "abort", "sync", "free"}
  /\ pc[r].block = "except" /\ pc[r].at = 2 =>
       s.needs = "nothing" /\ s.do = "set" /\ <<"ready", r>> \in s.arg

\* Where a step leads.
Leads(r, s) ==
  \/ After(r, s) = [block |-> pc[r].block, at |-> pc[r].at + 1]
  \/ pc[r].block = "body" /\ pc[r].at > 10 /\ After(r, s) = [block |-> "finally", at |-> 1]
  \/ /\ pc[r].block = "except" /\ pc[r].at = (IF probe = "cross" THEN 2 ELSE 3)
     /\ After(r, s) = [block |-> "finally", at |-> 1]
  \/ pc[r].block = "finally" /\ After(r, s) = [block |-> "exit", at |-> 1]

\* All this holds of d3d12_cross_process_probe.py.
LEMMA CrossNow ==
  ASSUME Shapes, probe = "cross", NEW r \in Rank, NEW s \in Now(r)
  PROVE  /\ HeapStep(r, s) /\ Leads(r, s)
         /\ IF pc[r].block = "body" THEN BodyStep(r, s) ELSE OtherStep(r, s)
<1>1. /\ Child["cross"][r] = CrossRank(r) /\ pc[r].block \in Block
      /\ r = 0 \/ r = 1
  BY NowIs DEF Child, Rank
<1>2. Len(CrossScript(0)) = 4 /\ Len(CrossScript(1)) = 4
  BY DEF CrossScript
<1>3. CASE pc[r].block = "body"
  <2>1. Program(r) = CrossRank(r).body
    BY <1>1, <1>3 DEF Program
  <2>2. /\ pc[r].at \in 1..11
        /\ LET p == CrossRank(r).body IN
             s.needs = p[pc[r].at].needs /\ s.do = p[pc[r].at].do /\ s.arg = p[pc[r].at].arg
        /\ pc[r].at # 11 => After(r, s) = [block |-> "body", at |-> pc[r].at + 1]
        /\ pc[r].at = 11 => After(r, s) = [block |-> "finally", at |-> 1]
    <3>1. Len(Program(r)) = 11
      BY <2>1, CrossOpening
    <3>2. QED
      BY <1>3, <2>1, <3>1, Here
  <2>3. /\ pc[r].at = 1 => s.do = "call"
        /\ pc[r].at = SetAt(r) => s.needs = "nothing" /\ s.do = "set" /\ s.arg = {<<"ready", r>>}
        /\ pc[r].at \in 2..4 /\ pc[r].at # SetAt(r) =>
             \/ s.do \in {"hold", "open"} /\ s.arg = "heap0"
             \/ s.do = "await" /\ s.arg = <<"ready", 1 - r>>
        /\ SetAt(r) \in {3, 4}
    <3>1. CASE r = 0
      <4>1. /\ pc[r].at = 1 => s.do = "call"
            /\ pc[r].at = 2 => s.do = "hold" /\ s.arg = "heap0"
            /\ pc[r].at = 3 => s.needs = "nothing" /\ s.do = "set" /\ s.arg = {<<"ready", 0>>}
            /\ pc[r].at = 4 => s.do = "await" /\ s.arg = <<"ready", 1>>
        BY <2>2, <3>1, CrossOpening DEF Plainly, Is
      <4>2. SetAt(r) = 3 /\ 1 - r = 1
        BY <3>1 DEF SetAt
      <4>3. QED
        BY <2>2, <3>1, <4>1, <4>2
    <3>2. CASE r = 1
      <4>1. /\ pc[r].at = 1 => s.do = "call"
            /\ pc[r].at = 2 => s.do = "await" /\ s.arg = <<"ready", 0>>
            /\ pc[r].at = 3 => s.do = "open" /\ s.arg = "heap0"
            /\ pc[r].at = 4 => s.needs = "nothing" /\ s.do = "set" /\ s.arg = {<<"ready", 1>>}
        BY <2>2, <3>2, CrossOpening DEF Plainly, Is
      <4>2. SetAt(r) = 4 /\ 1 - r = 0
        BY <3>2 DEF SetAt
      <4>3. QED
        BY <2>2, <3>2, <4>1, <4>2
    <3>3. QED
      BY <1>1, <3>1, <3>2
  <2>4. pc[r].at \in 5..8 =>
          s.needs = "nothing" /\ s.do = "enqueue" /\ s.arg = <<CrossScript(r)[pc[r].at - 4]>>
    BY <2>2, CrossUse DEF Plainly, Is
  <2>5. pc[r].at \in 9..11 => s.do \in {"sync", "check", "key"}
    BY <2>2, CrossEnd
  <2>6. HeapStep(r, s) /\ (s.do = "enqueue" <=> pc[r].at \in 5..8)
    <3>1. CASE pc[r].at \in 1..4
      BY <2>3, <3>1 DEF HeapStep
    <3>2. CASE pc[r].at \in 5..8
      BY <2>4, <3>2 DEF HeapStep
    <3>3. CASE pc[r].at \in 9..11
      BY <2>5, <3>3 DEF HeapStep
    <3>4. QED
      BY <2>2, <3>1, <3>2, <3>3
  <2>7. BodyStep(r, s)
    <3>1. Script(r) = CrossScript(r) /\ Len(Script(r)) = 4
      BY <1>1, <1>2 DEF Script
    <3>2. /\ Enqueued(pc[r].at + 1) = Enqueued(pc[r].at) + (IF pc[r].at \in 5..8 THEN 1 ELSE 0)
          /\ pc[r].at \in 5..8 => Enqueued(pc[r].at) = pc[r].at - 5
          /\ Enqueued(pc[r].at) \in Nat
      BY <2>2 DEF Enqueued
    <3>3. pc[r].at \in 5..8 => Enqueued(pc[r].at) + 1 = pc[r].at - 4 /\ Enqueued(pc[r].at) < 4
      BY <2>2, <3>2
    <3>4. QED
      BY <2>3, <2>4, <2>6, <3>1, <3>2, <3>3 DEF BodyStep
  <2>8. Leads(r, s)
    BY <1>3, <2>2 DEF Leads
  <2>9. QED
    BY <1>3, <2>6, <2>7, <2>8
<1>4. CASE pc[r].block = "except"
  <2>1. Program(r) = CrossRank(r).except /\ Len(CrossRank(r).except) = 2
    BY <1>1, <1>4, CrossCleanup DEF Program
  <2>2. /\ pc[r].at \in 1..2
        /\ LET p == CrossRank(r).except IN
             s.needs = p[pc[r].at].needs /\ s.do = p[pc[r].at].do /\ s.arg = p[pc[r].at].arg
        /\ pc[r].at # 2 => After(r, s) = [block |-> "except", at |-> pc[r].at + 1]
        /\ pc[r].at = 2 => After(r, s) = [block |-> "finally", at |-> 1]
    BY <1>1, <1>4, <2>1, Here
  <2>3. HeapStep(r, s) /\ OtherStep(r, s)
    BY <1>1, <2>2, CrossCleanup DEF HeapStep, OtherStep, Plainly, Is
  <2>4. Leads(r, s)
    BY <1>4, <2>2 DEF Leads
  <2>5. QED
    BY <1>4, <2>3, <2>4
<1>5. CASE pc[r].block = "finally"
  <2>1. Program(r) = CrossRank(r).finally /\ Len(CrossRank(r).finally) = 1
    BY <1>1, <1>5, CrossCleanup DEF Program
  <2>2. /\ pc[r].at = 1 /\ s.do = CrossRank(r).finally[1].do
        /\ After(r, s) = [block |-> "exit", at |-> 1]
    BY <1>1, <1>5, <2>1, Here
  <2>3. s.do = "free"
    BY <2>2, CrossCleanup
  <2>4. QED
    BY <1>5, <2>2, <2>3 DEF HeapStep, OtherStep, Leads
<1>6. QED
  BY <1>1, <1>3, <1>4, <1>5 DEF Block

\* What the barrier and the closing of the heaps need of benchmark_d3d12_cross_adapter.py.
BenchStep(r, s) ==
  LET block == pc[r].block
      at == pc[r].at
  IN  /\ block = "body" /\ at = 2 => s.needs = "nothing" /\ s.do = "hold" /\ s.arg = HeapOf(r)
      /\ block = "body" /\ at = 5 => s.needs = "nothing" /\ s.do = "open" /\ s.arg = HeapOf(1 - r)
      /\ block = "body" /\ at = 13 => s.needs = "nothing" /\ s.do = "post"
      /\ s.do \in {"post", "meet"} => block = "body" /\ at = (IF s.do = "post" THEN 13 ELSE 14)
      /\ s.do = "enqueue" => block = "body" /\ at >= 6
      /\ block = "except" => s.do \in {"unset", "set", "abort"}
      /\ block = "except" /\ at = 3 => s.needs = "nothing" /\ s.do = "abort"
      /\ s.do = "free" => block = "finally" /\ at > 1
      /\ block = "finally" /\ at = 1 => s.needs = "nothing" /\ s.do = "sync"
      /\ block = "finally" /\ at > 1 => s.do = "free"
      /\ at \in Nat /\ (block = "body" => After(r, s).block = "body" \/ at = 23)

\* All this holds of it.
LEMMA BenchNow ==
  ASSUME Shapes, probe = "bench_d3d12", NEW r \in Rank, NEW s \in Now(r)
  PROVE  /\ HeapStep(r, s) /\ Leads(r, s) /\ BenchStep(r, s)
         /\ IF pc[r].block = "body" THEN BodyStep(r, s) ELSE OtherStep(r, s)
<1>1. /\ Child["bench_d3d12"][r] = BenchD3D12Rank(r) /\ pc[r].block \in Block
      /\ HeapOf(r) \in {"heap0", "heap1"} /\ HeapOf(1 - r) \in {"heap0", "heap1"}
  BY NowIs DEF Child, HeapOf
<1>2. Len(BenchScript(r)) = 12
  BY DEF BenchScript
<1>3. CASE pc[r].block = "body"
  <2>1. Program(r) = BenchD3D12Rank(r).body /\ Len(BenchD3D12Rank(r).body) = 23
    BY <1>1, <1>3, BenchOpening DEF Program
  <2>2. /\ pc[r].at \in 1..23
        /\ LET p == BenchD3D12Rank(r).body IN
             s.needs = p[pc[r].at].needs /\ s.do = p[pc[r].at].do /\ s.arg = p[pc[r].at].arg
        /\ pc[r].at # 23 => After(r, s) = [block |-> "body", at |-> pc[r].at + 1]
        /\ pc[r].at = 23 => After(r, s) = [block |-> "finally", at |-> 1]
    BY <1>3, <2>1, Here
  <2>3. /\ pc[r].at = 1 => s.do = "call"
        /\ pc[r].at = 2 => s.needs = "nothing" /\ s.do = "hold" /\ s.arg = HeapOf(r)
        /\ pc[r].at = 3 => s.needs = "nothing" /\ s.do = "set" /\ s.arg = {<<"ready", r>>}
        /\ pc[r].at = 4 => s.do = "await" /\ s.arg = <<"ready", 1 - r>>
        /\ pc[r].at = 5 => s.needs = "nothing" /\ s.do = "open" /\ s.arg = HeapOf(1 - r)
    BY <2>2, BenchOpening DEF Plainly, Is
  <2>4. pc[r].at \in 6..11 =>
          s.needs = "nothing" /\ s.do = "enqueue" /\ s.arg = <<BenchScript(r)[pc[r].at - 5]>>
    BY <2>2, BenchWarmUp DEF Plainly, Is
  <2>5. /\ pc[r].at = 12 => s.do = "sync"
        /\ pc[r].at = 13 => s.needs = "nothing" /\ s.do = "post" /\ s.arg = "mp"
        /\ pc[r].at = 14 => s.do = "meet" /\ s.arg = "mp"
    BY <2>2, BenchMeeting DEF Plainly, Is
  <2>6. pc[r].at \in 15..20 =>
          s.needs = "nothing" /\ s.do = "enqueue" /\ s.arg = <<BenchScript(r)[pc[r].at - 8]>>
    BY <2>2, BenchRound DEF Plainly, Is
  <2>7. /\ pc[r].at = 21 => s.do = "sync"
        /\ pc[r].at = 22 => s.do = "check"
        /\ pc[r].at = 23 => s.do = "key"
    BY <2>2, BenchEnd
  <2>8. /\ HeapStep(r, s)
        /\ s.do = "enqueue" <=> pc[r].at \in (6..11) \cup (15..20)
        /\ s.do = "post" <=> pc[r].at = 13
        /\ s.do = "meet" <=> pc[r].at = 14
        /\ s.do # "free"
    <3>1. CASE pc[r].at \in 1..5
      BY <1>1, <2>3, <3>1 DEF HeapStep
    <3>2. CASE pc[r].at \in 6..11
      BY <2>4, <3>2 DEF HeapStep
    <3>3. CASE pc[r].at \in 12..14
      BY <2>5, <3>3 DEF HeapStep
    <3>4. CASE pc[r].at \in 15..20
      BY <2>6, <3>4 DEF HeapStep
    <3>5. CASE pc[r].at \in 21..23
      BY <2>7, <3>5 DEF HeapStep
    <3>6. QED
      BY <2>2, <3>1, <3>2, <3>3, <3>4, <3>5
  <2>9. BodyStep(r, s)
    <3>1. Script(r) = BenchScript(r) /\ Len(Script(r)) = 12
      BY <1>2 DEF Script
    <3>2. pc[r].at = SetAt(r) => s.needs = "nothing" /\ s.do = "set" /\ <<"ready", r>> \in s.arg
      BY <2>3 DEF SetAt
    <3>3. /\ Enqueued(pc[r].at + 1) = Enqueued(pc[r].at)
               + (IF pc[r].at \in (6..11) \cup (15..20) THEN 1 ELSE 0)
          /\ pc[r].at \in 6..11 => Enqueued(pc[r].at) = pc[r].at - 6
          /\ pc[r].at \in 15..20 => Enqueued(pc[r].at) = pc[r].at - 9
          /\ Enqueued(pc[r].at) \in Nat
      BY <2>2 DEF Enqueued
    <3>4. /\ pc[r].at \in 6..11 => Enqueued(pc[r].at) + 1 = pc[r].at - 5
          /\ pc[r].at \in 15..20 => Enqueued(pc[r].at) + 1 = pc[r].at - 8
          /\ pc[r].at \in (6..11) \cup (15..20) => Enqueued(pc[r].at) < 12
      BY <2>2, <3>3
    <3>5. QED
      BY <2>4, <2>6, <2>8, <3>1, <3>2, <3>3, <3>4 DEF BodyStep
  <2>10. Leads(r, s)
    BY <1>3, <2>2 DEF Leads
  <2>11. BenchStep(r, s)
    BY <1>3, <2>2, <2>3, <2>5, <2>8 DEF BenchStep
  <2>12. QED
    BY <1>3, <2>8, <2>9, <2>10, <2>11
<1>4. CASE pc[r].block = "except"
  <2>1. Program(r) = BenchD3D12Rank(r).except /\ Len(BenchD3D12Rank(r).except) = 3
    BY <1>1, <1>4, BenchCleanup DEF Program
  <2>2. /\ pc[r].at \in 1..3
        /\ LET p == BenchD3D12Rank(r).except IN
             s.needs = p[pc[r].at].needs /\ s.do = p[pc[r].at].do /\ s.arg = p[pc[r].at].arg
        /\ pc[r].at # 3 => After(r, s) = [block |-> "except", at |-> pc[r].at + 1]
        /\ pc[r].at = 3 => After(r, s) = [block |-> "finally", at |-> 1]
    BY <1>4, <2>1, Here
  <2>3. HeapStep(r, s) /\ OtherStep(r, s)
    BY <1>4, <2>2, BenchCleanup DEF HeapStep, OtherStep, Plainly, Is, Rank
  <2>4. Leads(r, s)
    BY <1>4, <2>2 DEF Leads
  <2>5. BenchStep(r, s)
    BY <1>4, <2>2, BenchCleanup DEF BenchStep, Plainly, Is
  <2>6. QED
    BY <1>4, <2>3, <2>4, <2>5
<1>5. CASE pc[r].block = "finally"
  <2>1. Program(r) = BenchD3D12Rank(r).finally /\ Len(BenchD3D12Rank(r).finally) = 3
    BY <1>1, <1>5, BenchCleanup DEF Program
  <2>2. /\ pc[r].at \in 1..3
        /\ LET p == BenchD3D12Rank(r).finally IN
             s.needs = p[pc[r].at].needs /\ s.do = p[pc[r].at].do /\ s.arg = p[pc[r].at].arg
        /\ pc[r].at # 3 => After(r, s) = [block |-> "finally", at |-> pc[r].at + 1]
        /\ pc[r].at = 3 => After(r, s) = [block |-> "exit", at |-> 1]
    BY <1>5, <2>1, Here
  <2>3. /\ pc[r].at = 1 => s.needs = "nothing" /\ s.do = "sync"
        /\ pc[r].at > 1 => s.do = "free"
    BY <2>2, BenchCleanup DEF Plainly, Is
  <2>4. QED
    BY <1>5, <2>2, <2>3 DEF HeapStep, OtherStep, Leads, BenchStep
<1>6. QED
  BY <1>1, <1>3, <1>4, <1>5 DEF Block

\* The pieces of a script: one more operation at the end, one less at the front.
LEMMA Pieces ==
  ASSUME NEW S, NEW p \in Seq(S), NEW d \in Nat, NEW e \in d..Len(p)
  PROVE  /\ e < Len(p) => SubSeq(p, d + 1, e) \o <<p[e + 1]>> = SubSeq(p, d + 1, e + 1)
         /\ SubSeq(p, d + 1, e) # <<>> =>
              /\ d < e /\ Head(SubSeq(p, d + 1, e)) = p[d + 1]
              /\ Tail(SubSeq(p, d + 1, e)) = SubSeq(p, (d + 1) + 1, e)
         /\ SubSeq(p, d + 1, d) = <<>>
  BY SMT

\* The steps of both probes.
LEMMA HeapNow ==
  ASSUME Shapes, probe \in HeapProbes, NEW r \in Rank, NEW s \in Now(r)
  PROVE  /\ HeapStep(r, s) /\ Leads(r, s) /\ pc[r].at \in Nat
         /\ IF pc[r].block = "body" THEN BodyStep(r, s) ELSE OtherStep(r, s)
  BY CrossNow, BenchNow, NowIs DEF HeapProbes

\* A child that leaves its try block, or passes the step that sets its event, has set it.
LEMMA ChildWoken ==
  ASSUME Shapes, probe \in HeapProbes, \A q \in Rank : Woken(q),
         NEW r \in Rank, NEW s \in Now(r), Effect(r, s) \/ Failure(r, s)
  PROVE  /\ \A q \in Rank : Woken(q)'
         /\ \A h \in Rank : fence'[<<"heap", h>>] = fence[<<"heap", h>>]
<1>1. /\ \A q \in Rank : SetAt(q)' = SetAt(q) /\ SetAt(q) \in {3, 4}
      /\ \A q \in Rank : <<"ready", q>> \in Fences /\ <<"heap", q>> \in Fences
      /\ \A q \in Rank \ {r} : pc'[q] = pc[q]
  BY OthersStill DEF SetAt, Fences, Channels
<1>2. CASE Effect(r, s)
  <2>1. /\ \A f \in Fences : f[1] = "heap" => fence'[f] = fence[f]
        /\ \A f \in Fences : f[1] = "ready" => fence'[f] \in {1, fence[f]}
        /\ s.do = "set" /\ s.needs = "nothing" => \A f \in Fences : f \in s.arg => fence'[f] = 1
    <3>1. /\ s.do = "set" => \A f \in s.arg : f[1] = "ready"
          /\ s.do = "post" => s.arg = "mp"
      BY HeapNow DEF HeapStep
    <3>2. \/ fence' = fence /\ ~(s.do = "set" /\ s.needs = "nothing")
          \/ s.do = "set" /\ fence' = [f \in Fences |-> IF f \in s.arg THEN 1 ELSE fence[f]]
          \/ s.do = "post" /\ fence' = [fence EXCEPT ![<<s.arg, r>>] = @ + 1]
      BY <1>2 DEF Effect, Acts
    <3>3. CASE s.do = "post" /\ fence' = [fence EXCEPT ![<<s.arg, r>>] = @ + 1]
      <4>1. \A f \in Fences : f[1] # "mp" => fence'[f] = fence[f]
        BY <3>1, <3>3 DEF Shapes
      <4>2. QED
        BY <3>3, <4>1
    <3>4. QED
      BY <3>1, <3>2, <3>3
  <2>2. ASSUME NEW q \in Rank
        PROVE  fence[<<"ready", q>>] >= 1 => fence'[<<"ready", q>>] >= 1
    <3> DEFINE f == <<"ready", q>>
    <3>1. f \in Fences /\ f[1] = "ready"
      BY <1>1
    <3> HIDE DEF f
    <3>2. fence'[f] \in {1, fence[f]}
      BY <2>1, <3>1
    <3>3. QED
      BY <3>2 DEF f
  <2>3. pc'[r] = After(r, s) /\ pc[r].at \in Nat
    BY <1>2, HeapNow DEF Effect, Shapes
  <2>4. /\ pc[r].block = "body" /\ pc[r].at = SetAt(r) => fence'[<<"ready", r>>] >= 1
        /\ pc[r].block = "except" /\ pc[r].at = 2 => fence'[<<"ready", r>>] >= 1
    <3>1. /\ pc[r].block = "body" /\ pc[r].at = SetAt(r) =>
               s.needs = "nothing" /\ s.do = "set" /\ <<"ready", r>> \in s.arg
          /\ pc[r].block = "except" /\ pc[r].at = 2 =>
               s.needs = "nothing" /\ s.do = "set" /\ <<"ready", r>> \in s.arg
      BY HeapNow DEF BodyStep, OtherStep
    <3>2. <<"ready", r>> \in Fences
      BY <1>1
    <3>3. QED
      BY <2>1, <3>1, <3>2
  <2>5. Woken(r)'
    <3>1. /\ pc[r].block = "body" /\ pc[r].at > SetAt(r) => fence'[<<"ready", r>>] >= 1
          /\ pc[r].block = "except" /\ pc[r].at >= 3 => fence'[<<"ready", r>>] >= 1
          /\ pc[r].block \in {"finally", "exit"} => fence'[<<"ready", r>>] >= 1
      BY <2>2 DEF Woken
    <3>2. CASE pc'[r] = [block |-> pc[r].block, at |-> pc[r].at + 1]
      BY <1>1, <2>3, <2>4, <3>1, <3>2 DEF Woken
    <3>3. CASE pc[r].block = "body" /\ pc[r].at > 10
      BY <1>1, <2>3, <3>1, <3>3 DEF Woken
    <3>4. CASE pc[r].block = "except" /\ pc[r].at \in {2, 3}
      BY <2>3, <2>4, <3>1, <3>4 DEF Woken
    <3>5. CASE pc[r].block = "finally"
      BY <3>1, <3>5 DEF Woken
    <3>6. QED
      BY <2>3, <3>2, <3>3, <3>4, <3>5, HeapNow DEF Leads
  <2>6. \A q \in Rank \ {r} : Woken(q)'
    BY <1>1, <2>2 DEF Woken
  <2>7. QED
    BY <1>1, <2>1, <2>5, <2>6
<1>3. CASE Failure(r, s)
  <2>1. fence' = fence
    BY <1>3 DEF Failure
  <2>2. \/ pc'[r] = pc[r]
        \/ pc'[r] = [block |-> "except", at |-> 1]
        \/ pc[r].block = "finally"
    BY <1>3, FailurePlace
  <2>3. Woken(r)'
    BY <1>1, <2>1, <2>2 DEF Woken
  <2>4. QED
    BY <1>1, <2>1, <2>3 DEF Woken
<1>4. QED
  BY <1>2, <1>3

\* The scripts are scripts.
LEMMA Scripts ==
  ASSUME NEW r \in Rank
  PROVE  /\ Script(r) \in Seq(Ops) /\ Len(Script(r)) \in {4, 12}
         /\ probe = "cross" => Len(Script(r)) = 4
         /\ probe # "cross" => Len(Script(r)) = 12
<1>1. \A h \in Rank : \A v \in Nat : \A o \in {"signal", "wait", "read", "write"} :
        Op(o, <<"heap", h>>, v) \in Ops
  BY HeapBrick
<1>2. 0 \in Rank /\ 1 - r \in Rank
  BY DEF Rank
<1>3. CrossScript(r) \in Seq(Ops) /\ Len(CrossScript(r)) = 4
  BY <1>1, <1>2 DEF CrossScript
<1>4. BenchScript(r) \in Seq(Ops) /\ Len(BenchScript(r)) = 12
  BY <1>1, <1>2 DEF BenchScript
<1>5. QED
  BY <1>3, <1>4 DEF Script

\* A child enqueues the operations of its script in order.
LEMMA ChildStreams ==
  ASSUME Shapes, probe \in HeapProbes, NEW r \in Rank, NEW s \in Now(r),
         Effect(r, s) \/ Failure(r, s), NEW q \in Rank, NEW d \in Nat, Streaming(q, d)
  PROVE  Streaming(q, d)' /\ memory' = memory /\ wrong' = wrong
<1>1. /\ probe' = probe /\ \A p \in Rank \ {r} : pc'[p] = pc[p] /\ queue'[p] = queue[p]
      /\ \A p : Script(p)' = Script(p) /\ \A at : Enqueued(at)' = Enqueued(at)
  BY OthersStill DEF Script, CrossScript, BenchScript, Enqueued
<1>2. memory' = memory /\ wrong' = wrong
  BY HeapNow DEF HeapStep, Effect, Failure
<1>3. CASE q # r
  BY <1>1, <1>2, <1>3 DEF Streaming
<1>4. CASE q = r
  <2>1. PICK e \in d..Len(Script(r)) :
          /\ queue[r] = SubSeq(Script(r), d + 1, e)
          /\ pc[r].block = "body" => e = Enqueued(pc[r].at)
    BY <1>4 DEF Streaming
  <2>2. CASE Effect(r, s)
    <3>1. pc'[r] = After(r, s) /\ pc[r].at \in Nat
      BY <2>2, HeapNow DEF Effect, Shapes
    <3>2. pc'[r].block = "body" => pc[r].block = "body" /\ pc'[r].at = pc[r].at + 1
      BY <3>1, HeapNow DEF Leads
    <3>3. CASE s.do = "enqueue"
      <4>1. /\ pc[r].block = "body" /\ s.needs = "nothing"
            /\ s.arg = <<Script(r)[e + 1]>> /\ e < Len(Script(r))
            /\ Enqueued(pc[r].at + 1) = e + 1
        BY <2>1, <3>3, HeapNow DEF BodyStep, OtherStep
      <4>2. queue'[r] = queue[r] \o <<Script(r)[e + 1]>>
        BY <2>2, <3>3, <4>1 DEF Effect, Acts, Shapes
      <4>3. queue'[r] = SubSeq(Script(r), d + 1, e + 1) /\ e + 1 \in d..Len(Script(r))
        <5>1. Script(r) \in Seq(Ops) /\ Len(Script(r)) \in Nat /\ e \in Nat
          BY <2>1, Scripts
        <5>2. SubSeq(Script(r), d + 1, e) \o <<Script(r)[e + 1]>> = SubSeq(Script(r), d + 1, e + 1)
          BY <2>1, <4>1, <5>1, Pieces
        <5>3. e + 1 \in d..Len(Script(r))
          BY <2>1, <4>1, <5>1
        <5>4. QED
          BY <2>1, <4>2, <5>2, <5>3
      <4>4. QED
        BY <1>1, <1>2, <1>4, <3>2, <4>1, <4>3 DEF Streaming
    <3>4. CASE s.do # "enqueue"
      <4>1. queue'[r] = queue[r]
        BY <2>2, <3>4 DEF Effect
      <4>2. pc'[r].block = "body" => Enqueued(pc'[r].at) = e
        BY <2>1, <3>2, <3>4, HeapNow DEF BodyStep
      <4>3. QED
        BY <1>1, <1>2, <1>4, <2>1, <4>1, <4>2 DEF Streaming
    <3>5. QED
      BY <3>3, <3>4
  <2>3. CASE Failure(r, s)
    <3>1. pc'[r].block # "body"
      <4>1. pc[r].block = "finally" => After(r, s).block # "body"
        BY AfterPlace
      <4>2. QED
        BY <2>3, <4>1, FailurePlace
    <3>2. queue'[r] = queue[r] \/ queue'[r] = <<>>
      BY <2>3 DEF Failure, Shapes
    <3>3. SubSeq(Script(r), d + 1, d) = <<>> /\ d \in d..Len(Script(r))
      BY <2>1, Pieces, Scripts
    <3>4. QED
      BY <1>1, <1>2, <1>4, <2>1, <3>1, <3>2, <3>3 DEF Streaming
  <2>4. QED
    BY <2>2, <2>3
<1>5. QED
  BY <1>3, <1>4

\* The device executes the next operation of the script.
LEMMA DeviceStream ==
  ASSUME Shapes, probe \in HeapProbes, NEW r \in Rank, Device(r), NEW d \in Nat, Streaming(r, d)
  PROVE  /\ d < Len(Script(r)) /\ Head(queue[r]) = Script(r)[d + 1] /\ Streaming(r, d + 1)'
         /\ \A q \in Rank : q # r => \A c \in Nat : Streaming(q, c) => Streaming(q, c)'
<1>1. PICK e \in d..Len(Script(r)) :
        /\ queue[r] = SubSeq(Script(r), d + 1, e)
        /\ pc[r].block = "body" => e = Enqueued(pc[r].at)
  BY DEF Streaming
<1>2. /\ probe' = probe /\ pc' = pc /\ queue[r] # <<>> /\ queue'[r] = Tail(queue[r])
      /\ \A p \in Rank : p # r => queue'[p] = queue[p]
      /\ \A p : Script(p)' = Script(p) /\ \A at : Enqueued(at)' = Enqueued(at)
  BY DEF Device, setup, Shapes, Script, CrossScript, BenchScript, Enqueued
<1>3. d < e /\ Head(queue[r]) = Script(r)[d + 1] /\ queue'[r] = SubSeq(Script(r), (d + 1) + 1, e)
  BY <1>1, <1>2, Pieces, Scripts
<1>4. Streaming(r, d + 1)'
  <2>1. e \in d + 1..Len(Script(r))
    BY <1>1, <1>3, Scripts
  <2>2. QED
    BY <1>1, <1>2, <1>3, <2>1 DEF Streaming
<1>5. \A q \in Rank : q # r => \A c \in Nat : Streaming(q, c) => Streaming(q, c)'
  BY <1>2 DEF Streaming
<1>6. QED
  BY <1>1, <1>3, <1>4, <1>5, Scripts

\* What the device does with each kind of operation on a heap.
LEMMA DeviceDoes ==
  ASSUME Shapes, NEW r \in Rank, Device(r), NEW h \in Rank, NEW v \in Nat
  PROVE  /\ Head(queue[r]) = Op("write", <<"heap", h>>, v) =>
              fence' = fence /\ memory'[h] = r /\ wrong' = wrong
              /\ \A q \in Rank : q # h => memory'[q] = memory[q]
         /\ Head(queue[r]) = Op("signal", <<"heap", h>>, v) =>
              memory' = memory /\ wrong' = wrong /\ fence'[<<"heap", h>>] = v
              /\ \A q \in Rank : q # h => fence'[<<"heap", q>>] = fence[<<"heap", q>>]
         /\ Head(queue[r]) = Op("wait", <<"heap", h>>, v) =>
              fence' = fence /\ memory' = memory /\ wrong' = wrong /\ fence[<<"heap", h>>] >= v
         /\ Head(queue[r]) = Op("read", <<"heap", h>>, v) =>
              fence' = fence /\ memory' = memory /\ (memory[h] = Peer(r) => wrong' = wrong)
<1>1. \A q \in Rank : <<"heap", q>> \in Fences
  BY DEF Fences, Channels
<1>2. CASE Head(queue[r]) = Op("write", <<"heap", h>>, v)
  BY <1>2 DEF Device, Op, Shapes
<1>3. CASE Head(queue[r]) = Op("signal", <<"heap", h>>, v)
  BY <1>1, <1>3 DEF Device, Op, Shapes
<1>4. CASE Head(queue[r]) = Op("wait", <<"heap", h>>, v)
  <2>1. Head(queue[r]).op = "wait" /\ Head(queue[r]).on = <<"heap", h>> /\ Head(queue[r]).val = v
    BY <1>4 DEF Op
  <2>2. fence[<<"heap", h>>] >= v /\ fence' = fence /\ memory' = memory
    BY <2>1 DEF Device
  <2>3. wrong' = wrong
    BY <2>1 DEF Device
  <2>4. QED
    BY <1>4, <2>2, <2>3 DEF Op
<1>5. CASE Head(queue[r]) = Op("read", <<"heap", h>>, v)
  BY <1>5 DEF Device, Op, Saw
<1>6. QED
  BY <1>2, <1>3, <1>4, <1>5

\* d3d12_cross_process_probe.py: each rank reads the heap after its peer has written it.
LEMMA DeviceCross ==
  ASSUME Shapes, probe = "cross", NEW r \in Rank, Device(r),
         NEW d \in [Rank -> 0..12], Contents(d), d[r] < 4,
         Head(queue[r]) = CrossScript(r)[d[r] + 1]
  PROVE  Contents([d EXCEPT ![r] = @ + 1])' /\ wrong' = wrong
<1>1. /\ 0 \in Rank /\ 1 \in Rank /\ Peer(0) = 1 /\ Peer(1) = 0
      /\ d[0] \in 0..12 /\ d[1] \in 0..12 /\ probe' = probe
      /\ fence[<<"heap", 0>>] \in Nat
  BY DEF Rank, Peer, Device, setup, Shapes, Fences, Channels
<1>2. /\ d[1] >= 1 => d[0] >= 2
      /\ d[0] >= 3 => d[1] = 4
      /\ fence[<<"heap", 0>>] = IF d[1] = 4 THEN 2 ELSE IF d[0] >= 2 THEN 1 ELSE 0
      /\ memory[0] = IF d[1] >= 3 THEN 1 ELSE IF d[0] >= 1 THEN 0 ELSE Nobody
  BY DEF Contents
<1>3. CASE r = 0
  <2> DEFINE f == [d EXCEPT ![0] = @ + 1]
  <2>1. f[0] = d[0] + 1 /\ f[1] = d[1] /\ d[0] \in 0..3
    BY <1>1, <1>3 DEF Rank
  <2> HIDE DEF f
  <2>2. CASE d[0] = 0
    <3>1. fence' = fence /\ memory'[0] = 0 /\ wrong' = wrong
      BY <1>1, <1>3, <2>2, DeviceDoes DEF CrossScript
    <3>2. QED
      BY <1>1, <1>2, <1>3, <2>1, <2>2, <3>1 DEF Contents, f
  <2>3. CASE d[0] = 1
    <3>1. fence'[<<"heap", 0>>] = 1 /\ memory' = memory /\ wrong' = wrong
      BY <1>1, <1>3, <2>3, DeviceDoes DEF CrossScript
    <3>2. QED
      BY <1>1, <1>2, <1>3, <2>1, <2>3, <3>1 DEF Contents, f
  <2>4. CASE d[0] = 2
    <3>1. fence' = fence /\ memory' = memory /\ wrong' = wrong /\ fence[<<"heap", 0>>] >= 2
      BY <1>1, <1>3, <2>4, DeviceDoes DEF CrossScript
    <3>2. QED
      BY <1>1, <1>2, <1>3, <2>1, <2>4, <3>1 DEF Contents, f
  <2>5. CASE d[0] = 3
    <3>1. memory[0] = 1
      BY <1>2, <2>5
    <3>2. fence' = fence /\ memory' = memory /\ wrong' = wrong
      BY <1>1, <1>3, <2>5, <3>1, DeviceDoes DEF CrossScript
    <3>3. QED
      BY <1>1, <1>2, <1>3, <2>1, <2>5, <3>2 DEF Contents, f
  <2>6. QED
    BY <2>1, <2>2, <2>3, <2>4, <2>5
<1>4. CASE r = 1
  <2> DEFINE f == [d EXCEPT ![1] = @ + 1]
  <2>1. f[1] = d[1] + 1 /\ f[0] = d[0] /\ d[1] \in 0..3
    BY <1>1, <1>4 DEF Rank
  <2> HIDE DEF f
  <2>2. CASE d[1] = 0
    <3>1. fence' = fence /\ memory' = memory /\ wrong' = wrong /\ fence[<<"heap", 0>>] >= 1
      BY <1>1, <1>4, <2>2, DeviceDoes DEF CrossScript
    <3>2. QED
      BY <1>1, <1>2, <1>4, <2>1, <2>2, <3>1 DEF Contents, f
  <2>3. CASE d[1] = 1
    <3>1. memory[0] = 0
      BY <1>1, <1>2, <2>3
    <3>2. fence' = fence /\ memory' = memory /\ wrong' = wrong
      BY <1>1, <1>4, <2>3, <3>1, DeviceDoes DEF CrossScript
    <3>3. QED
      BY <1>1, <1>2, <1>4, <2>1, <2>3, <3>2 DEF Contents, f
  <2>4. CASE d[1] = 2
    <3>1. fence' = fence /\ memory'[0] = 1 /\ wrong' = wrong
      BY <1>1, <1>4, <2>4, DeviceDoes DEF CrossScript
    <3>2. QED
      BY <1>1, <1>2, <1>4, <2>1, <2>4, <3>1 DEF Contents, f
  <2>5. CASE d[1] = 3
    <3>1. fence'[<<"heap", 0>>] = 2 /\ memory' = memory /\ wrong' = wrong
      BY <1>1, <1>4, <2>5, DeviceDoes DEF CrossScript
    <3>2. QED
      BY <1>1, <1>2, <1>4, <2>1, <2>5, <3>1 DEF Contents, f
  <2>6. QED
    BY <2>1, <2>2, <2>3, <2>4, <2>5
<1>5. QED
  BY <1>3, <1>4 DEF Rank

\* benchmark_d3d12_cross_adapter.py: a rank reads its peer's heap only after the peer has
\* written it.
LEMMA DeviceBench ==
  ASSUME Shapes, probe = "bench_d3d12", NEW r \in Rank, Device(r),
         NEW d \in [Rank -> 0..12], Contents(d), d[r] < 12,
         Head(queue[r]) = BenchScript(r)[d[r] + 1]
  PROVE  Contents([d EXCEPT ![r] = @ + 1])' /\ wrong' = wrong
<1> DEFINE p == 1 - r
           f == [d EXCEPT ![r] = @ + 1]
<1>1. /\ p \in Rank /\ p # r /\ Peer(r) = p /\ Peer(p) = r /\ \A q \in Rank : q = r \/ q = p
      /\ d[r] \in 0..11 /\ d[p] \in 0..12 /\ probe' = probe
  BY DEF Rank, Peer, Device, setup
<1>2. f[r] = d[r] + 1 /\ f[p] = d[p]
  BY <1>1
<1>3. \A q \in Rank : /\ memory[q] = IF d[q] >= 1 THEN q ELSE Nobody
                      /\ fence[<<"heap", q>>] >= 1 => d[q] >= 1
                      /\ d[q] >= 3 => d[Peer(q)] >= 1
  BY DEF Contents
<1> HIDE DEF p, f
<1>4. ASSUME wrong' = wrong, memory'[p] = memory[p], memory'[r] = memory[r] \/ memory'[r] = r,
             d[r] = 0 => memory'[r] = r,
             fence'[<<"heap", r>>] >= 1 => d[r] >= 1 \/ fence[<<"heap", r>>] >= 1,
             fence'[<<"heap", p>>] >= 1 => d[r] >= 4 \/ fence[<<"heap", p>>] >= 1,
             d[r] = 2 => fence[<<"heap", p>>] >= 1
      PROVE  Contents(f)' /\ wrong' = wrong
  <2>1. memory'[r] = r /\ memory'[p] = IF f[p] >= 1 THEN p ELSE Nobody
    BY <1>1, <1>2, <1>3, <1>4
  <2>2. f[r] >= 1 /\ (fence'[<<"heap", p>>] >= 1 => f[p] >= 1)
    BY <1>1, <1>2, <1>3, <1>4
  <2>3. (f[r] >= 3 => f[p] >= 1) /\ (f[p] >= 3 => f[r] >= 1)
    BY <1>1, <1>2, <1>3, <1>4
  <2>4. QED
    BY <1>1, <1>4, <2>1, <2>2, <2>3 DEF Contents
<1>5. CASE d[r] \in {0, 6}
  <2>1. Head(queue[r]) = Op("write", <<"heap", r>>, 0)
    BY <1>5 DEF BenchScript
  <2>2. fence' = fence /\ memory'[r] = r /\ wrong' = wrong /\ memory'[p] = memory[p]
    BY <1>1, <2>1, DeviceDoes
  <2>3. QED
    BY <1>4, <1>5, <2>2 DEF f
<1>6. CASE d[r] \in {1, 7}
  <2>1. PICK v \in Nat : Head(queue[r]) = Op("signal", <<"heap", r>>, v)
    BY <1>6 DEF BenchScript
  <2>2. memory' = memory /\ wrong' = wrong /\ fence'[<<"heap", p>>] = fence[<<"heap", p>>]
    BY <1>1, <2>1, DeviceDoes
  <2>3. QED
    BY <1>4, <1>6, <2>2 DEF f
<1>7. CASE d[r] \in {2, 8}
  <2>1. PICK v \in Nat : v >= 1 /\ Head(queue[r]) = Op("wait", <<"heap", p>>, v)
    BY <1>7 DEF BenchScript, p
  <2>2. fence' = fence /\ memory' = memory /\ wrong' = wrong /\ fence[<<"heap", p>>] >= v
    BY <1>1, <2>1, DeviceDoes
  <2>3. fence[<<"heap", p>>] \in Nat
    BY <1>1 DEF Shapes, Fences, Channels
  <2>4. QED
    BY <1>4, <1>7, <2>1, <2>2, <2>3 DEF f
<1>8. CASE d[r] \in {3, 9}
  <2>1. Head(queue[r]) = Op("read", <<"heap", p>>, 0)
    BY <1>8 DEF BenchScript, p
  <2>2. memory[p] = Peer(r)
    <3>1. d[Peer(r)] >= 1
      <4>1. d[r] >= 3
        BY <1>8
      <4>2. QED
        BY <4>1 DEF Contents
    <3>2. QED
      BY <1>1, <1>3, <3>1
  <2>3. fence' = fence /\ memory' = memory /\ wrong' = wrong
    BY <1>1, <2>1, <2>2, DeviceDoes
  <2>4. QED
    BY <1>4, <1>8, <2>3 DEF f
<1>9. CASE d[r] \in {4, 10}
  <2>1. PICK v \in Nat : Head(queue[r]) = Op("signal", <<"heap", p>>, v)
    BY <1>9 DEF BenchScript, p
  <2>2. memory' = memory /\ wrong' = wrong /\ fence'[<<"heap", r>>] = fence[<<"heap", r>>]
    BY <1>1, <2>1, DeviceDoes
  <2>3. QED
    BY <1>4, <1>9, <2>2 DEF f
<1>10. CASE d[r] \in {5, 11}
  <2>1. PICK v \in Nat : Head(queue[r]) = Op("wait", <<"heap", r>>, v)
    BY <1>10 DEF BenchScript
  <2>2. fence' = fence /\ memory' = memory /\ wrong' = wrong
    BY <2>1, DeviceDoes
  <2>3. QED
    BY <1>4, <1>10, <2>2 DEF f
<1>11. QED
  BY <1>1, <1>5, <1>6, <1>7, <1>8, <1>9, <1>10

\* The device keeps the heaps consistent, and what it reads is the peer's data.
LEMMA DeviceHeaps ==
  ASSUME Shapes, probe \in HeapProbes, Heaps, NEW r \in Rank, Device(r)
  PROVE  /\ Heaps' /\ wrong' = wrong
         /\ \A q \in Rank : \A c \in {"ready", "mp"} : fence'[<<c, q>>] = fence[<<c, q>>]
<1>1. PICK d \in [Rank -> 0..12] : Contents(d) /\ \A q \in Rank : Streaming(q, d[q])
  BY DEF Heaps
<1>2. d[r] \in Nat /\ d[r] \in 0..12
  OBVIOUS
<1>3. d[r] < Len(Script(r)) /\ Head(queue[r]) = Script(r)[d[r] + 1] /\ Streaming(r, d[r] + 1)'
  BY <1>1, <1>2, DeviceStream
<1>4. \A q \in Rank : q # r => Streaming(q, d[q])'
  BY <1>1, <1>2, DeviceStream
<1> DEFINE f == [d EXCEPT ![r] = @ + 1]
<1>5. Len(Script(r)) \in {4, 12}
  BY Scripts
<1>6. f \in [Rank -> 0..12] /\ f[r] = d[r] + 1 /\ \A q \in Rank : q # r => f[q] = d[q]
  BY <1>2, <1>3, <1>5
<1>7. Contents(f)' /\ wrong' = wrong
  <2>1. CASE probe = "cross"
    BY <1>1, <1>3, <2>1, DeviceCross, Scripts DEF Script
  <2>2. CASE probe = "bench_d3d12"
    BY <1>1, <1>3, <2>2, DeviceBench, Scripts DEF Script
  <2>3. QED
    BY <2>1, <2>2 DEF HeapProbes
<1> HIDE DEF f
<1>8. \A q \in Rank : Streaming(q, f[q])'
  BY <1>3, <1>4, <1>6
<1>9. Heaps'
  BY <1>6, <1>7, <1>8 DEF Heaps
<1>10. \A q \in Rank : \A c \in {"ready", "mp"} : fence'[<<c, q>>] = fence[<<c, q>>]
  <2>1. Head(queue[r]).on[1] = "heap"
    <3>1. Script(r)[d[r] + 1].on[1] = "heap"
      <4>1. probe = "cross" => d[r] \in 0..3
        BY <1>2, <1>3, Scripts
      <4>2. probe # "cross" => d[r] \in 0..11
        BY <1>2, <1>3, Scripts
      <4>3. CASE probe = "cross"
        BY <4>1, <4>3 DEF Script, CrossScript, Op
      <4>4. CASE probe # "cross"
        BY <4>2, <4>4 DEF Script, BenchScript, Op
      <4>5. QED
        BY <4>3, <4>4
    <3>2. QED
      BY <1>3, <3>1
  <2>2. \A f1 \in Fences : f1[1] # "heap" => fence'[f1] = fence[f1]
    BY <2>1 DEF Device, Shapes
  <2>3. ASSUME NEW q \in Rank, NEW c \in {"ready", "mp"} PROVE fence'[<<c, q>>] = fence[<<c, q>>]
    <3> DEFINE g == <<c, q>>
    <3>1. g \in Fences /\ g[1] # "heap"
      BY DEF Fences, Channels
    <3> HIDE DEF g
    <3>2. fence'[g] = fence[g]
      BY <2>2, <3>1
    <3>3. QED
      BY <3>2 DEF g
  <2>4. QED
    BY <2>3
<1>11. QED
  BY <1>7, <1>9, <1>10

\* The programs keep the heaps consistent.
LEMMA ChildHeaps ==
  ASSUME Shapes, probe \in HeapProbes, Heaps, \A q \in Rank : Woken(q),
         NEW r \in Rank, NEW s \in Now(r), Effect(r, s) \/ Failure(r, s)
  PROVE  Heaps' /\ wrong' = wrong
<1>1. PICK d \in [Rank -> 0..12] : Contents(d) /\ \A q \in Rank : Streaming(q, d[q])
  BY DEF Heaps
<1>2. \A q \in Rank : d[q] \in Nat
  <2>1. ASSUME NEW q \in Rank PROVE d[q] \in Nat
    <3>1. d[q] \in 0..12
      OBVIOUS
    <3>2. QED
      BY <3>1
  <2>2. QED
    BY <2>1
<1>3. \A q \in Rank : Streaming(q, d[q])'
  BY <1>1, <1>2, ChildStreams
<1>4. memory' = memory /\ wrong' = wrong
  BY <1>1, <1>2, ChildStreams
<1>5. /\ probe' = probe /\ 0 \in Rank
      /\ \A h \in Rank : fence'[<<"heap", h>>] = fence[<<"heap", h>>]
  BY OthersStill, ChildWoken DEF Rank
<1>6. Contents(d)'
  BY <1>1, <1>4, <1>5 DEF Contents
<1>7. QED
  BY <1>3, <1>4, <1>6 DEF Heaps

\* The barrier of benchmark_d3d12_cross_adapter.py is met once, or broken by the except block.
LEMMA ChildMet ==
  ASSUME Shapes, probe = "bench_d3d12", \A q \in Rank : Met(q),
         NEW r \in Rank, NEW s \in Now(r), Effect(r, s) \/ Failure(r, s)
  PROVE  \A q \in Rank : Met(q)'
<1>1. /\ \A q \in Rank : <<"mp", q>> \in Fences
      /\ \A q \in Rank \ {r} : pc'[q] = pc[q]
      /\ broken \in BOOLEAN /\ \A q \in Rank : fence[<<"mp", q>>] \in Nat
  BY OthersStill DEF Fences, Channels, Shapes
<1>2. CASE Effect(r, s)
  <2>1. /\ pc[r].block = "body" /\ pc[r].at = 13 => s.needs = "nothing" /\ s.do = "post"
        /\ s.do = "post" => pc[r].block = "body" /\ pc[r].at = 13 /\ s.arg = "mp"
        /\ s.do = "set" => \A f \in s.arg : f[1] = "ready"
        /\ pc[r].block = "except" /\ pc[r].at = 3 => s.needs = "nothing" /\ s.do = "abort"
    BY BenchNow DEF BenchStep, HeapStep
  <2>2. broken' = broken \/ broken' = TRUE
    BY <1>2 DEF Effect
  <2>3. CASE s.do = "post"
    <3>1. /\ pc[r].block = "body" /\ pc[r].at = 13 /\ s.needs = "nothing" /\ s.arg = "mp"
          /\ pc'[r] = [block |-> "body", at |-> 14]
      BY <1>2, <2>1, <2>3, BenchNow DEF Leads, BenchStep, Effect, Shapes
    <3>2. fence' = [fence EXCEPT ![<<"mp", r>>] = @ + 1]
      BY <1>2, <2>3, <3>1 DEF Effect, Acts
    <3>3. fence[<<"mp", r>>] = 0
      BY <3>1 DEF Met
    <3>4. fence'[<<"mp", r>>] = 1
      BY <1>1, <3>2, <3>3 DEF Shapes
    <3>5. \A q \in Rank \ {r} : fence'[<<"mp", q>>] = fence[<<"mp", q>>]
      BY <1>1, <3>2 DEF Shapes
    <3>6. Met(r)'
      BY <3>1, <3>4 DEF Met
    <3>7. \A q \in Rank \ {r} : Met(q)'
      BY <1>1, <2>2, <3>5 DEF Met
    <3>8. QED
      BY <3>6, <3>7
  <2>4. CASE s.do # "post"
    <3>1. \A q \in Rank : fence'[<<"mp", q>>] = fence[<<"mp", q>>]
      BY <1>1, <1>2, <2>1, <2>4 DEF Effect
    <3>2. pc'[r] = After(r, s) /\ pc[r].at \in Nat
      BY <1>2, BenchNow DEF Effect, Shapes, BenchStep
    <3>3. pc[r].block = "except" /\ pc[r].at = 3 => broken'
      BY <1>2, <2>1 DEF Effect, Acts
    <3>4. Met(r)'
      <4>1. ~(pc[r].block = "body" /\ pc[r].at = 13)
        BY <2>1, <2>4
      <4>2. CASE pc'[r] = [block |-> pc[r].block, at |-> pc[r].at + 1]
        BY <1>1, <2>2, <3>1, <3>2, <4>1, <4>2 DEF Met
      <4>3. CASE pc[r].block = "body" /\ pc'[r] = [block |-> "finally", at |-> 1]
        <5>1. After(r, s).block = "finally"
          BY <3>2, <4>3
        <5>2. pc[r].at = 23
          BY <4>3, <5>1, BenchNow DEF BenchStep
        <5>3. QED
          BY <1>1, <2>2, <3>1, <4>3, <5>2 DEF Met
      <4>4. CASE pc[r].block = "except" /\ pc[r].at = 3 /\ pc'[r] = [block |-> "finally", at |-> 1]
        BY <1>1, <3>1, <3>3, <4>4 DEF Met
      <4>5. CASE pc[r].block = "finally" /\ pc'[r] = [block |-> "exit", at |-> 1]
        BY <1>1, <2>2, <3>1, <4>5 DEF Met
      <4>6. QED
        BY <3>2, <4>2, <4>3, <4>4, <4>5, BenchNow DEF Leads
    <3>5. QED
      BY <1>1, <2>2, <3>1, <3>4 DEF Met
  <2>5. QED
    BY <2>3, <2>4
<1>3. CASE Failure(r, s)
  <2>1. fence' = fence /\ (broken' = broken \/ broken')
    BY <1>3 DEF Failure
  <2>2. \/ pc'[r] = pc[r]
        \/ pc'[r] = [block |-> "except", at |-> 1]
        \/ pc[r].block = "finally" /\ pc'[r].block \in {"finally", "exit"}
    <3>1. pc[r].block = "finally" => After(r, s).block \in {"finally", "exit"}
      BY AfterPlace
    <3>2. QED
      BY <1>3, <3>1, FailurePlace
  <2>3. Met(r)'
    BY <1>1, <2>1, <2>2 DEF Met
  <2>4. \A q \in Rank \ {r} : Met(q)'
    BY <1>1, <2>1 DEF Met
  <2>5. QED
    BY <2>3, <2>4
<1>4. QED
  BY <1>2, <1>3

\* Its children close a heap only when their stream is empty.
LEMMA ChildBusy ==
  ASSUME Shapes, probe = "bench_d3d12", \A q \in Rank : Busy(q),
         NEW r \in Rank, NEW s \in Now(r), Effect(r, s) \/ Failure(r, s)
  PROVE  \A q \in Rank : Busy(q)'
<1>1. /\ \A q \in Rank \ {r} : pc'[q] = pc[q] /\ held'[q] = held[q] /\ queue'[q] = queue[q]
      /\ Peer(r) = 1 - r /\ HeapOf(r) # HeapOf(1 - r)
      /\ \A p \in Rank : p = r \/ p = Peer(r)
  BY OthersStill DEF Peer, HeapOf, Rank
<1>2. \A q \in Rank \ {r} : Busy(q)'
  BY <1>1 DEF Busy
<1>3. Busy(r)
  OBVIOUS
<1>4. BenchStep(r, s) /\ HeapStep(r, s) /\ Leads(r, s) /\ pc[r].at \in Nat
  BY BenchNow DEF BenchStep
<1>5. CASE Effect(r, s)
  <2>1. /\ pc'[r] = After(r, s)
        /\ s.do # "free" => held[r] \subseteq held'[r]
        /\ s.do \in {"hold", "open"} /\ s.needs = "nothing" => s.arg \in held'[r]
        /\ s.do # "enqueue" => queue'[r] = queue[r]
        /\ s.do = "sync" /\ s.needs = "nothing" => queue[r] = <<>>
    <3>1. s.do # "close"
      BY <1>4 DEF HeapStep
    <3>2. QED
      BY <1>5, <3>1 DEF Effect, Acts, Ready, Shapes
  <2>2. CASE pc[r].block = "body"
    <3>1. s.do # "free"
      BY <1>4, <2>2 DEF BenchStep
    <3>2. /\ pc[r].at >= 3 => HeapOf(r) \in held[r]
          /\ pc[r].at >= 6 => HeapOf(Peer(r)) \in held[r]
      BY <1>3, <2>2 DEF Busy
    <3>3. /\ pc[r].at >= 2 => HeapOf(r) \in held'[r]
          /\ pc[r].at >= 5 => HeapOf(Peer(r)) \in held'[r]
      <4>1. /\ pc[r].at = 2 => HeapOf(r) \in held'[r]
            /\ pc[r].at = 5 => HeapOf(Peer(r)) \in held'[r]
        BY <1>1, <1>4, <2>1, <2>2 DEF BenchStep
      <4>2. QED
        BY <1>4, <2>1, <3>1, <3>2, <4>1
    <3>4. queue'[r] # <<>> => HeapOf(r) \in held'[r] /\ HeapOf(Peer(r)) \in held'[r]
      <4>1. CASE s.do = "enqueue"
        <5>1. pc[r].at >= 6
          BY <1>4, <4>1 DEF BenchStep
        <5>2. QED
          BY <1>4, <3>3, <5>1
      <4>2. CASE s.do # "enqueue"
        <5>1. queue'[r] # <<>> => \A p \in Rank : HeapOf(p) \in held[r]
          BY <1>3, <2>1, <4>2 DEF Busy
        <5>2. Peer(r) \in Rank
          BY DEF Peer, Rank
        <5>3. QED
          BY <2>1, <3>1, <5>1, <5>2
      <4>3. QED
        BY <4>1, <4>2
    <3>5. \/ pc'[r] = [block |-> "body", at |-> pc[r].at + 1]
          \/ pc'[r] = [block |-> "finally", at |-> 1]
      BY <1>4, <2>1, <2>2 DEF Leads
    <3>6. QED
      BY <1>1, <1>2, <1>4, <3>3, <3>4, <3>5 DEF Busy, Peer
  <2>3. CASE pc[r].block = "except"
    <3>1. s.do \in {"unset", "set", "abort"}
      BY <1>4, <2>3 DEF BenchStep
    <3>2. \/ pc'[r] = [block |-> "except", at |-> pc[r].at + 1]
          \/ pc'[r] = [block |-> "finally", at |-> 1]
      BY <1>4, <2>1, <2>3 DEF Leads
    <3>3. queue'[r] = queue[r] /\ held[r] \subseteq held'[r]
      BY <2>1, <3>1
    <3>4. QED
      BY <1>2, <1>3, <3>2, <3>3 DEF Busy
  <2>4. CASE pc[r].block = "finally"
    <3>1. s.do = "sync" \/ s.do = "free"
      BY <1>4, <2>4, NowIs DEF BenchStep
    <3>2. queue'[r] = <<>>
      <4>1. CASE pc[r].at = 1
        BY <1>4, <2>1, <2>4, <4>1 DEF BenchStep
      <4>2. CASE pc[r].at # 1
        BY <1>3, <2>1, <2>4, <3>1, <4>2 DEF Busy
      <4>3. QED
        BY <4>1, <4>2
    <3>3. pc'[r].block # "body"
      BY <1>4, <2>1, <2>4 DEF Leads
    <3>4. QED
      BY <1>2, <3>2, <3>3 DEF Busy
  <2>5. QED
    BY <2>2, <2>3, <2>4, NowIs DEF Block
<1>6. CASE Failure(r, s)
  <2>1. queue'[r] = queue[r] \/ queue'[r] = <<>>
    BY <1>6 DEF Failure, Shapes
  <2>2. CASE pc[r].block = "body"
    <3>1. pc'[r] = [block |-> "except", at |-> 1] /\ held' = held
      BY <1>6, <2>2, FailurePlace
    <3>2. QED
      BY <1>2, <1>3, <2>1, <3>1 DEF Busy
  <2>3. CASE pc[r].block = "finally"
    <3>1. s.do = "sync"
      <4>1. s.do # "free"
        BY <1>6 DEF Failure, MayFail
      <4>2. QED
        BY <1>4, <2>3, <4>1, NowIs DEF BenchStep
    <3>2. queue'[r] = <<>>
      BY <1>6, <3>1 DEF Failure, Shapes
    <3>3. pc'[r].block # "body"
      BY <1>6, <2>3, AfterPlace, FailurePlace
    <3>4. QED
      BY <1>2, <3>2, <3>3 DEF Busy
  <2>4. QED
    BY <1>6, <2>2, <2>3, FailurePlace
<1>7. QED
  BY <1>5, <1>6

-----------------------------------------------------------------------------
(* All the probes.                                                         *)

\* A step of a probe that only uses the transports.
LEMMA UsualNow ==
  ASSUME Shapes, probe \in UsualProbes, NEW r \in Rank, NEW s \in Now(r)
  PROVE  /\ s.do \in {"call", "hold", "free", "close", "post", "meet", "enqueue", "sync",
                      "risky", "key", "check", "unset"}
         /\ s.do = "hold" => s.arg # "import"
         /\ s.do \in {"post", "meet"} => s.arg \in {"gloo", "win32", "init"}
         /\ s.do = "enqueue" => s.arg \in Seq(PlainOps)
<1>1. /\ pc[r].at \in 1..Len(Program(r)) /\ pc[r].block \in Block
      /\ s.do = Program(r)[pc[r].at].do /\ s.arg = Program(r)[pc[r].at].arg
  BY NowIs
<1>2. Program(r) \in Programs(Ordinary)
  BY <1>1, UsualPrograms DEF Usual, Program, Block
<1>3. Program(r)[pc[r].at] \in Ordinary
  BY <1>1, <1>2 DEF Programs
<1>4. QED
  BY <1>1, <1>3 DEF Ordinary

\* A step of hip_ipc_probe.py.
LEMMA IpcNow ==
  ASSUME Shapes, probe = "ipc", NEW r \in Rank, NEW s \in Now(r)
  PROVE  s.do \in {"call", "key", "hold", "write", "send", "recv", "unset", "free", "hangup",
                   "read", "check"}
<1>1. CASE r = 0
  BY <1>1, ExporterAt
<1>2. CASE r = 1
  BY <1>2, ImporterAt
<1>3. QED
  BY <1>1, <1>2 DEF Rank

\* There is no other probe.
LEMMA FourKinds ==
  ASSUME Shapes
  PROVE  probe \in UsualProbes \/ probe = "ipc" \/ probe \in SlotProbes \/ probe \in HeapProbes
  BY AllSound DEF Shapes, Rank

\* What the invariant says of streams, imports and transfers is kept by the probes whose
\* programs are simple enough.
LEMMA ChildTame ==
  ASSUME Shapes, NEW r \in Rank, NEW s \in Now(r), Effect(r, s) \/ Failure(r, s)
  PROVE  /\ probe \notin HeapProbes /\ PlainStreams => PlainStreams'
         /\ probe # "ipc" /\ "import" \notin held[1] => "import" \notin held'[1]
         /\ probe \in UsualProbes => wrong' = wrong
<1>1. /\ probe \notin HeapProbes /\ s.do = "enqueue" => s.arg \in Seq(PlainOps)
      /\ probe # "ipc" /\ s.do \in {"hold", "open"} => s.arg # "import"
      /\ probe \in UsualProbes => s.do # "read"
  <2>1. CASE probe \in UsualProbes
    BY <2>1, UsualNow
  <2>2. CASE probe = "ipc"
    BY <2>2, IpcNow DEF UsualProbes
  <2>3. CASE probe \in SlotProbes
    BY <2>3, SlotNow DEF UsualProbes, SlotProbes
  <2>4. CASE probe \in HeapProbes
    BY <2>4, HeapNow DEF HeapStep, UsualProbes, HeapProbes
  <2>5. QED
    BY <2>1, <2>2, <2>3, <2>4, FourKinds
<1>2. CASE Effect(r, s)
  <2>1. ASSUME probe \notin HeapProbes, PlainStreams PROVE PlainStreams'
    <3>1. s.do = "enqueue" => queue[r] \o s.arg \in Seq(PlainOps)
      BY <1>1, <2>1, ConcatProperties DEF PlainStreams
    <3>2. QED
      BY <1>2, <2>1, <3>1 DEF Effect, PlainStreams
  <2>2. ASSUME probe # "ipc", "import" \notin held[1] PROVE "import" \notin held'[1]
    BY <1>1, <1>2, <2>2 DEF Effect, Shapes
  <2>3. probe \in UsualProbes => wrong' = wrong
    BY <1>1, <1>2 DEF Effect
  <2>4. QED
    BY <2>1, <2>2, <2>3
<1>3. CASE Failure(r, s)
  <2>1. PlainStreams => PlainStreams'
    BY <1>3 DEF Failure, PlainStreams
  <2>2. "import" \notin held[1] => "import" \notin held'[1]
    <3>1. CASE r = 1
      <4>1. held'[1] = held[1] \/ held'[1] = held[1] \ {s.needs}
        BY <1>3, <3>1, FailurePlace
      <4>2. QED
        BY <4>1
    <3>2. CASE r # 1
      <4>1. held'[1] = held[1]
        BY <3>2, OthersStill DEF Rank
      <4>2. QED
        BY <4>1
    <3>3. QED
      BY <3>1, <3>2
  <2>3. wrong' = wrong
    BY <1>3 DEF Failure
  <2>4. QED
    BY <2>1, <2>2, <2>3
<1>4. QED
  BY <1>2, <1>3

\* The invariant holds when a probe begins.
LEMMA InitGInv ==
  ASSUME Init
  PROVE  GInv
<1>1. probe \in DOMAIN Parent /\ main = 1 /\ turn = 0 /\ verdict = "none" /\ raised = {} /\ wrong = {}
  BY ProbeAssumption DEF Init
<1>2. Shapes
  <2>1. ASSUME NEW r \in Rank PROVE 1 \in 1..Len(Child[probe][r]["body"])
    <3>1. Sound(Child[probe][r], Parent[probe].needs[r])
      BY <1>1, AllSound
    <3>2. QED
      BY <3>1 DEF Sound, Programs
  <2>2. \A r \in Rank : pc[r] = [block |-> "body", at |-> 1]
    BY DEF Init
  <2>3. \A r \in Rank : pc[r].block # "exit" => pc[r].at \in 1..Len(Program(r))
    BY <2>1, <2>2 DEF Program
  <2>4. pc \in [Rank -> [block: Block \cup {"exit"}, at: Nat]]
    BY DEF Init, Block
  <2>5. queue \in [Rank -> Seq(Ops)] /\ fence \in [Fences -> Nat]
    BY DEF Init
  <2>6. QED
    BY <1>1, <2>3, <2>4, <2>5 DEF Init, Shapes
<1>3. Fresh
  BY <1>1 DEF Init, Fresh, StartAt, Rank
<1>4. CInv
  BY <1>1, <1>2, <1>3 DEF Init, CInv, Judged, Placed, Confessed
<1>5. PlainStreams /\ "import" \notin held[1] /\ \A r \in Rank : queue[r] = <<>> /\ held[r] = {}
  BY DEF Init, PlainStreams, Rank
<1>6. Ipc
  <2>1. pc[0] = [block |-> "body", at |-> 1] /\ pc[1] = [block |-> "body", at |-> 1]
        /\ pipe[0] = <<>> /\ pipe[1] = <<>>
    BY DEF Init, Rank
  <2>2. QED
    BY <1>5, <2>1 DEF Ipc, Unheard
<1>7. ASSUME NEW r \in Rank
      PROVE  /\ pc[r].block = "body" /\ pc[r].at = 1 /\ memory[r] = Nobody /\ queue[r] = <<>>
             /\ fence[<<"heap", r>>] = 0 /\ fence[<<"ready", r>>] = 0
             /\ fence[<<"mp", r>>] = 0 /\ fence[<<"win32", r>>] = 0
  <2>1. \A c \in Channels : <<c, r>> \in Fences
    BY DEF Fences
  <2>2. ASSUME NEW c \in Channels PROVE fence[<<c, r>>] = 0
    BY <2>1 DEF Init
  <2>3. QED
    BY <2>2 DEF Init, Channels
<1>8. ASSUME NEW r \in Rank PROVE Slots(r)
  <2>1. fence[<<Meeting, r>>] = 0
    BY <1>7 DEF Meeting
  <2>2. Written \in {5, 6}
    BY DEF Written
  <2>3. pc[r].block = "body" /\ pc[r].at = 1 /\ memory[r] = Nobody
    BY <1>7
  <2>4. ~(pc[r].at > Written) /\ ~(pc[r].at > Written + 1) /\ ~(pc[r].at > Written + 2)
    BY <2>2, <2>3
  <2>5. ~(fence[<<Meeting, r>>] >= 1)
    BY <2>1
  <2>6. QED
    BY <2>3, <2>4, <2>5 DEF Slots
<1>9. ASSUME NEW r \in Rank PROVE Woken(r) /\ Met(r) /\ Busy(r)
  <2>1. SetAt(r) \in {3, 4}
    BY DEF SetAt
  <2>2. /\ pc[r].block = "body" /\ pc[r].at = 1 /\ queue[r] = <<>>
        /\ fence[<<"ready", r>>] = 0 /\ fence[<<"mp", r>>] = 0
    BY <1>7
  <2>3. Woken(r)
    BY <2>1, <2>2 DEF Woken
  <2>4. Met(r)
    BY <2>2 DEF Met
  <2>5. Busy(r)
    BY <2>2 DEF Busy
  <2>6. QED
    BY <2>3, <2>4, <2>5
<1>10. Heaps
  <2> DEFINE d == [r \in Rank |-> 0]
  <2>1. d \in [Rank -> 0..12] /\ \A r \in Rank : d[r] = 0
    OBVIOUS
  <2>2. 0 \in Rank /\ 1 \in Rank /\ \A r \in Rank : Peer(r) \in Rank
    BY DEF Rank, Peer
  <2> HIDE DEF d
  <2>3. Contents(d)
    <3>1. d[0] = 0 /\ d[1] = 0 /\ fence[<<"heap", 0>>] = 0 /\ memory[0] = Nobody
      BY <1>7, <2>1, <2>2
    <3>2. \A r \in Rank : memory[r] = Nobody /\ fence[<<"heap", r>>] = 0
      BY <1>7
    <3>3. QED
      BY <2>1, <3>1, <3>2 DEF Contents
  <2>4. ASSUME NEW r \in Rank PROVE Streaming(r, d[r])
    <3>1. SubSeq(Script(r), 0 + 1, 0) = <<>> /\ Len(Script(r)) \in {4, 12}
      BY Pieces, Scripts
    <3>2. Enqueued(1) = 0 /\ d[r] = 0 /\ 0 \in 0..Len(Script(r))
      BY <2>1, <3>1 DEF Enqueued
    <3>3. QED
      BY <1>7, <3>1, <3>2 DEF Streaming
  <2>5. QED
    BY <2>1, <2>3, <2>4 DEF Heaps
<1>11. QED
  BY <1>1, <1>4, <1>5, <1>6, <1>8, <1>9, <1>10 DEF GInv

\* The children keep the invariant.
LEMMA ChildGInv ==
  ASSUME GInv, [Next]_vars, NEW r \in Rank, NEW s \in Now(r), Effect(r, s) \/ Failure(r, s)
  PROVE  GInv'
<1>1. Shapes /\ CInv' /\ probe' = probe
  BY NextCInv, OthersStill DEF GInv, CInv
<1>2. probe = "ipc" => Ipc' /\ wrong' = wrong
  BY NextIpc DEF GInv, HeapProbes
<1>3. probe \in SlotProbes => (\A q \in Rank : Slots(q)') /\ wrong' = wrong
  BY <1>1, ChildSlots DEF GInv
<1>4. probe \in HeapProbes => Heaps' /\ wrong' = wrong /\ \A q \in Rank : Woken(q)'
  BY <1>1, ChildHeaps, ChildWoken DEF GInv
<1>5. probe = "bench_d3d12" => \A q \in Rank : Met(q)' /\ Busy(q)'
  BY <1>1, ChildMet, ChildBusy DEF GInv
<1>6. /\ probe \notin HeapProbes => PlainStreams'
      /\ probe # "ipc" => "import" \notin held'[1]
      /\ probe \in UsualProbes => wrong' = wrong
  BY <1>1, ChildTame DEF GInv
<1>7. wrong' = {}
  BY <1>1, <1>2, <1>3, <1>4, <1>6, FourKinds DEF GInv
<1>8. QED
  BY <1>1, <1>2, <1>3, <1>4, <1>5, <1>6, <1>7 DEF GInv

\* What the invariant says of the children themselves does not change when their places and
\* what they share do not.
LEMMA StillGInv ==
  ASSUME probe' = probe, UNCHANGED <<pc, held, broken>>
  PROVE  /\ probe \in SlotProbes =>
              \A q \in Rank :
                Slots(q) /\ memory' = memory
                  /\ (\A p \in Rank : fence'[<<Meeting, p>>] = fence[<<Meeting, p>>])
                => Slots(q)'
         /\ \A q \in Rank : Woken(q) /\ fence'[<<"ready", q>>] = fence[<<"ready", q>>] => Woken(q)'
         /\ \A q \in Rank : Met(q) /\ fence'[<<"mp", q>>] = fence[<<"mp", q>>] => Met(q)'
         /\ \A q \in Rank : Busy(q) /\ (queue'[q] = queue[q] \/ queue[q] # <<>>) => Busy(q)'
<1>1. Meeting' = Meeting /\ Written' = Written /\ \A q \in Rank : Peer(q) \in Rank
  BY DEF Meeting, Written, Peer, Rank
<1>2. ASSUME NEW q \in Rank, Slots(q), memory' = memory,
             \A p \in Rank : fence'[<<Meeting, p>>] = fence[<<Meeting, p>>]
      PROVE  Slots(q)'
  <2>1. fence'[<<Meeting', q>>] = fence[<<Meeting, q>>]
        /\ fence'[<<Meeting', Peer(q)>>] = fence[<<Meeting, Peer(q)>>]
    BY <1>1, <1>2
  <2>2. QED
    BY <1>1, <1>2, <2>1 DEF Slots
<1>3. ASSUME NEW q \in Rank, Woken(q), fence'[<<"ready", q>>] = fence[<<"ready", q>>]
      PROVE  Woken(q)'
  BY <1>3 DEF Woken, SetAt
<1>4. ASSUME NEW q \in Rank, Met(q), fence'[<<"mp", q>>] = fence[<<"mp", q>>]
      PROVE  Met(q)'
  BY <1>4 DEF Met
<1>5. ASSUME NEW q \in Rank, Busy(q), queue'[q] = queue[q] \/ queue[q] # <<>>
      PROVE  Busy(q)'
  BY <1>5 DEF Busy
<1>6. QED
  BY <1>2, <1>3, <1>4, <1>5

\* The device keeps it.
LEMMA DeviceGInv ==
  ASSUME GInv, [Next]_vars, NEW r \in Rank, Device(r)
  PROVE  GInv'
<1>1. Shapes /\ CInv' /\ probe' = probe /\ UNCHANGED <<pc, held, broken>>
  BY NextCInv DEF GInv, CInv, Device, setup
<1>2. ASSUME probe \notin HeapProbes
      PROVE  /\ PlainStreams' /\ memory' = memory /\ wrong' = wrong
             /\ \A p \in Rank : fence'[<<Meeting, p>>] = fence[<<Meeting, p>>]
  <2>1. /\ PlainStreams' /\ memory' = memory /\ wrong' = wrong
        /\ \A f \in Fences :
             f[1] \notin {"rccl", "d3d12", "shm", "gloo"} => fence'[f] = fence[f]
    BY <1>1, <1>2, PlainDevice DEF GInv
  <2>2. ASSUME NEW p \in Rank PROVE fence'[<<Meeting, p>>] = fence[<<Meeting, p>>]
    <3> DEFINE f == <<Meeting, p>>
    <3>1. f \in Fences /\ f[1] \notin {"rccl", "d3d12", "shm", "gloo"}
      BY DEF Fences, Channels, Meeting
    <3> HIDE DEF f
    <3>2. fence'[f] = fence[f]
      BY <2>1, <3>1
    <3>3. QED
      BY <3>2 DEF f
  <2>3. QED
    BY <2>1, <2>2
<1>3. probe \in HeapProbes =>
        /\ Heaps' /\ wrong' = wrong
        /\ \A q \in Rank : \A c \in {"ready", "mp"} : fence'[<<c, q>>] = fence[<<c, q>>]
  BY <1>1, DeviceHeaps DEF GInv
<1>4. probe = "ipc" => Ipc'
  BY NextIpc DEF GInv, HeapProbes
<1>5. probe \in SlotProbes => \A q \in Rank : Slots(q)'
  <2>1. probe \in SlotProbes => probe \notin HeapProbes
    BY DEF SlotProbes, HeapProbes
  <2>2. QED
    BY <1>1, <1>2, <2>1, StillGInv DEF GInv
<1>6. probe \in HeapProbes => \A q \in Rank : Woken(q)'
  BY <1>1, <1>3, StillGInv DEF GInv
<1>7. probe = "bench_d3d12" => \A q \in Rank : Met(q)' /\ Busy(q)'
  <2>1. queue[r] # <<>> /\ \A q \in Rank \ {r} : queue'[q] = queue[q]
    BY <1>1 DEF Device, Shapes
  <2>2. QED
    BY <1>1, <1>3, <2>1, StillGInv DEF GInv, HeapProbes
<1>8. QED
  BY <1>1, <1>2, <1>3, <1>4, <1>5, <1>6, <1>7 DEF GInv

\* The parent and the ends of processes keep it.
LEMMA OutsideGInv ==
  ASSUME GInv, [Next]_vars, Outside
  PROVE  GInv'
<1>1. /\ CInv' /\ probe' = probe
      /\ UNCHANGED <<pc, held, broken, wrong, queue, fence, memory>>
  BY NextCInv DEF GInv, Outside, setup, own, between
<1>2. probe = "ipc" => Ipc'
  BY NextIpc DEF GInv, HeapProbes
<1>3. Heaps => Heaps'
  <2>1. \A d \in [Rank -> 0..12] : Contents(d) => Contents(d)'
    BY <1>1 DEF Contents
  <2>2. \A q \in Rank : \A n \in 0..12 : Streaming(q, n) => Streaming(q, n)'
    BY <1>1 DEF Streaming, Script, Enqueued
  <2>3. QED
    BY <2>1, <2>2 DEF Heaps
<1>4. /\ probe \in SlotProbes => \A q \in Rank : Slots(q) => Slots(q)'
      /\ \A q \in Rank : (Woken(q) => Woken(q)') /\ (Met(q) => Met(q)') /\ (Busy(q) => Busy(q)')
  BY <1>1, StillGInv
<1>5. PlainStreams => PlainStreams'
  BY <1>1 DEF PlainStreams
<1>6. QED
  BY <1>1, <1>2, <1>3, <1>4, <1>5 DEF GInv

\* Every step keeps the invariant.
LEMMA NextGInv ==
  ASSUME GInv, [Next]_vars
  PROVE  GInv'
<1>1. \/ \E r \in Rank : \E s \in Now(r) : Effect(r, s) \/ Failure(r, s)
      \/ \E r \in Rank : Device(r)
      \/ Outside
  BY AnyStep DEF GInv, CInv
<1>2. QED
  BY <1>1, ChildGInv, DeviceGInv, OutsideGInv

-----------------------------------------------------------------------------
(* What the invariant implies.                                             *)

\* The probes keep the invariant whatever fails and however often.
THEOREM ProbesSafe == Spec => []GInv
<1>1. Init => GInv
  BY InitGInv
<1>2. GInv /\ [Next]_vars => GInv'
  BY NextGInv
<1>3. QED
  BY <1>1, <1>2, PTL DEF Spec

\* A verdict of success is given on the records of two children that ended, that never
\* entered their except blocks, and that read nothing but their peer's data.
THEOREM SuccessIsEarned == Spec => []PassedIsEarned
<1>1. GInv => PassedIsEarned
  <2>1. ASSUME GInv, verdict = "passed", NEW r \in Rank PROVE r \notin raised
    <3>1. status[r] = "ended" /\ Parent[probe].needs[r] \subseteq keys[r]
      BY <2>1 DEF GInv, CInv, Judged
    <3>2. pc[r].block = "exit"
      BY <2>1, <3>1 DEF GInv, CInv, Placed
    <3>3. QED
      BY <2>1, <3>1, <3>2 DEF GInv, CInv, Confessed
  <2>2. QED
    BY <2>1 DEF PassedIsEarned, GInv, CInv, Shapes
<1>2. QED
  BY <1>1, ProbesSafe, PTL

\* While hip_ipc_probe.py's importer has the allocation mapped, its exporter either still
\* waits for the reply and holds it, or did not come to free it.
THEOREM ImportsAreSafe == Spec => []ImportedMemoryLives
<1>1. GInv => ImportedMemoryLives
  <2> SUFFICES ASSUME GInv, "import" \in held[1], Running(1)
               PROVE  \/ "memory" \in held[0] /\ Running(0)
                      \/ status[0] \in {"crashed", "terminated"}
    BY DEF ImportedMemoryLives
  <2>1. probe = "ipc" /\ Ipc
    BY DEF GInv
  <2>2. ~Over(1)
    BY DEF Running, Over
  <2>3. Waiting
    BY <2>1, <2>2 DEF Ipc, Unheard
  <2>4. status[0] \notin {"new", "ended", "failed"}
    BY <2>3 DEF Waiting, GInv, CInv, Placed, Rank
  <2>5. status[0] \in {"new", "running", "ended", "failed", "crashed", "terminated"}
    BY DEF GInv, CInv, Shapes, Rank
  <2>6. QED
    BY <2>3, <2>4, <2>5 DEF Waiting, Running
<1>2. QED
  BY <1>1, ProbesSafe, PTL

\* Which probes have the waits that a peer could leave a child at.
LEMMA WaitKinds ==
  ASSUME Shapes, NEW r \in Rank, NEW s \in Now(r)
  PROVE  /\ s.do = "await" => probe \in HeapProbes /\ s.arg = <<"ready", Peer(r)>>
         /\ s.do = "recv" => probe = "ipc"
         /\ s.do = "meet" /\ s.arg = "mp" => probe \in {"mapped", "bench_d3d12"}
<1>1. CASE probe \in UsualProbes
  BY <1>1, UsualNow
<1>2. CASE probe = "ipc"
  BY <1>2, IpcNow
<1>3. CASE probe \in SlotProbes
  BY <1>3, SlotNow DEF Meeting
<1>4. CASE probe \in HeapProbes
  BY <1>4, HeapNow DEF HeapStep, Peer
<1>5. QED
  BY <1>1, <1>2, <1>3, <1>4, FourKinds

\* main of hip_ipc_probe.py closes its copies of the pipe's ends before it joins.
LEMMA ClosedBeforeJoins ==
  ASSUME Fresh, probe = "ipc", Joining
  PROVE  Closed
<1>1. Parent[probe].steps = <<"start", "close", "join", "terminate", "get">>
  BY DEF Parent, IpcMain, Main
<1>2. PICK i \in 1..main : i <= 5 /\ Steps[i] = "join"
  BY <1>1 DEF Joining, Steps
<1>3. i = 3 /\ main >= 3
  BY <1>1, <1>2 DEF Steps, Fresh
<1>4. 2 \in 1..main - 1 /\ Parent[probe].steps[2] = "close"
  BY <1>1, <1>3 DEF Fresh
<1>5. QED
  BY <1>4 DEF Closed

\* A child that ended has set the event its peer may wait for or broken or passed the
\* barrier; one that ended or crashed has closed the last end of the pipe, as the parent has
\* closed its own before it joins, or is noticed by Gloo.
THEOREM NobodyIsLeftWaiting == Spec => []NobodyWaitsOnTheEnded
<1>1. GInv => NobodyWaitsOnTheEnded
  <2> SUFFICES ASSUME GInv, NEW r \in Rank, NEW s \in Now(r), Over(Peer(r)),
                      \/ At(r, s, "recv") \/ (At(r, s, "meet") /\ s.arg = "gloo")
                      \/ /\ status[Peer(r)] = "ended"
                         /\ At(r, s, "await") \/ (At(r, s, "meet") /\ s.arg = "mp" /\ probe # "mapped")
               PROVE  Ready(r, s) \/ Refused(r, s) \/ (probe = "ipc" /\ ~Joining)
    BY DEF NobodyWaitsOnTheEnded, Over
  <2>1. /\ Shapes /\ Peer(r) \in Rank
        /\ status[Peer(r)] = "ended" => pc[Peer(r)].block = "exit"
    BY DEF GInv, CInv, Placed, Peer, Rank
  <2>2. CASE s.do = "await" /\ status[Peer(r)] = "ended"
    <3>1. Woken(Peer(r)) /\ s.arg = <<"ready", Peer(r)>>
      BY <2>1, <2>2, WaitKinds DEF GInv
    <3>2. fence[s.arg] >= 1 /\ fence[s.arg] \in Nat
      <4>1. <<"ready", Peer(r)>> \in Fences
        BY <2>1 DEF Fences, Channels
      <4>2. QED
        BY <2>1, <2>2, <3>1, <4>1 DEF Woken, Shapes
    <3>3. QED
      BY <2>2, <3>2 DEF Ready
  <2>3. CASE s.do = "recv"
    <3>1. probe = "ipc"
      BY <2>1, <2>3, WaitKinds
    <3>2. Joining => Closed
      BY <3>1, ClosedBeforeJoins DEF GInv, CInv
    <3>3. Closed => HungUp(Peer(r))
      BY <2>1 DEF HungUp
    <3>4. QED
      BY <2>3, <3>1, <3>2, <3>3 DEF Ready, Refused
  <2>4. CASE s.do = "meet" /\ s.arg = "gloo"
    BY <2>1, <2>4 DEF Refused
  <2>5. CASE s.do = "meet" /\ s.arg = "mp" /\ probe # "mapped" /\ status[Peer(r)] = "ended"
    <3>1. probe = "bench_d3d12"
      BY <2>1, <2>5, WaitKinds
    <3>2. Met(r) /\ Met(Peer(r))
      BY <2>1, <3>1 DEF GInv
    <3>3. broken \/ fence[<<"mp", Peer(r)>>] = 1
      BY <2>1, <2>5, <3>2 DEF Met
    <3>4. fence[<<"mp", r>>] <= 1
      BY <3>2 DEF Met
    <3>5. broken => Refused(r, s)
      BY <2>5 DEF Refused
    <3>6. ~broken => Ready(r, s)
      <4>1. CASE ~broken
        <5>1. fence[<<"mp", Peer(r)>>] = 1
          BY <3>3, <4>1
        <5>2. 1 >= fence[<<"mp", r>>]
          BY <3>4
        <5>3. QED
          BY <2>5, <4>1, <5>1, <5>2 DEF Ready
      <4>2. QED
        BY <4>1
    <3>7. QED
      BY <3>5, <3>6
  <2>6. QED
    BY <2>2, <2>3, <2>4, <2>5 DEF At
<1>2. QED
  BY <1>1, ProbesSafe, PTL

\* While its stream has operations on a heap, a child of benchmark_d3d12_cross_adapter.py
\* holds the heap: it closes the heaps after a synchronize, on the error path too.
THEOREM HeapsOutliveTheirWork == Spec => []InFlightIsHeld
<1>1. GInv => InFlightIsHeld
  <2> SUFFICES ASSUME GInv, probe = "bench_d3d12", NEW r \in Rank, NEW i \in DOMAIN queue[r]
               PROVE  HeapOf(queue[r][i].on[2]) \in held[r]
    BY DEF InFlightIsHeld
  <2>1. queue[r] \in Seq(Ops) /\ queue[r] # <<>>
    BY DEF GInv, CInv, Shapes
  <2>2. queue[r][i] \in Ops
    BY <2>1
  <2>3. queue[r][i].on[2] \in Rank
    BY <2>2 DEF Ops, Fences
  <2>4. Busy(r)
    BY DEF GInv
  <2>5. QED
    BY <2>1, <2>3, <2>4 DEF Busy
<1>2. QED
  BY <1>1, ProbesSafe, PTL
=============================================================================
