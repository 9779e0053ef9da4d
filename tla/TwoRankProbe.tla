---------------------------- MODULE TwoRankProbe ----------------------------
(***************************************************************************)
(* The two-process probes and benchmarks (probes/*.py).  Each is a parent  *)
(* that starts two children, joins them with a time limit, terminates the  *)
(* ones still alive, collects their records and gives a verdict, and a     *)
(* child function of the form try / except / finally that puts a record on *)
(* a queue.  The parents differ in what they set up and in what they ask   *)
(* of the records, the children in what they do: both are the data of      *)
(* ProbePrograms, and the actions below are the steps of that data.        *)
(*                                                                         *)
(* A fence is a counter that only one side raises at a time: a D3D12 fence *)
(* ("heap"), an mp.Event ("ready", 0 or 1), or how often a rank has        *)
(* arrived at a meeting: Gloo, mp.Barrier ("mp"), Win32PairBarrier         *)
(* ("win32"), ncclCommInitRank ("init") and the collectives a stream       *)
(* carries ("rccl", "d3d12", "shm").  Memory holds the rank whose data was *)
(* written to it last.                                                     *)
(***************************************************************************)
EXTENDS ProbePrograms, FiniteSets

CONSTANTS Names,     \* the probes tried
          MaxFaults  \* bound: calls that fail and children that crash

ASSUME ProbeAssumption == Names \subseteq DOMAIN Parent /\ MaxFaults \in Nat

Channels == {"heap", "ready", "gloo", "mp", "win32", "init", "rccl", "d3d12", "shm"}
Fences == Channels \X Rank
Nobody == 2          \* memory that neither rank has written

VARIABLES
  probe,    \* the probe that runs
  fits,     \* does a record fit into the pipe behind the results queue?
  status,   \* per rank, its process: "new", "running", "ended" (exit 0), "failed" (exit 1),
            \* "crashed" or "terminated"
  pc,       \* per rank, the block it is in and its step there
  raised,   \* the ranks whose try block raised
  held,     \* per rank, the resources it holds
  keys,     \* per rank, the true entries of its record
  got,      \* per rank, whose data it read last
  wrong,    \* the ranks that have read anything but their peer's data
  queue,    \* per rank, the work on its stream
  fence,    \* the counters
  memory,   \* per heap or slot, the rank that wrote it last
  pipe,     \* per rank, the messages on their way to it
  broken,   \* has the mp.Barrier been broken?
  results,  \* the ranks whose record has reached the parent's queue
  main,     \* the step of the parent
  turn,     \* the child its loop is at
  verdict,  \* what main returns
  faults,   \* the failures so far
  late      \* has any time limit expired?

setup == <<probe, fits>>
parent == <<main, turn, verdict>>
own == <<held, keys, got, wrong>>
between == <<fence, memory, pipe, broken>>
vars == <<setup, status, pc, raised, own, queue, between, results, parent, faults, late>>

Peer(r) == 1 - r
Over(r) == status[r] \notin {"new", "running"}

Running(r) == status[r] = "running"

\* The step r is at, if it is at one.
Now(r) ==
  IF Running(r) /\ pc[r].block # "exit"
  THEN LET block == Child[probe][r][pc[r].block]
           step == block[pc[r].at]
       IN  {[needs |-> step.needs, do |-> step.do, arg |-> step.arg,
             last |-> pc[r].at = Len(block)]}
  ELSE {}

\* Step s is of this kind, and is one r takes.
At(r, s, kind) == s.do = kind /\ s.needs \in held[r] \cup {"nothing"}

Init ==
  /\ probe \in Names
  /\ fits \in {TRUE, ~Parent[probe].sizes}
  /\ status = [r \in Rank |-> "new"]
  /\ pc = [r \in Rank |-> [block |-> "body", at |-> 1]]
  /\ raised = {} /\ wrong = {} /\ results = {}
  /\ held = [r \in Rank |-> {}] /\ keys = [r \in Rank |-> {}]
  /\ got = [r \in Rank |-> Nobody] /\ memory = [r \in Rank |-> Nobody]
  /\ queue = [r \in Rank |-> <<>>] /\ pipe = [r \in Rank |-> <<>>]
  /\ fence = [f \in Fences |-> 0]
  /\ broken = FALSE /\ late = FALSE
  /\ main = 1 /\ turn = 0 /\ verdict = "none" /\ faults = 0

(***************************************************************************)
(* Control flow of a child.                                                *)
(***************************************************************************)
After(r, s) ==
  IF ~s.last THEN [pc[r] EXCEPT !.at = @ + 1]
  ELSE [block |-> IF pc[r].block = "finally" THEN "exit" ELSE "finally", at |-> 1]

Advance(r, s) == /\ pc' = [pc EXCEPT ![r] = After(r, s)]
                 /\ UNCHANGED <<status, raised>>

\* A raise in the try block enters the except block.  One in a finally block is caught
\* there, ends the attempt to release that object and fails the record; only a "risky"
\* call is not guarded and takes the process down before its record is put.
Raise(r, s) ==
  \/ /\ pc[r].block = "body"
     /\ pc' = [pc EXCEPT ![r] = [block |-> "except", at |-> 1]]
     /\ raised' = raised \cup {r}
     /\ UNCHANGED <<status, held, keys>>
  \/ /\ pc[r].block = "finally" /\ s.do # "risky"
     /\ pc' = [pc EXCEPT ![r] = After(r, s)]
     /\ held' = [held EXCEPT ![r] = @ \ {s.needs}]
     /\ keys' = [keys EXCEPT ![r] = @ \ {"passed"}]
     /\ UNCHANGED <<status, raised>>
  \/ /\ pc[r].block = "finally" /\ s.do = "risky"
     /\ status' = [status EXCEPT ![r] = "failed"]
     /\ UNCHANGED <<pc, raised, held, keys>>

\* The parent has closed its copies of the pipe's ends, and p no longer has its own.
Closed == \E i \in 1..main - 1 : Parent[probe].steps[i] = "close"
HungUp(p) == Closed /\ (Over(p) \/ pc[p].block = "exit")

\* The wait r is at is over.
Ready(r, s) ==
  CASE s.do = "await" -> fence[s.arg] > 0
    [] s.do = "meet"  -> /\ fence[<<s.arg, Peer(r)>>] >= fence[<<s.arg, r>>]
                         /\ ~(s.arg = "mp" /\ broken)
    [] s.do = "sync"  -> queue[r] = <<>>
    [] s.do = "recv"  -> pipe[r] # <<>> /\ Head(pipe[r]) # "empty"
    [] s.do = "open"  -> s.arg \in held[Peer(r)] /\ Running(Peer(r))
    [] OTHER -> TRUE

\* The call r is at fails because of what its peer did: no fault, no time limit.
Refused(r, s) ==
  CASE s.do = "meet" -> \/ s.arg = "gloo" /\ ~Ready(r, s) /\ Over(Peer(r))
                        \/ s.arg = "mp" /\ broken
    [] s.do = "recv" -> IF pipe[r] = <<>> THEN HungUp(Peer(r))
                        ELSE Head(pipe[r]) = "empty"
    [] s.do = "send" -> pc[r].block = "body" /\ HungUp(Peer(r))
    [] s.do = "open" -> ~Ready(r, s)
    [] OTHER -> FALSE

\* The waits with a time limit: mp.Event.wait and the barriers, and Gloo's own.
Timed(r, s) == \/ At(r, s, "await")
               \/ At(r, s, "meet") /\ s.arg \in {"gloo", "mp", "win32"}

MayFail == {"call", "hold", "open", "write", "read", "enqueue", "sync", "close", "risky"}

(***************************************************************************)
(* The steps of a child.                                                   *)
(***************************************************************************)
\* A step of a finally block whose object does not exist.
Skip(r, s) ==
  /\ s.needs \notin held[r] \cup {"nothing"}
  /\ Advance(r, s)
  /\ UNCHANGED <<setup, own, queue, between, results, parent, faults, late>>

Work(r, s) ==
  /\ \E kind \in {"call", "risky", "hangup"} : At(r, s, kind)
  /\ Advance(r, s)
  /\ UNCHANGED <<setup, own, queue, between, results, parent, faults, late>>

Take(r, s) ==
  /\ At(r, s, "hold") \/ (At(r, s, "open") /\ Ready(r, s))
  /\ held' = [held EXCEPT ![r] = @ \cup {s.arg}]
  /\ Advance(r, s)
  /\ UNCHANGED <<setup, keys, got, wrong, queue, between, results, parent, faults, late>>

Release(r, s) ==
  /\ At(r, s, "free") \/ At(r, s, "close")
  /\ held' = [held EXCEPT ![r] = @ \ {s.arg}]
  /\ Advance(r, s)
  /\ UNCHANGED <<setup, keys, got, wrong, queue, between, results, parent, faults, late>>

\* The entries of the record: set, set to the outcome of a comparison, set to False.
Note(r, s) ==
  /\ \/ /\ At(r, s, "key") \/ (At(r, s, "check") /\ got[r] = Peer(r))
        /\ keys' = [keys EXCEPT ![r] = @ \cup s.arg]
     \/ /\ At(r, s, "unset") \/ (At(r, s, "check") /\ got[r] # Peer(r))
        /\ keys' = [keys EXCEPT ![r] = @ \ s.arg]
  /\ Advance(r, s)
  /\ UNCHANGED <<setup, held, got, wrong, queue, between, results, parent, faults, late>>

Saw(r, owner) == /\ got' = [got EXCEPT ![r] = owner]
                 /\ wrong' = IF owner = Peer(r) THEN wrong ELSE wrong \cup {r}

\* HipRuntime.memcpy is synchronous.
CopyIn(r, s) ==
  /\ At(r, s, "write")
  /\ memory' = [memory EXCEPT ![s.arg] = r]
  /\ Advance(r, s)
  /\ UNCHANGED <<setup, own, queue, fence, pipe, broken, results, parent, faults, late>>

CopyOut(r, s) ==
  /\ At(r, s, "read")
  /\ Saw(r, memory[s.arg])
  /\ Advance(r, s)
  /\ UNCHANGED <<setup, held, keys, queue, between, results, parent, faults, late>>

SetEvents(r, s) ==
  /\ At(r, s, "set")
  /\ fence' = [f \in Fences |-> IF f \in s.arg THEN 1 ELSE fence[f]]
  /\ Advance(r, s)
  /\ UNCHANGED <<setup, own, queue, memory, pipe, broken, results, parent, faults, late>>

Arrive(r, s) ==
  /\ At(r, s, "post")
  /\ fence' = [fence EXCEPT ![<<s.arg, r>>] = @ + 1]
  /\ Advance(r, s)
  /\ UNCHANGED <<setup, own, queue, memory, pipe, broken, results, parent, faults, late>>

Pass(r, s) ==
  /\ \E kind \in {"await", "meet", "sync"} : At(r, s, kind)
  /\ Ready(r, s)
  /\ Advance(r, s)
  /\ UNCHANGED <<setup, own, queue, between, results, parent, faults, late>>

Enqueue(r, s) ==
  /\ At(r, s, "enqueue")
  /\ queue' = [queue EXCEPT ![r] = @ \o s.arg]
  /\ Advance(r, s)
  /\ UNCHANGED <<setup, own, between, results, parent, faults, late>>

Send(r, s) ==
  /\ At(r, s, "send") /\ ~Refused(r, s)
  /\ pipe' = [pipe EXCEPT ![Peer(r)] = Append(@, s.arg)]
  /\ Advance(r, s)
  /\ UNCHANGED <<setup, own, queue, fence, memory, broken, results, parent, faults, late>>

Receive(r, s) ==
  /\ At(r, s, "recv") /\ Ready(r, s)
  /\ pipe' = [pipe EXCEPT ![r] = Tail(@)]
  /\ Advance(r, s)
  /\ UNCHANGED <<setup, own, queue, fence, memory, broken, results, parent, faults, late>>

AbortBarrier(r, s) ==
  /\ At(r, s, "abort")
  /\ broken' = TRUE
  /\ Advance(r, s)
  /\ UNCHANGED <<setup, own, queue, fence, memory, pipe, results, parent, faults, late>>

\* results.put: the process ends once its record is in the pipe.
Exit(r) ==
  /\ Running(r) /\ pc[r].block = "exit" /\ fits
  /\ results' = results \cup {r}
  /\ status' = [status EXCEPT ![r] = "ended"]
  /\ UNCHANGED <<setup, pc, raised, own, queue, between, parent, faults, late>>

(***************************************************************************)
(* What goes wrong.                                                        *)
(***************************************************************************)
PeerRefuses(r, s) ==
  /\ \E kind \in {"meet", "recv", "send", "open"} : At(r, s, kind)
  /\ Refused(r, s)
  /\ Raise(r, s)
  /\ UNCHANGED <<setup, got, wrong, queue, between, results, parent, faults, late>>

\* A wait that times out breaks an mp.Barrier for the peer too.
TimeOut(r, s) ==
  /\ Timed(r, s) /\ ~Ready(r, s) /\ ~Refused(r, s)
  /\ late' = TRUE
  /\ broken' = (broken \/ s.arg = "mp")
  /\ Raise(r, s)
  /\ UNCHANGED <<setup, got, wrong, queue, fence, memory, pipe, results, parent, faults>>

\* A call reports an error.  A synchronize that does has lost the device's work.
Fault(r, s) ==
  /\ faults < MaxFaults /\ \E kind \in MayFail : At(r, s, kind)
  /\ faults' = faults + 1
  /\ queue' = IF s.do = "sync" THEN [queue EXCEPT ![r] = <<>>] ELSE queue
  /\ Raise(r, s)
  /\ UNCHANGED <<setup, got, wrong, between, results, parent, late>>

Crash(r) ==
  /\ faults < MaxFaults /\ Running(r)
  /\ faults' = faults + 1
  /\ status' = [status EXCEPT ![r] = "crashed"]
  /\ UNCHANGED <<setup, pc, raised, own, queue, between, results, parent, late>>

\* The device runs the stream of a live process in order; a wait holds it up.
Device(r) ==
  /\ Running(r) /\ queue[r] # <<>>
  /\ LET op == Head(queue[r])
     IN  /\ op.op = "wait" => fence[op.on] >= op.val
         /\ fence' = IF op.op = "signal" THEN [fence EXCEPT ![op.on] = op.val] ELSE fence
         /\ memory' = IF op.op = "write" THEN [memory EXCEPT ![op.on[2]] = r] ELSE memory
         /\ CASE op.op = "read" -> Saw(r, memory[op.on[2]])
              [] op.op = "result" -> Saw(r, Peer(r))
              [] OTHER -> UNCHANGED <<got, wrong>>
  /\ queue' = [queue EXCEPT ![r] = Tail(@)]
  /\ UNCHANGED <<setup, status, pc, raised, held, keys, pipe, broken, results, parent,
                 faults, late>>

(***************************************************************************)
(* The parent.                                                             *)
(***************************************************************************)
Steps == Parent[probe].steps
ParentAt(step) == main <= Len(Steps) /\ Steps[main] = step
\* The end of one round of a "for process in processes" loop.
NextTurn == /\ turn' = 1 - turn
            /\ main' = main + turn

Prepare ==
  /\ ParentAt("create") \/ ParentAt("load") \/ ParentAt("close")
  /\ main' = main + 1
  /\ UNCHANGED <<setup, status, pc, raised, own, queue, between, results, turn, verdict,
                 faults, late>>

PrepareFails ==
  /\ ParentAt("create") \/ ParentAt("load")
  /\ faults < MaxFaults /\ faults' = faults + 1
  /\ main' = Len(Steps) + 1 /\ verdict' = "raised"
  /\ UNCHANGED <<setup, status, pc, raised, own, queue, between, results, turn, late>>

Start ==
  /\ ParentAt("start")
  /\ status' = [status EXCEPT ![turn] = "running"]
  /\ NextTurn
  /\ UNCHANGED <<setup, pc, raised, own, queue, between, results, verdict, faults, late>>

\* process.join without a time limit.
JoinForever ==
  /\ ParentAt("join") /\ Over(turn)
  /\ NextTurn
  /\ UNCHANGED <<setup, status, pc, raised, own, queue, between, results, verdict, faults, late>>

\* process.join returns when the child has ended or the time is up.
Join ==
  /\ ParentAt("join")
  /\ late' = (late \/ ~Over(turn))
  /\ NextTurn
  /\ UNCHANGED <<setup, status, pc, raised, own, queue, between, results, verdict, faults>>

Terminate ==
  /\ ParentAt("terminate")
  /\ status' = [status EXCEPT ![turn] = IF Over(turn) THEN @ ELSE "terminated"]
  /\ NextTurn
  /\ UNCHANGED <<setup, pc, raised, own, queue, between, results, verdict, faults, late>>

\* Every record that arrived, and the exit codes.
Verdict ==
  IF /\ results = Rank
     /\ \A r \in Rank : Parent[probe].needs[r] \subseteq keys[r]
     /\ \A r \in Rank : status[r] = "ended"
  THEN "passed" ELSE "failed"

Get ==
  /\ ParentAt("get")
  /\ verdict' = Verdict
  /\ main' = main + 1
  /\ UNCHANGED <<setup, status, pc, raised, own, queue, between, results, turn, faults, late>>

Step(r, s) ==
  \/ Skip(r, s) \/ Work(r, s) \/ Take(r, s) \/ Release(r, s) \/ Note(r, s)
  \/ CopyIn(r, s) \/ CopyOut(r, s) \/ SetEvents(r, s) \/ Arrive(r, s) \/ Pass(r, s)
  \/ Enqueue(r, s) \/ Send(r, s) \/ Receive(r, s) \/ AbortBarrier(r, s)
GoesWrong(r, s) == PeerRefuses(r, s) \/ TimeOut(r, s) \/ Fault(r, s)
ParentStep == Prepare \/ PrepareFails \/ Start \/ Join \/ Terminate \/ Get

Next ==
  \/ ParentStep
  \/ \E r \in Rank : \/ \E s \in Now(r) : Step(r, s) \/ GoesWrong(r, s)
                     \/ Exit(r) \/ Device(r) \/ Crash(r)

\* Only the parent is sure to be scheduled: its joins are bounded.
Spec == Init /\ [][Next]_vars /\ WF_vars(ParentStep)

(***************************************************************************)
(* Properties.                                                             *)
(***************************************************************************)
\* main returns 0 only when both try blocks ran to their end and every transfer of the run,
\* the warm-up included, delivered the peer's data: no exception, lost record, timeout or
\* dead child can be taken for success.
PassedIsEarned == verdict = "passed" => raised = {} /\ wrong = {}

Calm == faults = 0 /\ ~late

\* When nothing fails, no time limit expires and the record fits, main returns 0: no order
\* of the two children's steps makes a probe fail a transport that works.
SoundProbesPass == Calm /\ fits /\ main > Len(Steps) => verdict = "passed"

\* When nothing has failed, the two children and their streams are never all blocked: the
\* events, pipes, barriers and fences of each probe are waited for in a consistent order.
CalmNeverStuck ==
  (/\ Calm
   /\ \A r \in Rank : status[r] # "new"
   /\ \E r \in Rank : Running(r) /\ (fits \/ pc[r].block # "exit"))
  => ENABLED (\E r \in Rank : (\E s \in Now(r) : Step(r, s)) \/ Exit(r) \/ Device(r))

\* An allocation mapped by the importer of hip_ipc_probe.py is not freed by its exporter:
\* the exporter frees only after the importer's reply or its end, whichever path it takes.
ImportedMemoryLives ==
  "import" \in held[1] /\ Running(1)
    => ("memory" \in held[0] /\ Running(0)) \/ status[0] \in {"crashed", "terminated"}

\* The parent has got to the loop that joins its children.
Joining == \E i \in 1..main : i <= Len(Steps) /\ Steps[i] = "join"

\* A child that ended by itself, after an exception too, leaves its peer at no host-side
\* wait that only a time limit could end; and at the pipe of hip_ipc_probe.py or in Gloo, no
\* child waits for one that crashed.  The parent's own copies of the pipe's ends would keep
\* it open, so they have to be closed by the time the parent joins.
\* hip_shared_memory_probe.py does not abort its barrier and Win32PairBarrier and
\* ncclCommInitRank cannot tell: they are not covered.
NobodyWaitsOnTheEnded ==
  \A r \in Rank : \A s \in Now(r) :
    \/ Over(Peer(r)) /\ (At(r, s, "recv") \/ (At(r, s, "meet") /\ s.arg = "gloo"))
    \/ /\ status[Peer(r)] = "ended"
       /\ At(r, s, "await") \/ (At(r, s, "meet") /\ s.arg = "mp" /\ probe # "mapped")
    => Ready(r, s) \/ Refused(r, s) \/ (probe = "ipc" /\ ~Joining)

\* benchmark_d3d12_cross_adapter.py closes a heap only when none of its own stream's work
\* on it is outstanding, on the error path too.
InFlightIsHeld ==
  probe = "bench_d3d12" =>
    \A r \in Rank : Running(r) =>
      \A i \in DOMAIN queue[r] : HeapOf(queue[r][i].on[2]) \in held[r]

\* main returns whatever its children do: hang, crash or fail to deliver their record.
MainReturns == <>(verdict # "none")
====
