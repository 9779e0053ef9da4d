---------------------------- MODULE PairBarrier ----------------------------
(***************************************************************************)
(* Win32PairBarrier (win32_barrier.py): a reusable barrier for two         *)
(* processes, built from two named Windows auto-reset events.  wait() is   *)
(* two system calls - SetEvent on the rank's own event, then               *)
(* WaitForSingleObject on the peer's - and the two ranks interleave        *)
(* between them.  An auto-reset event is one bit: setting it twice is the  *)
(* same as setting it once, and a satisfied wait clears it.                *)
(***************************************************************************)
EXTENDS Naturals

CONSTANTS MaxCalls,   \* bound: how often each rank calls wait()
          MayTimeout  \* whether a wait may exceed timeout_ms

ASSUME BarrierAssumption == MaxCalls \in Nat /\ MayTimeout \in BOOLEAN

Rank == {0, 1}
Peer(r) == 1 - r

VARIABLES
  at,       \* where each rank is: "new", "out", "waiting" or "closed"
  event,    \* is the rank's event signalled?
  entered,  \* calls of wait() whose SetEvent has happened
  passed,   \* calls of wait() that returned normally
  expired   \* calls of wait() that raised TimeoutError

vars == <<at, event, entered, passed, expired>>

\* The ranks that hold handles; a named event lives while somebody does.
Holders == {r \in Rank : at[r] \in {"out", "waiting"}}

Init ==
  /\ at = [r \in Rank |-> "new"]
  /\ event = [r \in Rank |-> FALSE]
  /\ entered = [r \in Rank |-> 0]
  /\ passed = [r \in Rank |-> 0]
  /\ expired = [r \in Rank |-> 0]

(* __init__: CreateEventW creates both events unsignalled, or opens them    *)
(* as they are when the peer holds them already.                            *)
Create(r) ==
  /\ at[r] = "new"
  /\ at' = [at EXCEPT ![r] = "out"]
  /\ event' = IF Holders = {} THEN [q \in Rank |-> FALSE] ELSE event
  /\ UNCHANGED <<entered, passed, expired>>

\* Defect: no SetEvent when the peer is seen waiting already.
LazySignal(r) ==
  /\ at[r] = "out"
  /\ entered[r] < MaxCalls
  /\ at' = [at EXCEPT ![r] = "waiting"]
  /\ event' = [event EXCEPT ![r] = @ \/ at[Peer(r)] # "waiting"]
  /\ entered' = [entered EXCEPT ![r] = @ + 1]
  /\ UNCHANGED <<passed, expired>>

\* wait(), first half: SetEvent(own).
Signal(r) ==
  /\ at[r] = "out"
  /\ entered[r] < MaxCalls
  /\ at' = [at EXCEPT ![r] = "waiting"]
  /\ event' = [event EXCEPT ![r] = TRUE]
  /\ entered' = [entered EXCEPT ![r] = @ + 1]
  /\ UNCHANGED <<passed, expired>>

\* Defect: manual-reset events, which a satisfied wait leaves signalled.
ManualResetConsume(r) ==
  /\ at[r] = "waiting"
  /\ event[Peer(r)]
  /\ at' = [at EXCEPT ![r] = "out"]
  /\ passed' = [passed EXCEPT ![r] = @ + 1]
  /\ UNCHANGED <<event, entered, expired>>

\* wait(), second half: WaitForSingleObject(peer) finds the event signalled
\* and, the event being auto-reset, clears it.
Consume(r) ==
  /\ at[r] = "waiting"
  /\ event[Peer(r)]
  /\ at' = [at EXCEPT ![r] = "out"]
  /\ event' = [event EXCEPT ![Peer(r)] = FALSE]
  /\ passed' = [passed EXCEPT ![r] = @ + 1]
  /\ UNCHANGED <<entered, expired>>

\* Defect: a timeout that is counted and waited out again inside wait().
RetryingExpire(r) ==
  /\ MayTimeout
  /\ at[r] = "waiting"
  /\ ~event[Peer(r)]
  /\ expired' = [expired EXCEPT ![r] = @ + 1]
  /\ UNCHANGED <<at, event, entered, passed>>

\* wait(), second half: WAIT_TIMEOUT after timeout_ms.  The rank's own signal
\* stays behind.
Expire(r) ==
  /\ MayTimeout
  /\ at[r] = "waiting"
  /\ ~event[Peer(r)]
  /\ at' = [at EXCEPT ![r] = "out"]
  /\ expired' = [expired EXCEPT ![r] = @ + 1]
  /\ UNCHANGED <<event, entered, passed>>

\* close(): drops both handles.  It is the owner's last call.
Close(r) ==
  /\ at[r] = "out"
  /\ at' = [at EXCEPT ![r] = "closed"]
  /\ UNCHANGED <<event, entered, passed, expired>>

Next ==
  \E r \in Rank :
    \/ Create(r)
    \/ Signal(r)
    \/ Consume(r)
    \/ Expire(r)
    \/ Close(r)

Spec == Init /\ [][Next]_vars
-----------------------------------------------------------------------------
\* The values the events, the counters and the two control states take.
TypeOK ==
  /\ at \in [Rank -> {"new", "out", "waiting", "closed"}]
  /\ event \in [Rank -> BOOLEAN]
  /\ entered \in [Rank -> 0..MaxCalls]
  /\ passed \in [Rank -> 0..MaxCalls]
  /\ expired \in [Rank -> 0..MaxCalls]

\* The barrier itself: a rank none of whose waits timed out is outside its
\* k-th wait() only when the peer has entered its own k-th wait().
BarrierHolds ==
  \A r \in Rank :
    at[r] # "waiting" /\ expired[r] = 0 => entered[r] <= entered[Peer(r)]

\* The two ranks never wait on each other: of two ranks inside wait(), at
\* least one has its signal waiting for it - after lost signals and timeouts
\* too - so a single barrier cannot hang both of them.
NotBothBlocked ==
  at[0] = "waiting" /\ at[1] = "waiting" => event[0] \/ event[1]

\* One early SetEvent can be lost, never two: while no wait has timed out, a
\* rank still waiting in generation k has a signal in store as soon as its
\* peer has entered a generation after k.
LateWaiterSignalled ==
  \A r \in Rank :
    at[r] = "waiting" /\ entered[Peer(r)] > entered[r]
      /\ (\A q \in Rank : expired[q] = 0)
    => event[Peer(r)]

\* What wait() says when it raises TimeoutError - "the peer did not reach the
\* Windows event barrier": the first timeout never strikes a rank whose peer
\* has entered, and even left, the same generation of the barrier.
TimeoutMeansPeerAbsent ==
  [][\A r \in Rank :
       Expire(r) /\ (\A q \in Rank : expired[q] = 0)
         => passed[Peer(r)] < entered[r]]_vars
=============================================================================
