------------------------- MODULE PairBarrierProofs -------------------------
(***************************************************************************)
(* The safety of Win32PairBarrier for any number of calls, with and        *)
(* without timeouts.  None of the three properties is inductive alone:     *)
(* Accounting says that every entered call is passed, expired or pending,  *)
(* SignalsAreEarned that a rank never passes more often than its peer has  *)
(* signalled.                                                              *)
(***************************************************************************)
EXTENDS PairBarrier, TLAPS

\* Every call of wait() that a rank has entered has returned, has timed out
\* or is still pending.
Accounting ==
  \A r \in Rank :
    entered[r] = passed[r] + expired[r] + (IF at[r] = "waiting" THEN 1 ELSE 0)

\* A rank has passed, and may be about to pass once more, at most as often as
\* its peer has signalled.
SignalsAreEarned ==
  \A r \in Rank :
    passed[r] + (IF event[Peer(r)] THEN 1 ELSE 0) <= entered[Peer(r)]

IInv ==
  /\ TypeOK
  /\ Accounting
  /\ SignalsAreEarned
  /\ NotBothBlocked
  /\ LateWaiterSignalled

\* The initial state satisfies the inductive invariant: nobody has called
\* wait() and no event is signalled.
LEMMA InitIInv == Init => IInv
  BY BarrierAssumption
  DEF Init, IInv, TypeOK, Accounting, SignalsAreEarned, NotBothBlocked,
      LateWaiterSignalled, Rank, Peer

\* Every step of either rank - creating the events, SetEvent, the end of the
\* wait, a timeout, close - preserves the inductive invariant.
LEMMA NextIInv == IInv /\ [Next]_vars => IInv'
<1> SUFFICES ASSUME IInv, [Next]_vars PROVE IInv'
  OBVIOUS
<1> USE BarrierAssumption
    DEF IInv, TypeOK, Accounting, SignalsAreEarned, NotBothBlocked,
        LateWaiterSignalled, Rank, Peer
<1>1. ASSUME NEW r \in Rank, Create(r) PROVE IInv'
  BY <1>1 DEF Create, Holders
<1>2. ASSUME NEW r \in Rank, Signal(r) PROVE IInv'
  BY <1>2 DEF Signal
<1>3. ASSUME NEW r \in Rank, Consume(r) PROVE IInv'
  BY <1>3 DEF Consume
<1>4. ASSUME NEW r \in Rank, Expire(r) PROVE IInv'
  BY <1>4 DEF Expire
<1>5. ASSUME NEW r \in Rank, Close(r) PROVE IInv'
  BY <1>5 DEF Close
<1>6. CASE UNCHANGED vars
  BY <1>6 DEF vars
<1>7. QED
  BY <1>1, <1>2, <1>3, <1>4, <1>5, <1>6 DEF Next

\* The inductive invariant contains the barrier property: a rank outside its
\* k-th wait() passed k times, and the peer signalled at least as often.
LEMMA IInvImpliesBarrier == IInv => BarrierHolds
  BY DEF IInv, TypeOK, Accounting, SignalsAreEarned, BarrierHolds, Rank, Peer

\* For every number of calls: the types, the barrier property, the absence of
\* a mutual wait and the bound on lost signals are invariants of wait().
THEOREM BarrierSafety ==
  Spec => [](TypeOK /\ BarrierHolds /\ NotBothBlocked /\ LateWaiterSignalled)
<1>1. IInv => TypeOK /\ BarrierHolds /\ NotBothBlocked /\ LateWaiterSignalled
  BY IInvImpliesBarrier DEF IInv
<1>2. QED
  BY InitIInv, NextIInv, <1>1, PTL DEF Spec

\* wait() separates generations: a rank leaves its k-th call only after its
\* peer has entered its own k-th call.
THEOREM BarrierSeparates == Spec => []BarrierHolds
  BY BarrierSafety, PTL

\* After any history of lost signals and timeouts, the two ranks are never both
\* inside wait() with neither event signalled.
THEOREM NoMutualWait == Spec => []NotBothBlocked
  BY BarrierSafety, PTL

\* The one signal an auto-reset event can lose is not the one that a waiter who
\* is behind its peer needs.
THEOREM LateWaitersPass == Spec => []LateWaiterSignalled
  BY BarrierSafety, PTL

\* The calls and events of Win32PairBarrier keep their types.
THEOREM BarrierTypes == Spec => []TypeOK
  BY BarrierSafety, PTL
=============================================================================
