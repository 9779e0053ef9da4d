--------------------------- MODULE PairAllReduce ---------------------------
(***************************************************************************)
(* What a two-rank all-reduce promises, whatever carries it: the e-th call *)
(* of a rank returns the sum of the two e-th contributions, so it returns  *)
(* only after both were made.  A rank's contributions to its successive    *)
(* calls are told apart by the number of the call, and the sum a rank gets *)
(* in a call is represented by the number of the peer's contribution that  *)
(* went into it; 0 is "no result yet".  A call that raises half-way breaks *)
(* the pair: nothing more is promised.                                     *)
(***************************************************************************)
EXTENDS Naturals

CONSTANTS Rank,    \* the two ranks
          Calls    \* how many all-reduces the workload makes

VARIABLES given,   \* contributions each rank has made
          result,  \* per rank and call: whose contribution was added
          broken   \* has a call raised half-way?

spec_vars == <<given, result, broken>>

Init ==
  /\ given = [r \in Rank |-> 0]
  /\ result = [r \in Rank |-> [e \in 1..Calls |-> 0]]
  /\ broken = FALSE

\* A rank makes its next contribution, its previous call having its result.
Give(r) ==
  /\ given[r] < Calls
  /\ given[r] > 0 => result[r][given[r]] # 0
  /\ given' = [given EXCEPT ![r] = @ + 1]
  /\ UNCHANGED <<result, broken>>

\* The result of a rank's current call, possible once the peer gave to it.
Get(r) ==
  /\ given[r] > 0
  /\ result[r][given[r]] = 0
  /\ \A p \in Rank : given[p] >= given[r]
  /\ result' = [result EXCEPT ![r][given[r]] = given[r]]
  /\ UNCHANGED <<given, broken>>

\* The contributions and results of a broken pair may be anything.
Break == broken' = TRUE

Next == Break \/ \E r \in Rank : Give(r) \/ Get(r)

Spec == Init /\ [][Next]_spec_vars
=============================================================================
