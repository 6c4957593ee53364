------------------------------ MODULE Reduction ------------------------------
(***************************************************************************)
(* What a cascade promises: every PE of a line multiplies its share of each  *)
(* of T row tiles, and the sum over all of them, each share counted once,   *)
(* reaches L3, tile after tile, as the loop nest of kernels/w1_gemm.py       *)
(* accumulates it.                                                          *)
(***************************************************************************)
EXTENDS Integers

CONSTANTS PES, T

VARIABLES shares,  \* shares[p]: tiles PE p has multiplied its share of
          sums     \* tiles whose whole sum is in L3

rvars == <<shares, sums>>

PE == 0 .. PES - 1

Init ==
  /\ shares = [p \in PE |-> 0]
  /\ sums = 0

Multiply(p) ==
  /\ shares[p] < T
  /\ shares' = [shares EXCEPT ![p] = @ + 1]
  /\ UNCHANGED sums

\* C[i, j] is whole when every k has been added.
Store ==
  /\ sums < T
  /\ \A p \in PE : shares[p] > sums
  /\ sums' = sums + 1
  /\ UNCHANGED shares

Next == Store \/ \E p \in PE : Multiply(p)

Fairness == WF_rvars(Store) /\ \A p \in PE : WF_rvars(Multiply(p))

Spec == Init /\ [][Next]_rvars /\ Fairness
=============================================================================
