------------------------------ MODULE Wavefront ------------------------------
(***************************************************************************)
(* What a wavefront plan promises: the PEs of a line compute rows 1 .. T of  *)
(* their columns in order, a PE starting a row once the PE to its west has   *)
(* finished it, and every row reaches L3, in order.  This is the partial     *)
(* order of the loop nest of kernels/w3_sw.py.                               *)
(***************************************************************************)
EXTENDS Integers

CONSTANTS PES, T

VARIABLES rows,    \* rows[p]: rows of its columns that PE p has computed
          stored   \* stored[p]: rows of p's columns that L3 holds

wvars == <<rows, stored>>

PE == 0 .. PES - 1

Init ==
  /\ rows   = [p \in PE |-> 0]
  /\ stored = [p \in PE |-> 0]

\* S[i, j] reads S[i-1, j-1], S[i-1, j] and S[i, j-1].
Compute(p) ==
  /\ rows[p] < T
  /\ p > 0 => rows[p - 1] > rows[p]
  /\ rows' = [rows EXCEPT ![p] = @ + 1]
  /\ UNCHANGED stored

Store(p) ==
  /\ stored[p] < rows[p]
  /\ stored' = [stored EXCEPT ![p] = @ + 1]
  /\ UNCHANGED rows

Next == \E p \in PE : Compute(p) \/ Store(p)

Fairness == \A p \in PE : WF_wvars(Compute(p)) /\ WF_wvars(Store(p))

Spec == Init /\ [][Next]_wvars /\ Fairness
=============================================================================
