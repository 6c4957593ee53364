------------------------------- MODULE Jacobi -------------------------------
(***************************************************************************)
(* What a halo plan promises, whatever carries the strips: the PEs of a     *)
(* line compute planes 1 .. T of their rows, each plane from the previous   *)
(* one of the PE and of its neighbours, as the loop nest of                 *)
(* kernels/w2_jacobi.py orders them, and every plane reaches L3, in order.  *)
(***************************************************************************)
EXTENDS Integers

CONSTANTS PES, T

VARIABLES planes,   \* planes[p]: the last plane PE p has computed
          stored    \* stored[p]: the last plane of p's rows that L3 holds

jvars == <<planes, stored>>

PE == 0 .. PES - 1
Neighbours(p) == {p - 1, p + 1} \intersect PE

Init ==
  /\ planes = [p \in PE |-> 0]
  /\ stored = [p \in PE |-> 0]

\* U[t+1, i, j] reads U[t, i-1, j] and U[t, i+1, j]: a PE starts a plane when
\* its neighbours have the previous one.
Compute(p) ==
  /\ planes[p] < T
  /\ \A q \in Neighbours(p) : planes[q] >= planes[p]
  /\ planes' = [planes EXCEPT ![p] = @ + 1]
  /\ UNCHANGED stored

Store(p) ==
  /\ stored[p] < planes[p]
  /\ stored' = [stored EXCEPT ![p] = @ + 1]
  /\ UNCHANGED planes

Next == \E p \in PE : Compute(p) \/ Store(p)

Fairness == \A p \in PE : WF_jvars(Compute(p)) /\ WF_jvars(Store(p))

Spec == Init /\ [][Next]_jvars /\ Fairness
=============================================================================
