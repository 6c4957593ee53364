------------------------------ MODULE SwapLoop ------------------------------
(***************************************************************************)
(* The two-phase temporal loop of spatial/m4_mapping.py: a pair of buffers  *)
(* cannot be swapped by a loop-carried value, so the loop is unrolled by    *)
(* two, with both phases in its body, and an odd last trip is peeled off.   *)
(***************************************************************************)
EXTENDS Integers

CONSTANT T        \* trips of the loop, hi - lo

\* The loop may have any trip count, 0 included.
ASSUME TAssumption == T \in Nat

\* Upper bound of the step-2 loop; the trip T - 1 is peeled when T is odd.
LoopHi == T - (T % 2)

\* Phase of trip n: the first or the second body of the unrolled loop, and
\* the first one again for the peeled trip.
Phase(n) == IF n < LoopHi THEN n % 2 ELSE 0
=============================================================================
