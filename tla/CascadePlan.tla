----------------------------- MODULE CascadePlan -----------------------------
(***************************************************************************)
(* The static part of the cascade that spatial/m4_mapping.py synthesises    *)
(* for a placed reduction axis (kernel W1-flip): the orientation of the     *)
(* chain, its link indices, and partial sums.                               *)
(*                                                                         *)
(* A partial sum of an output tile is abstracted to what has been added:    *)
(* for each PE, the trip whose share of that PE is in it.                    *)
(***************************************************************************)
EXTENDS Integers

CONSTANTS PES,   \* PEs of the line, herd.grid[axis]
          T      \* trips of the streaming loop over row tiles

\* chain_geometry refuses fewer ("a chain needs at least two PEs to have a
\* link").
ASSUME PESAssumption == PES \in Nat /\ PES >= 2
ASSUME TAssumption == T \in Nat

PE   == 0 .. PES - 1
Link == 0 .. PES - 2
Trip == 0 .. T - 1

-----------------------------------------------------------------------------
(* The orientation: a 1-D herd ascends, a (1, PES) herd descends.           *)

Direction == {"ascending", "descending"}

Head(dir) == IF dir = "ascending" THEN 0 ELSE PES - 1
Tail(dir) == IF dir = "ascending" THEN PES - 1 ELSE 0

\* Mutant: the descending chain keeps the put index of the ascending one.
PutIndexAscending(dir, p) == IF p < PES - 1 THEN p ELSE PES - 2

\* The link PE p puts into, and the one it gets from.
PutIndex(dir, p) == IF dir = "ascending" THEN p ELSE p - 1
GetIndex(dir, p) == IF dir = "ascending" THEN p - 1 ELSE p

\* The PE at the far end of p's put: the one that gets at the same index.
Receiver(dir, p) ==
  CHOOSE q \in PE \ {Head(dir)} : GetIndex(dir, q) = PutIndex(dir, p)

\* The PEs whose shares have gone into what PE p receives.
Before(dir, p) == {q \in PE : IF dir = "ascending" THEN q < p ELSE q > p}

-----------------------------------------------------------------------------
(* Partial sums.                                                            *)

Absent == -1
Junk   == -2
Sum    == [PE -> Trip \union {Absent, Junk}]

Zero        == [q \in PE |-> Absent]
Unwritten   == [q \in PE |-> Junk]
Share(p, n) == [q \in PE |-> IF q = p THEN n ELSE Absent]

\* What is added twice is garbage.
Plus(one, two) ==
  [q \in PE |-> IF one[q] = Absent THEN two[q]
                ELSE IF two[q] = Absent THEN one[q] ELSE Junk]

\* The sum of the shares of a set of PEs, all of trip n.
SumOver(S, n) == [q \in PE |-> IF q \in S THEN n ELSE Absent]
=============================================================================
