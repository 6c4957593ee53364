------------------------------ MODULE WavePlan ------------------------------
(***************************************************************************)
(* The static part of the wavefront protocol that spatial/m4_mapping.py     *)
(* synthesises for a forwarded operand (kernel W3, Smith-Waterman): the PE   *)
(* line, the row swap pair, and what one row of a band needs.               *)
(*                                                                         *)
(* Row r of the operand, counted from the row before the loop's first, is   *)
(* abstracted to its number.  A band has the PE's own columns and, west of   *)
(* them, one ghost cell; each holds the number of the row it belongs to.    *)
(***************************************************************************)
EXTENDS SwapLoop

CONSTANT PES      \* PEs of the line, herd.grid[0]

\* band_geometry refuses a herd of fewer than two PEs ("a wavefront needs at
\* least one link").
ASSUME PESAssumption == PES \in Nat /\ PES >= 2

PE   == 0 .. PES - 1
Last == PES - 1

Buf  == {"prev", "cur"}
Junk == -1
Row  == 0 .. T \union {Junk}

\* Trip n computes row n + 1 from row n: phase 0 reads prev and writes cur,
\* phase 1 the reverse.
Previous(n) == IF Phase(n) = 0 THEN "prev" ELSE "cur"
Current(n)  == IF Phase(n) = 0 THEN "cur" ELSE "prev"

\* What the accesses of trip n reach: north in the columns of the previous
\* row, north-west in its ghost cell, west in the ghost cell of this row.
Ready(n, north, northWest, west) ==
  north = n /\ northWest = n /\ west = n + 1

\* The row trip n leaves in the band's own columns.
Scored(n, north, northWest, west) ==
  IF Ready(n, north, northWest, west) THEN n + 1 ELSE Junk
=============================================================================
