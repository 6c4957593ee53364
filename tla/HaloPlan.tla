------------------------------ MODULE HaloPlan ------------------------------
(***************************************************************************)
(* The static part of the halo protocol that spatial/m4_mapping.py         *)
(* synthesises for an `exchange` clause (kernel W2, the 2-D Jacobi): the    *)
(* PEs and their links, the two-phase timestep loop, and what one update    *)
(* computes.  HaloInterp and HaloTT execute it, on FIFOs and on            *)
(* semaphores.                                                             *)
(*                                                                         *)
(* A plane of the tensor is abstracted to its number: the timestep t of    *)
(* the kernel's U[t, ...], counted from the loop's lower bound.  A cell of  *)
(* an L1 strip (the owned rows, one ghost band, the boundary columns) holds *)
(* the number of the plane whose values it holds, or Junk.                  *)
(***************************************************************************)
EXTENDS SwapLoop

CONSTANT PES      \* PEs of the 1-D herd, strip.pes

\* strip_geometry refuses a herd of fewer than two PEs ("a halo needs at
\* least one link").
ASSUME PESAssumption == PES \in Nat /\ PES >= 2

-----------------------------------------------------------------------------
(* The herd and its links.                                                  *)

PE == 0 .. PES - 1

\* The two halo channels, named for the way a strip travels: ToNorth carries
\* the first owned rows of PE k+1 to PE k, ToSouth the last ones of k to k+1.
Dir == {"ToNorth", "ToSouth"}

\* Guards of the four exchange sites of a step.
PutGuard(p, d) == IF d = "ToNorth" THEN p > 0 ELSE p < PES - 1
GetGuard(p, d) == IF d = "ToNorth" THEN p < PES - 1 ELSE p > 0

\* The PE at the other end of p's put and of p's get on channel d.  A core
\* holds at most one link of a channel as producer and one as consumer, so
\* <<core, channel>> names the link.
PutPeer(p, d) == IF d = "ToNorth" THEN p - 1 ELSE p + 1
GetPeer(p, d) == IF d = "ToNorth" THEN p + 1 ELSE p - 1

-----------------------------------------------------------------------------
(* The two strips of a PE and the phases of the timestep loop.              *)

Buf == {"cur", "next"}

\* Phase 0 reads cur and writes next, phase 1 the reverse.
Source(n)      == IF Phase(n) = 0 THEN "cur" ELSE "next"
Destination(n) == IF Phase(n) = 0 THEN "next" ELSE "cur"

-----------------------------------------------------------------------------
(* The contents of a strip.                                                 *)

Junk == -1
Tag  == 0 .. T \union {Junk}

\* One strip of PE p is fit for the update of plane n: owned rows at plane n,
\* every exchanged ghost band at plane n, and the read-only boundary - the
\* ghost band of a domain edge and the boundary columns - at plane 0.
Fresh(p, n, own, ghost, cols) ==
  /\ own = n
  /\ \A d \in Dir : ghost[d] = IF GetGuard(p, d) THEN n ELSE 0
  /\ cols = 0

\* The five-point update: plane n + 1 if the strip was fit, else garbage.
Updated(p, n, own, ghost, cols) ==
  IF Fresh(p, n, own, ghost, cols) THEN n + 1 ELSE Junk
=============================================================================
