--------------------------- MODULE HaloInterpInv ---------------------------
(***************************************************************************)
(* The inductive invariant of HaloInterp: what waits in every FIFO is a run *)
(* of consecutive planes, whose ends are functions of the program counters  *)
(* of the FIFO's two ends.  HaloInterpProofs proves that it is inductive     *)
(* and what follows from it.                                                *)
(***************************************************************************)
EXTENDS HaloInterp

\* PE p has no planes yet, or not in both strips.
Staging(p) == op[p] \in {"fill", "copy"}

\* PE p has passed its put, its get, of the current trip on channel d.
PutOver(p, d) == \/ op[p] \in {"get", "update", "drain"}
                 \/ op[p] = "put" /\ dir[p] # d /\ d = "ToNorth"
GetOver(p, d) == \/ op[p] \in {"update", "drain"}
                 \/ op[p] = "get" /\ dir[p] # d /\ d = "ToNorth"

\* Strips it has put, has got, planes it has computed.
Puts(p, d)  == step[p] + (IF PutOver(p, d) THEN 1 ELSE 0)
Gets(p, d)  == step[p] + (IF GetOver(p, d) THEN 1 ELSE 0)
Computed(p) == step[p] + (IF op[p] = "drain" THEN 1 ELSE 0)

\* The segment has put the fill of PE p, and how many of its planes the segment
\* has taken back.
Filled(p)  == seg.op # "fill" \/ p < seg.pe
Stored(p)  == IF seg.op = "done" \/ (seg.op = "drain" /\ p < seg.pe) THEN T
              ELSE IF seg.op = "drain" /\ p = seg.pe THEN seg.plane
              ELSE 0

\* FIFO q holds planes a .. b - 1, in order.
Holds(q, a, b) == Len(q) = b - a /\ \A k \in 1 .. Len(q) : q[k] = a + k - 1

\* What a fill carries: every cell of plane 0.
FirstStrip == [own |-> 0, ghost |-> [d \in Dir |-> 0], cols |-> 0]

\* Control of a PE and of the segment.
CtlOK(p) == /\ Staging(p) => step[p] = 0
            /\ op[p] = "done" => step[p] = T
            /\ op[p] \in {"put", "get", "update", "drain"} => step[p] < T
SegOK    == /\ seg.op = "fill" => seg.plane = 0
            /\ seg.op = "drain" => seg.plane < T

\* A PE takes its fill once, when it has been put.
FillsOK(p) == /\ fills[p] = IF Filled(p) /\ op[p] = "fill" THEN <<FirstStrip>> ELSE <<>>
              /\ op[p] # "fill" => Filled(p)

\* What waits on a link is what its producer has put and its consumer not got.
LinkOK(p, d) == IF GetGuard(p, d) THEN Holds(link[p][d], Gets(p, d), Puts(GetPeer(p, d), d))
                ELSE link[p][d] = <<>>
DrainsOK(p)  == Holds(drains[p], Stored(p) + 1, step[p] + 1)

\* The two strips: boundary, owned rows and ghost bands, and their planes.
StripOK(p) ==
  /\ \A b \in Buf : own[p][b] <= Computed(p)
  /\ op[p] # "fill" => \E b \in Buf : own[p][b] = Computed(p)
  /\ op[p] = "copy" => /\ own[p]["cur"] = 0
                       /\ cols[p]["cur"] = 0
                       /\ \A d \in Dir : ghost[p]["cur"][d] = 0
  /\ ~Staging(p) =>
       /\ \A b \in Buf : cols[p][b] = 0
       /\ \A b \in Buf : \A d \in Dir : ~GetGuard(p, d) => ghost[p][b][d] = 0
       /\ op[p] # "done" => own[p][Source(step[p])] = step[p]
       /\ \A d \in Dir : GetGuard(p, d) /\ GetOver(p, d) => ghost[p][Source(step[p])][d] = step[p]
  /\ op[p] = "drain" => own[p][Destination(step[p])] = step[p] + 1

\* L3 holds the planes the segment has taken back, and no other.
L3OK(p) == \A n \in 0 .. T : l3[p][n] = IF n <= Stored(p) THEN n ELSE Junk

\* The inductive invariant.
IInv ==
  /\ TypeOK /\ SegOK
  /\ \A p \in PE : CtlOK(p) /\ FillsOK(p) /\ DrainsOK(p) /\ StripOK(p) /\ L3OK(p)
  /\ \A p \in PE : \A d \in Dir : LinkOK(p, d)

\* An actor that is not waiting for a FIFO.
SegmentCanStep == /\ seg.op # "done"
                  /\ seg.op = "drain" => drains[seg.pe] # <<>>
CanStep(p)     == /\ op[p] # "done"
                  /\ op[p] = "fill" => fills[p] # <<>>
                  /\ op[p] = "get" /\ GetGuard(p, dir[p]) => link[p][dir[p]] # <<>>

\* Until the plan has run, some actor can step.
NoCircularWait == Finished \/ SegmentCanStep \/ \E p \in PE : CanStep(p)
=============================================================================
