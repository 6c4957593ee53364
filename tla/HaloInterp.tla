----------------------------- MODULE HaloInterp -----------------------------
(***************************************************************************)
(* The halo plan under the channel semantics of the plan itself, the one    *)
(* tests/helpers/plan_interp.py executes: one actor for the segment body    *)
(* and one per PE, all concurrent, an unbounded FIFO per channel and index, *)
(* a put that copies its slab and never waits, a get that waits only while  *)
(* its FIFO is empty.  The interpreter's round-robin is one of the          *)
(* interleavings allowed here.                                             *)
(***************************************************************************)
EXTENDS HaloPlan, Sequences

VARIABLES
  op,      \* op[p]: what PE p does next
  dir,     \* dir[p]: the channel its put or get is on
  step,    \* step[p]: trip of the timestep loop
  own, ghost, cols,   \* the two strips of each PE, as in HaloTT
  link,    \* link[p][d]: FIFO of channel d at the index PE p gets from
  fills,   \* fills[p]: FIFO of the staging channel UIn[p]
  drains,  \* drains[p]: FIFO of the staging channel UOut[p]
  seg,     \* the segment actor: its operation, PE and plane
  l3       \* l3[p][n]: plane held by p's rows of U[lo + n]

strips == <<own, ghost, cols>>
fifos  == <<link, fills, drains>>
ctl    == <<op, dir, step>>
vars   == <<ctl, strips, fifos, seg, l3>>

Op    == {"fill", "copy", "put", "get", "update", "drain", "done"}
SegOp == {"fill", "drain", "done"}

Init ==
  /\ op     = [p \in PE |-> "fill"]
  /\ dir    = [p \in PE |-> "ToNorth"]
  /\ step   = [p \in PE |-> 0]
  /\ own    = [p \in PE |-> [b \in Buf |-> Junk]]
  /\ ghost  = [p \in PE |-> [b \in Buf |-> [d \in Dir |-> Junk]]]
  /\ cols   = [p \in PE |-> [b \in Buf |-> Junk]]
  /\ link   = [p \in PE |-> [d \in Dir |-> <<>>]]
  /\ fills  = [p \in PE |-> <<>>]
  /\ drains = [p \in PE |-> <<>>]
  /\ seg    = [op |-> "fill", pe |-> 0, plane |-> 0]
  /\ l3     = [p \in PE |-> [n \in 0 .. T |-> IF n = 0 THEN 0 ELSE Junk]]

Goto(p, o, d) ==
  /\ op'  = [op EXCEPT ![p] = o]
  /\ dir' = [dir EXCEPT ![p] = d]

AfterPut(p) ==
  IF dir[p] = "ToNorth" THEN Goto(p, "put", "ToSouth") ELSE Goto(p, "get", "ToNorth")
AfterGet(p) ==
  IF dir[p] = "ToNorth" THEN Goto(p, "get", "ToSouth") ELSE Goto(p, "update", "ToNorth")

\* Entry of trip n of the timestep loop, or its exit.
EnterTrip(p, n) ==
  /\ step' = [step EXCEPT ![p] = n]
  /\ Goto(p, IF n < T THEN "put" ELSE "done", "ToNorth")

-----------------------------------------------------------------------------
(* The segment actor: a fill per PE, then a drain of every plane per PE.    *)
(* The herd marker between them is no wait: the herd runs concurrently.     *)

\* Where the drain bundle stands after PE p's last plane.
NextDrain(p) == IF p + 1 < PES /\ T > 0
                THEN [op |-> "drain", pe |-> p + 1, plane |-> 0]
                ELSE [op |-> "done", pe |-> 0, plane |-> 0]

SegFill ==
  LET p == seg.pe IN
  /\ seg.op = "fill"
  /\ fills' = [fills EXCEPT ![p] = Append(@,
       [own   |-> l3[p][0],
        ghost |-> [d \in Dir |-> IF GetGuard(p, d) THEN l3[GetPeer(p, d)][0] ELSE 0],
        cols  |-> 0])]
  /\ seg' = IF p + 1 < PES THEN [seg EXCEPT !.pe = p + 1] ELSE NextDrain(-1)
  /\ UNCHANGED <<ctl, strips, link, drains, l3>>

\* Mutant: the drain leaves out the `+ 1` of the target plane.
SegDrainSamePlane ==
  LET p == seg.pe IN
  /\ seg.op = "drain"
  /\ drains[p] # <<>>
  /\ l3' = [l3 EXCEPT ![p][seg.plane] = Head(drains[p])]
  /\ drains' = [drains EXCEPT ![p] = Tail(@)]
  /\ seg' = IF seg.plane + 1 < T THEN [seg EXCEPT !.plane = @ + 1] ELSE NextDrain(p)
  /\ UNCHANGED <<ctl, strips, link, fills>>

SegDrain ==
  LET p == seg.pe IN
  /\ seg.op = "drain"
  /\ drains[p] # <<>>
  /\ l3' = [l3 EXCEPT ![p][seg.plane + 1] = Head(drains[p])]
  /\ drains' = [drains EXCEPT ![p] = Tail(@)]
  /\ seg' = IF seg.plane + 1 < T THEN [seg EXCEPT !.plane = @ + 1] ELSE NextDrain(p)
  /\ UNCHANGED <<ctl, strips, link, fills>>

-----------------------------------------------------------------------------
(* A PE of the herd.                                                        *)

Fill(p) ==
  /\ op[p] = "fill"
  /\ fills[p] # <<>>
  /\ own'   = [own EXCEPT ![p]["cur"] = Head(fills[p]).own]
  /\ ghost' = [ghost EXCEPT ![p]["cur"] = Head(fills[p]).ghost]
  /\ cols'  = [cols EXCEPT ![p]["cur"] = Head(fills[p]).cols]
  /\ fills' = [fills EXCEPT ![p] = Tail(@)]
  /\ Goto(p, "copy", "ToNorth")
  /\ UNCHANGED <<step, link, drains, seg, l3>>

Copy(p) ==
  /\ op[p] = "copy"
  /\ own'   = [own EXCEPT ![p]["next"] = own[p]["cur"]]
  /\ ghost' = [ghost EXCEPT ![p]["next"] = ghost[p]["cur"]]
  /\ cols'  = [cols EXCEPT ![p]["next"] = cols[p]["cur"]]
  /\ EnterTrip(p, 0)
  /\ UNCHANGED <<fifos, seg, l3>>

Put(p) ==
  LET d == dir[p] IN
  /\ op[p] = "put"
  /\ link' = IF PutGuard(p, d)
             THEN [link EXCEPT ![PutPeer(p, d)][d] = Append(@, own[p][Source(step[p])])]
             ELSE link
  /\ AfterPut(p)
  /\ UNCHANGED <<step, strips, fills, drains, seg, l3>>

\* Mutant: a get goes on when its FIFO is empty, leaving the strip behind.
GetUnblocked(p) ==
  LET d == dir[p] IN
  /\ op[p] = "get"
  /\ IF GetGuard(p, d) /\ link[p][d] # <<>>
     THEN /\ ghost' = [ghost EXCEPT ![p][Source(step[p])][d] = Head(link[p][d])]
          /\ link'  = [link EXCEPT ![p][d] = Tail(@)]
     ELSE UNCHANGED <<ghost, link>>
  /\ AfterGet(p)
  /\ UNCHANGED <<step, own, cols, fills, drains, seg, l3>>

Get(p) ==
  LET d == dir[p] IN
  /\ op[p] = "get"
  /\ IF GetGuard(p, d)
     THEN /\ link[p][d] # <<>>
          /\ ghost' = [ghost EXCEPT ![p][Source(step[p])][d] = Head(link[p][d])]
          /\ link'  = [link EXCEPT ![p][d] = Tail(@)]
     ELSE UNCHANGED <<ghost, link>>
  /\ AfterGet(p)
  /\ UNCHANGED <<step, own, cols, fills, drains, seg, l3>>

Update(p) ==
  LET s == Source(step[p]) IN
  /\ op[p] = "update"
  /\ own' = [own EXCEPT ![p][Destination(step[p])] =
               Updated(p, step[p], own[p][s], ghost[p][s], cols[p][s])]
  /\ Goto(p, "drain", "ToNorth")
  /\ UNCHANGED <<step, ghost, cols, fifos, seg, l3>>

Drain(p) ==
  LET b == Destination(step[p]) IN
  /\ op[p] = "drain"
  /\ drains' = [drains EXCEPT ![p] = Append(@, IF cols[p][b] = 0 THEN own[p][b] ELSE Junk)]
  /\ EnterTrip(p, step[p] + 1)
  /\ UNCHANGED <<strips, link, fills, seg, l3>>

-----------------------------------------------------------------------------
Segment == SegFill \/ SegDrain
Herd(p) == Fill(p) \/ Copy(p) \/ Put(p) \/ Get(p) \/ Update(p) \/ Drain(p)

Finished == seg.op = "done" /\ \A p \in PE : op[p] = "done"
Return   == Finished /\ UNCHANGED vars

Next == Segment \/ (\E p \in PE : Herd(p)) \/ Return

\* Every actor keeps being scheduled: the round-robin visits each in turn.
Fairness == WF_vars(Segment) /\ \A p \in PE : WF_vars(Herd(p))

Spec == Init /\ [][Next]_vars /\ Fairness

-----------------------------------------------------------------------------
(* Properties.                                                              *)

Strip == [own : Tag, ghost : [Dir -> Tag], cols : Tag]

\* The variables stay in their types: no actor leaves its loops.
TypeOK ==
  /\ op    \in [PE -> Op]
  /\ dir   \in [PE -> Dir]
  /\ step  \in [PE -> 0 .. T]
  /\ own   \in [PE -> [Buf -> Tag]]
  /\ ghost \in [PE -> [Buf -> [Dir -> Tag]]]
  /\ cols  \in [PE -> [Buf -> Tag]]
  /\ link  \in [PE -> [Dir -> Seq(Tag)]]
  /\ fills \in [PE -> Seq(Strip)]
  /\ drains \in [PE -> Seq(Tag)]
  /\ seg   \in [op : SegOp, pe : PE, plane : 0 .. T]
  /\ l3    \in [PE -> [0 .. T -> Tag]]

\* Channels are unbounded, yet the exchange never queues more than two strips
\* on a link, and they are consecutive planes: two landing regions suffice,
\* which is the credit the TT emitter gives the link.
AtMostTwoStrips ==
  \A p \in PE : \A d \in Dir :
    /\ Len(link[p][d]) <= 2
    /\ Len(link[p][d]) = 2 => link[p][d][2] = link[p][d][1] + 1

Largest(i, j) == IF i < j THEN j ELSE i
planesDone  == [p \in PE |-> Largest(0, Largest(own[p]["cur"], own[p]["next"]))]
planesInL3  == [p \in PE |-> CHOOSE n \in -1 .. T :
                  /\ \A m \in 0 .. n : l3[p][m] = m
                  /\ n < T => l3[p][n + 1] # n + 1]

\* The plan's own semantics implements the Jacobi iteration.
Abstract == INSTANCE Jacobi WITH planes <- planesDone, stored <- planesInL3
ImplementsJacobi == Abstract!Spec
=============================================================================
