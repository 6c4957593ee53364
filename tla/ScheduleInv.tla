----------------------------- MODULE ScheduleInv -----------------------------
(***************************************************************************)
(* The inductive invariant of Schedule.  What a record says stays true       *)
(* because nothing is ever taken back: an axis once in the table stays, with *)
(* its extent, and a clause once recorded keeps its place in the list.       *)
(***************************************************************************)
EXTENDS Schedule

\* A sequence, of whatever elements.
IsSeq(s) == Len(s) \in Nat /\ s = [k \in 1 .. Len(s) |-> s[k]]

\* Names are sequences of parts; tiling adds the parts 0 and 1.
Names == Seq(STRING \union {"0", "1"})

TableOK == DOMAIN table \subseteq Names /\ IsFiniteSet(DOMAIN table)

\* What was tiled is in the table with its halves, so it is not tiled again.
TiledOK == \A k \in Made("tile") : Known(Outer(records[k].key))

\* place comes after grid and binds as many axes as the herd has, all of them
\* known and no two the same.
PlaceOK ==
  Recorded("place") =>
    /\ Recorded("grid") /\ Len(Placed) = Len(TheValue("grid"))
    /\ \A k \in DOMAIN Placed : Known(Placed[k])
    /\ \A j, k \in DOMAIN Placed : Placed[j] = Placed[k] => j = k

IInv ==
  /\ IsSeq(records) /\ TableOK /\ TypeOK
  /\ TilesExact
  /\ TiledOK /\ PlaceOK /\ ~ModelRaises /\ OnePerSlot
==============================================================================
