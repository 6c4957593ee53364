--------------------------- MODULE WaveInterpInv ---------------------------
(***************************************************************************)
(* The inductive invariant of WaveInterp: what waits in every FIFO is a run *)
(* of consecutive rows, whose ends are functions of the program counters of *)
(* the FIFO's two ends.  WaveInterpProofs proves that it is inductive and    *)
(* what follows from it.                                                    *)
(***************************************************************************)
EXTENDS WaveInterp

\* PE p has both read operands, or the row of this trip.
Staging(p)    == op[p] \in {"get_q", "get_r"}
AfterScore(p) == op[p] \in {"put", "drain"}

\* Rows PE p has scored.
RowsScored(p) == step[p] + (IF AfterScore(p) THEN 1 ELSE 0)

\* The segment has put the second operand of PE p.
Served(p) == \/ seg.op \in {"west", "east", "drain", "done"}
             \/ seg.op = "put_r" /\ p < seg.pe

\* Rows of the boundary column the segment has put, rows of the last column and
\* of PE p's band it has taken back.
WestSent    == IF seg.op \in {"put_q", "put_r"} THEN 0
               ELSE IF seg.op = "west" THEN seg.row - 1
               ELSE T
EastTaken   == IF seg.op \in {"put_q", "put_r", "west"} THEN 0
               ELSE IF seg.op = "east" THEN seg.row - 1
               ELSE T
OutTaken(p) == IF seg.op = "done" \/ (seg.op = "drain" /\ p < seg.pe) THEN T
               ELSE IF seg.op = "drain" /\ p = seg.pe THEN seg.row - 1
               ELSE 0

\* Rows whose west edge has been put for PE p.
Arrived(p) == IF p = 0 THEN WestSent ELSE Sent(p - 1)

\* FIFO q holds rows a + 1 .. b, in order.
Holds(q, a, b) == Len(q) = b - a /\ \A k \in 1 .. Len(q) : q[k] = a + k

\* Control of a PE and of the segment.
CtlOK(p) == /\ Staging(p) => step[p] = 0
            /\ op[p] = "done" => step[p] = T
            /\ op[p] \in {"get", "score", "put", "drain"} => step[p] < T
SegOK    == /\ seg.op \in {"west", "east", "drain"} => T > 0
            /\ seg.op \notin {"west", "east", "drain"} => seg.row = 1
            /\ seg.op \notin {"put_r", "drain"} => seg.pe = 0

\* A PE takes each operand once, when it has been put.
StagedOK(p) ==
  /\ staged["q"][p] = IF seg.op # "put_q" /\ op[p] = "get_q" THEN 1 ELSE 0
  /\ staged["r"][p] = IF Served(p) /\ Staging(p) THEN 1 ELSE 0
  /\ op[p] # "get_q" => seg.op # "put_q"
  /\ ~Staging(p) => Served(p)

\* What waits between two actors is what one has put and the other not taken.
LinkOK(p) == Holds(link[p], Taken(p), Arrived(p))
OutOK(p)  == Holds(out[p], OutTaken(p), step[p])
EastQOK   == Holds(eastQ, EastTaken, Sent(Last))

\* The two buffers: the row before, and this one as far as the PE has come.
BandOK(p) ==
  /\ \A b \in Buf : band[p][b] <= RowsScored(p)
  /\ ~Staging(p) => \E b \in Buf : band[p][b] = RowsScored(p)
  /\ ~Staging(p) /\ op[p] # "done" => /\ band[p][Previous(step[p])] = step[p]
                                      /\ ghost[p][Previous(step[p])] = step[p]
  /\ op[p] = "score" => edgeIn[p] = step[p] + 1
  /\ AfterScore(p) => /\ ghost[p][Current(step[p])] = step[p] + 1
                      /\ band[p][Current(step[p])] = step[p] + 1
                      /\ edgeOut[p] = step[p] + 1

\* L3 holds the rows the segment has taken back, and no other.
L3OK(p) == \A r \in 0 .. T : l3[p][r] = IF r <= OutTaken(p) THEN r ELSE Junk
EastOK  == \A r \in 0 .. T : east[r] = IF r <= EastTaken THEN r ELSE Junk

\* The inductive invariant.
IInv ==
  /\ TypeOK
  /\ SegOK /\ EastQOK /\ EastOK
  /\ \A p \in PE : CtlOK(p) /\ StagedOK(p) /\ LinkOK(p) /\ OutOK(p) /\ BandOK(p) /\ L3OK(p)

\* An actor that is not waiting for a FIFO.
SegmentCanStep == /\ seg.op # "done"
                  /\ seg.op = "east" => eastQ # <<>>
                  /\ seg.op = "drain" => out[seg.pe] # <<>>
CanStep(p)     == /\ op[p] # "done"
                  /\ op[p] = "get_q" => staged["q"][p] > 0
                  /\ op[p] = "get_r" => staged["r"][p] > 0
                  /\ op[p] = "get" => link[p] # <<>>

\* Until the plan has run, some actor can step.
NoCircularWait == Finished \/ SegmentCanStep \/ \E p \in PE : CanStep(p)
=============================================================================
