----------------------------- MODULE WaveInterp -----------------------------
(***************************************************************************)
(* The wavefront plan under the channel semantics of the plan itself (see   *)
(* HaloInterp): the segment actor and one actor per PE over unbounded        *)
(* FIFOs.  The segment first stages both read operands, the first of them    *)
(* with one put for every PE, then puts the boundary column of every row,    *)
(* and only then takes the last column and the bands back.                   *)
(***************************************************************************)
EXTENDS WavePlan, Sequences

VARIABLES
  op,     \* op[p]: what PE p does next
  step,   \* step[p]: trip of the row loop
  ghost, band, edgeIn, edgeOut,   \* the L1 buffers of each PE, as in WaveTT
  staged, \* staged[x][p]: puts of operand x that PE p has not taken, "q" or "r"
  link,   \* link[p]: FIFO PE p takes its west edge from, WestIn or West[p - 1]
  eastQ,  \* FIFO of EastOut
  out,    \* out[p]: FIFO of the row drains of PE p
  seg,    \* the segment actor: its operation, PE and row
  l3,     \* l3[p][r]: row held by p's columns of row r
  east    \* east[r]: row held by the last column of row r

data  == <<ghost, band, edgeIn, edgeOut>>
fifos == <<staged, link, eastQ, out>>
vars  == <<op, step, data, fifos, seg, l3, east>>

Op    == {"get_q", "get_r", "get", "score", "put", "drain", "done"}
SegOp == {"put_q", "put_r", "west", "east", "drain", "done"}

Init ==
  /\ op      = [p \in PE |-> "get_q"]
  /\ step    = [p \in PE |-> 0]
  /\ ghost   = [p \in PE |-> [b \in Buf |-> Junk]]
  /\ band    = [p \in PE |-> [b \in Buf |-> Junk]]
  /\ edgeIn  = [p \in PE |-> Junk]
  /\ edgeOut = [p \in PE |-> Junk]
  /\ staged  = [x \in {"q", "r"} |-> [p \in PE |-> 0]]
  /\ link    = [p \in PE |-> <<>>]
  /\ eastQ   = <<>>
  /\ out     = [p \in PE |-> <<>>]
  /\ seg     = [op |-> "put_q", pe |-> 0, row |-> 1]
  /\ l3      = [p \in PE |-> [r \in 0 .. T |-> IF r = 0 THEN 0 ELSE Junk]]
  /\ east    = [r \in 0 .. T |-> IF r = 0 THEN 0 ELSE Junk]

Goto(p, o) == op' = [op EXCEPT ![p] = o]

\* Entry of trip n of the row loop, or its exit.
EnterTrip(p, n) ==
  /\ step' = [step EXCEPT ![p] = n]
  /\ Goto(p, IF n = T THEN "done" ELSE "get")

-----------------------------------------------------------------------------
(* The segment actor.                                                       *)

SegGoto(o) == seg' = [op |-> IF o \in {"west", "east", "drain"} /\ T = 0 THEN "done" ELSE o,
                      pe |-> 0, row |-> 1]

\* The next row of a loop over the rows, or what follows the loop.
NextRow(o) == IF seg.row < T THEN seg' = [seg EXCEPT !.row = @ + 1] ELSE SegGoto(o)

\* One put of the multicast operand reaches every PE.
SegPutQ ==
  /\ seg.op = "put_q"
  /\ staged' = [staged EXCEPT !["q"] = [p \in PE |-> @[p] + 1]]
  /\ SegGoto("put_r")
  /\ UNCHANGED <<op, step, data, link, eastQ, out, l3, east>>

SegPutR ==
  /\ seg.op = "put_r"
  /\ staged' = [staged EXCEPT !["r"][seg.pe] = @ + 1]
  /\ IF seg.pe < Last THEN seg' = [seg EXCEPT !.pe = @ + 1] ELSE SegGoto("west")
  /\ UNCHANGED <<op, step, data, link, eastQ, out, l3, east>>

SegWest ==
  /\ seg.op = "west"
  /\ link' = [link EXCEPT ![0] = Append(@, seg.row)]
  /\ NextRow("east")
  /\ UNCHANGED <<op, step, data, staged, eastQ, out, l3, east>>

SegEast ==
  /\ seg.op = "east"
  /\ eastQ # <<>>
  /\ east' = [east EXCEPT ![seg.row] = Head(eastQ)]
  /\ eastQ' = Tail(eastQ)
  /\ NextRow("drain")
  /\ UNCHANGED <<op, step, data, staged, link, out, l3>>

\* All the rows of a PE, then the next PE.
SegDrain ==
  LET p == seg.pe IN
  /\ seg.op = "drain"
  /\ out[p] # <<>>
  /\ l3' = [l3 EXCEPT ![p][seg.row] = Head(out[p])]
  /\ east' = IF p = Last THEN [east EXCEPT ![seg.row] = Head(out[p])] ELSE east
  /\ out' = [out EXCEPT ![p] = Tail(@)]
  /\ seg' = IF seg.row < T THEN [seg EXCEPT !.row = @ + 1]
            ELSE IF p < Last THEN [seg EXCEPT !.pe = p + 1, !.row = 1]
            ELSE [op |-> "done", pe |-> 0, row |-> 1]
  /\ UNCHANGED <<op, step, data, staged, link, eastQ>>

-----------------------------------------------------------------------------
(* A PE of the line.                                                        *)

GetQ(p) ==
  /\ op[p] = "get_q" /\ staged["q"][p] > 0
  /\ staged' = [staged EXCEPT !["q"][p] = @ - 1]
  /\ Goto(p, "get_r")
  /\ UNCHANGED <<step, data, link, eastQ, out, seg, l3, east>>

\* Mutant: the ghost cell of the row before the first is not zeroed.
GetRBandOnly(p) ==
  /\ op[p] = "get_r" /\ staged["r"][p] > 0
  /\ staged' = [staged EXCEPT !["r"][p] = @ - 1]
  /\ band'   = [band EXCEPT ![p]["prev"] = 0]
  /\ EnterTrip(p, 0)
  /\ UNCHANGED <<ghost, edgeIn, edgeOut, link, eastQ, out, seg, l3, east>>

\* The second operand, then the zeroed row before the first.
GetR(p) ==
  /\ op[p] = "get_r" /\ staged["r"][p] > 0
  /\ staged' = [staged EXCEPT !["r"][p] = @ - 1]
  /\ ghost'  = [ghost EXCEPT ![p]["prev"] = 0]
  /\ band'   = [band EXCEPT ![p]["prev"] = 0]
  /\ EnterTrip(p, 0)
  /\ UNCHANGED <<edgeIn, edgeOut, link, eastQ, out, seg, l3, east>>

Get(p) ==
  /\ op[p] = "get" /\ link[p] # <<>>
  /\ edgeIn' = [edgeIn EXCEPT ![p] = Head(link[p])]
  /\ link'   = [link EXCEPT ![p] = Tail(@)]
  /\ Goto(p, "score")
  /\ UNCHANGED <<step, ghost, band, edgeOut, staged, eastQ, out, seg, l3, east>>

\* Mutant: the edge is copied into the row that was read.
ScoreStaleEdge(p) ==
  LET n == step[p]
      row == Scored(n, band[p][Previous(n)], edgeIn[p], edgeIn[p])
  IN
  /\ op[p] = "score"
  /\ ghost'   = [ghost EXCEPT ![p][Previous(n)] = edgeIn[p]]
  /\ band'    = [band EXCEPT ![p][Current(n)] = row]
  /\ edgeOut' = [edgeOut EXCEPT ![p] = row]
  /\ Goto(p, "put")
  /\ UNCHANGED <<step, edgeIn, fifos, seg, l3, east>>

\* The west edge to the ghost cell, the columns of the row, the east edge.
Score(p) ==
  LET n == step[p]
      row == Scored(n, band[p][Previous(n)], ghost[p][Previous(n)], edgeIn[p])
  IN
  /\ op[p] = "score"
  /\ ghost'   = [ghost EXCEPT ![p][Current(n)] = edgeIn[p]]
  /\ band'    = [band EXCEPT ![p][Current(n)] = row]
  /\ edgeOut' = [edgeOut EXCEPT ![p] = row]
  /\ Goto(p, "put")
  /\ UNCHANGED <<step, edgeIn, fifos, seg, l3, east>>

Put(p) ==
  /\ op[p] = "put"
  /\ IF p = Last
     THEN eastQ' = Append(eastQ, edgeOut[p]) /\ UNCHANGED link
     ELSE link' = [link EXCEPT ![p + 1] = Append(@, edgeOut[p])] /\ UNCHANGED eastQ
  /\ Goto(p, "drain")
  /\ UNCHANGED <<step, data, staged, out, seg, l3, east>>

\* Mutant: the row that was read is drained.
DrainPrevious(p) ==
  /\ op[p] = "drain"
  /\ out' = [out EXCEPT ![p] = Append(@, band[p][Previous(step[p])])]
  /\ EnterTrip(p, step[p] + 1)
  /\ UNCHANGED <<data, staged, link, eastQ, seg, l3, east>>

Drain(p) ==
  /\ op[p] = "drain"
  /\ out' = [out EXCEPT ![p] = Append(@, band[p][Current(step[p])])]
  /\ EnterTrip(p, step[p] + 1)
  /\ UNCHANGED <<data, staged, link, eastQ, seg, l3, east>>

-----------------------------------------------------------------------------
Segment == SegPutQ \/ SegPutR \/ SegWest \/ SegEast \/ SegDrain
Herd(p) == GetQ(p) \/ GetR(p) \/ Get(p) \/ Score(p) \/ Put(p) \/ Drain(p)

Finished == seg.op = "done" /\ \A p \in PE : op[p] = "done"
Return   == Finished /\ UNCHANGED vars

Next == Segment \/ (\E p \in PE : Herd(p)) \/ Return

\* Every actor keeps being scheduled: the round-robin visits each in turn.
Fairness == WF_vars(Segment) /\ \A p \in PE : WF_vars(Herd(p))

Spec == Init /\ [][Next]_vars /\ Fairness

-----------------------------------------------------------------------------
(* Properties.                                                              *)

Largest(i, j) == IF i < j THEN j ELSE i

\* The variables stay in their types: the segment stays within the rows.
TypeOK ==
  /\ op      \in [PE -> Op]
  /\ step    \in [PE -> 0 .. T]
  /\ ghost   \in [PE -> [Buf -> Row]]
  /\ band    \in [PE -> [Buf -> Row]]
  /\ edgeIn  \in [PE -> Row]
  /\ edgeOut \in [PE -> Row]
  /\ staged  \in [{"q", "r"} -> [PE -> 0 .. 1]]
  /\ link    \in [PE -> Seq(Row)]
  /\ eastQ   \in Seq(Row)
  /\ out     \in [PE -> Seq(Row)]
  /\ seg     \in [op : SegOp, pe : PE, row : 1 .. Largest(T, 1)]
  /\ l3      \in [PE -> [0 .. T -> Row]]
  /\ east    \in [0 .. T -> Row]

\* The rows a PE has taken the west edge of, and the rows it has put.
Taken(p) == step[p] + (IF op[p] \in {"score", "put", "drain"} THEN 1 ELSE 0)
Sent(p)  == step[p] + (IF op[p] = "drain" THEN 1 ELSE 0)

\* A link queues exactly the rows its PE is behind, in order: the skew between
\* two PEs is nothing but the edges waiting between them.
EdgesAreTheSkew ==
  \A p \in PE : p > 0 =>
    /\ Len(link[p]) = Sent(p - 1) - Taken(p)
    /\ \A k \in 1 .. Len(link[p]) : link[p][k] = Taken(p) + k

\* The last column is written by EastOut and after it by the last PE's band, in the
\* order of the segment's body: each cell changes once, to the row it belongs to.
LastColumnAgrees ==
  [][\A r \in 1 .. T : east'[r] # east[r] => east[r] = Junk /\ east'[r] = r]_vars

\* The plan implements the wavefront order of the kernel, every row to L3.
rowsDone  == [p \in PE |-> Largest(0, Largest(band[p]["prev"], band[p]["cur"]))]
rowsInL3  == [p \in PE |-> CHOOSE n \in -1 .. T :
                /\ \A m \in 0 .. n : l3[p][m] = m
                /\ n < T => l3[p][n + 1] # n + 1]
Abstract  == INSTANCE Wavefront WITH rows <- rowsDone, stored <- rowsInL3
ImplementsWavefront == Abstract!Spec
=============================================================================
