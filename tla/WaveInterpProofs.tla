-------------------------- MODULE WaveInterpProofs --------------------------
(***************************************************************************)
(* Proofs about WaveInterp, for every number of PEs and of rows.            *)
(***************************************************************************)
EXTENDS WaveInterpInv, WellFoundedInduction, TLAPS

USE PESAssumption, TAssumption

-----------------------------------------------------------------------------
(* The plan and its FIFOs.                                                  *)

\* The row before and the row of a trip are in the two buffers.
LEMMA BufType == \A n \in Nat : /\ Previous(n) \in Buf
                                /\ Current(n) \in Buf
                                /\ Previous(n) # Current(n)
BY DEF Previous, Current, Buf

\* The next trip finds the row of this one in its previous buffer, across the
\* unrolled body, its back edge and the peeled trip.
LEMMA SwapsEachTrip ==
  ASSUME NEW n \in Nat, n + 1 < T
  PROVE  Previous(n + 1) = Current(n)
<1>1. Phase(n) = n % 2 /\ Phase(n + 1) = (n + 1) % 2
  BY DEF Phase, LoopHi
<1>2. (n + 1) % 2 # n % 2 /\ n % 2 \in {0, 1} /\ (n + 1) % 2 \in {0, 1}
  OBVIOUS
<1> QED BY <1>1, <1>2 DEF Previous, Current

\* The first trip reads the buffer that staging sets.
LEMMA FirstTrip == Previous(0) = "prev"
BY DEF Previous, Phase, LoopHi

LEMMA Members ==
  /\ 0 \in PE /\ Last \in PE /\ Last \in Nat /\ 0 # Last
  /\ \A p \in PE : p \in Int /\ 0 <= p /\ p <= Last /\ (p < Last => p + 1 \in PE)
                   /\ (p # Last => p < Last) /\ (p > 0 => p - 1 \in PE) /\ (p # 0 => p > 0)
  /\ "prev" \in Buf /\ "cur" \in Buf /\ Junk \in Row /\ Junk = -1
  /\ \A n \in 0 .. T : n \in Row
  /\ \A r \in Row : r \in Int /\ r >= -1 /\ r <= T
BY DEF PE, Last, Buf, Junk, Row

LEMMA Places ==
  /\ 0 \in PE /\ Last \in PE /\ Last \in Nat
  /\ \A p \in PE : p \in Nat /\ p <= Last /\ ~(p < 0) /\ (p # Last => p < Last)
BY DEF PE, Last

\* The next row put into a FIFO joins the run of rows it holds.
LEMMA HoldsAppend ==
  ASSUME NEW q \in Seq(Row), NEW a \in Int, NEW b \in Int, Holds(q, a, b), b + 1 \in Row
  PROVE  Append(q, b + 1) \in Seq(Row) /\ Holds(Append(q, b + 1), a, b + 1)
<1>1. Append(q, b + 1) \in Seq(Row) /\ Len(Append(q, b + 1)) = Len(q) + 1
  OBVIOUS
<1>2. ASSUME NEW k \in 1 .. Len(q) + 1 PROVE Append(q, b + 1)[k] = a + k
  <2>1. CASE k \in 1 .. Len(q)
    BY <2>1 DEF Holds
  <2>2. CASE k = Len(q) + 1
    BY <2>2 DEF Holds
  <2> QED BY <2>1, <2>2
<1> QED BY <1>1, <1>2 DEF Holds

\* What is taken from a FIFO is the first row of the run.
LEMMA HoldsTail ==
  ASSUME NEW q \in Seq(Row), NEW a \in Int, NEW b \in Int, Holds(q, a, b), q # <<>>
  PROVE  /\ Head(q) = a + 1 /\ a + 1 \in Row /\ a < b
         /\ Tail(q) \in Seq(Row) /\ Holds(Tail(q), a + 1, b)
<1>1. Len(q) \in Nat /\ Len(q) >= 1 /\ Head(q) = q[1] /\ Head(q) \in Row
  OBVIOUS
<1>2. /\ Tail(q) \in Seq(Row) /\ Len(Tail(q)) = Len(q) - 1
      /\ \A k \in 1 .. Len(q) - 1 : Tail(q)[k] = q[k + 1]
  OBVIOUS
<1>3. q[1] = a + 1 /\ a < b
  BY <1>1 DEF Holds
<1> QED BY <1>1, <1>2, <1>3 DEF Holds

\* A run ends no earlier than it begins, and a FIFO with rows to give is not empty.
LEMMA HoldsSome ==
  ASSUME NEW q \in Seq(Row), NEW a \in Int, NEW b \in Int, Holds(q, a, b)
  PROVE  a <= b /\ (a < b => q # <<>>)
BY DEF Holds

-----------------------------------------------------------------------------
(* The parts of the invariant.                                              *)

LEMMA Parts ==
  ASSUME IInv
  PROVE  /\ TypeOK /\ SegOK /\ EastQOK /\ EastOK
         /\ \A p \in PE : /\ CtlOK(p) /\ StagedOK(p) /\ LinkOK(p) /\ OutOK(p) /\ BandOK(p) /\ L3OK(p)
                          /\ op[p] \in Op /\ step[p] \in Nat /\ step[p] \in 0 .. T
                          /\ edgeIn[p] \in Row /\ edgeOut[p] \in Row
                          /\ link[p] \in Seq(Row) /\ out[p] \in Seq(Row)
                          /\ \A b \in Buf : band[p][b] \in Row /\ ghost[p][b] \in Row
         /\ eastQ \in Seq(Row)
         /\ seg.op \in SegOp /\ seg.pe \in PE /\ seg.row \in Nat /\ seg.row >= 1
         /\ seg.op \in {"west", "east", "drain"} => seg.row <= T
<1>1. seg.row \in 1 .. Largest(T, 1) /\ SegOK
  BY DEF IInv, TypeOK
<1>2. seg.op \in {"west", "east", "drain"} => seg.row <= T
  BY <1>1 DEF SegOK, Largest
<1>3. seg.row \in Nat /\ seg.row >= 1
  BY <1>1 DEF Largest
<1> QED BY <1>2, <1>3 DEF IInv, TypeOK

\* The ends of the runs are numbers.
LEMMA EndTypes ==
  ASSUME IInv
  PROVE  /\ WestSent \in 0 .. T /\ EastTaken \in 0 .. T
         /\ \A p \in PE : /\ OutTaken(p) \in 0 .. T /\ Taken(p) \in Nat /\ Sent(p) \in Nat
                          /\ Arrived(p) \in Nat
<1>1. WestSent \in 0 .. T /\ EastTaken \in 0 .. T /\ \A p \in PE : OutTaken(p) \in 0 .. T
  BY Parts DEF WestSent, EastTaken, OutTaken
<1>2. \A p \in PE : Taken(p) \in Nat /\ Sent(p) \in Nat
  BY Parts DEF Taken, Sent
<1> QED BY <1>1, <1>2, Members DEF Arrived

-----------------------------------------------------------------------------
(* What each step of a PE does: the types it keeps, and the state it leaves. *)

\* What every PE but the one that steps keeps, and what no PE changes.
Same(q) ==
  /\ op'[q] = op[q] /\ step'[q] = step[q] /\ edgeIn'[q] = edgeIn[q] /\ edgeOut'[q] = edgeOut[q]
  /\ \A b \in Buf : ghost'[q][b] = ghost[q][b] /\ band'[q][b] = band[q][b]
  /\ staged'["q"][q] = staged["q"][q] /\ staged'["r"][q] = staged["r"][q]
  /\ out'[q] = out[q]
Others(p) == /\ TypeOK' /\ UNCHANGED <<seg, l3, east>>
             /\ \A q \in PE : q # p => Same(q)

LEMMA GetQStep ==
  ASSUME TypeOK, NEW p \in PE, GetQ(p)
  PROVE  /\ Others(p)
         /\ op[p] = "get_q" /\ op'[p] = "get_r" /\ staged["q"][p] > 0
         /\ staged'["q"][p] = staged["q"][p] - 1 /\ staged'["r"][p] = staged["r"][p]
         /\ UNCHANGED <<step, data, link, eastQ, out>>
<1>1. /\ op[p] = "get_q" /\ op' = [op EXCEPT ![p] = "get_r"] /\ staged["q"][p] > 0
      /\ staged' = [staged EXCEPT !["q"][p] = staged["q"][p] - 1]
      /\ UNCHANGED <<step, data, link, eastQ, out, seg, l3, east>>
  BY DEF GetQ, Goto
<1>2. staged \in [{"q", "r"} -> [PE -> 0 .. 1]] /\ op \in [PE -> Op]
  BY DEF TypeOK
<1>3. staged["q"][p] - 1 \in 0 .. 1
  BY <1>1, <1>2
<1>4. /\ staged' \in [{"q", "r"} -> [PE -> 0 .. 1]]
      /\ \A x \in {"q", "r"}, q \in PE :
           staged'[x][q] = IF x = "q" /\ q = p THEN staged["q"][p] - 1 ELSE staged[x][q]
  BY <1>1, <1>2, <1>3
<1>5. op' \in [PE -> Op] /\ op'[p] = "get_r" /\ \A q \in PE : q # p => op'[q] = op[q]
  BY <1>1, <1>2 DEF Op
<1>6. TypeOK'
  BY <1>1, <1>4, <1>5 DEF TypeOK, data
<1> QED BY <1>1, <1>4, <1>5, <1>6 DEF Others, Same, data

LEMMA GetRStep ==
  ASSUME TypeOK, NEW p \in PE, GetR(p)
  PROVE  /\ Others(p)
         /\ op[p] = "get_r" /\ op'[p] = (IF 0 = T THEN "done" ELSE "get") /\ step'[p] = 0
         /\ staged["r"][p] > 0
         /\ staged'["r"][p] = staged["r"][p] - 1 /\ staged'["q"][p] = staged["q"][p]
         /\ \A b \in Buf : /\ ghost'[p][b] = IF b = "prev" THEN 0 ELSE ghost[p][b]
                           /\ band'[p][b] = IF b = "prev" THEN 0 ELSE band[p][b]
         /\ UNCHANGED <<edgeIn, edgeOut, link, eastQ, out>>
<1>1. /\ op[p] = "get_r" /\ op' = [op EXCEPT ![p] = IF 0 = T THEN "done" ELSE "get"]
      /\ staged["r"][p] > 0 /\ step' = [step EXCEPT ![p] = 0]
      /\ staged' = [staged EXCEPT !["r"][p] = staged["r"][p] - 1]
      /\ ghost' = [ghost EXCEPT ![p]["prev"] = 0] /\ band' = [band EXCEPT ![p]["prev"] = 0]
      /\ UNCHANGED <<edgeIn, edgeOut, link, eastQ, out, seg, l3, east>>
  BY DEF GetR, EnterTrip, Goto
<1>2. /\ staged \in [{"q", "r"} -> [PE -> 0 .. 1]] /\ op \in [PE -> Op] /\ step \in [PE -> 0 .. T]
      /\ ghost \in [PE -> [Buf -> Row]] /\ band \in [PE -> [Buf -> Row]]
  BY DEF TypeOK
<1>3. staged["r"][p] - 1 \in 0 .. 1 /\ 0 \in Row /\ 0 \in 0 .. T
  BY <1>1, <1>2, Members
<1>4. /\ staged' \in [{"q", "r"} -> [PE -> 0 .. 1]]
      /\ \A x \in {"q", "r"}, q \in PE :
           staged'[x][q] = IF x = "r" /\ q = p THEN staged["r"][p] - 1 ELSE staged[x][q]
  BY <1>1, <1>2, <1>3
<1>5. /\ ghost' \in [PE -> [Buf -> Row]] /\ band' \in [PE -> [Buf -> Row]]
      /\ \A q \in PE, b \in Buf :
           /\ ghost'[q][b] = IF q = p /\ b = "prev" THEN 0 ELSE ghost[q][b]
           /\ band'[q][b] = IF q = p /\ b = "prev" THEN 0 ELSE band[q][b]
  BY <1>1, <1>2, <1>3, Members
<1>6. /\ op' \in [PE -> Op] /\ op'[p] = (IF 0 = T THEN "done" ELSE "get")
      /\ step' \in [PE -> 0 .. T] /\ step'[p] = 0
      /\ \A q \in PE : q # p => op'[q] = op[q] /\ step'[q] = step[q]
  BY <1>1, <1>2, <1>3 DEF Op
<1>7. TypeOK'
  BY <1>1, <1>4, <1>5, <1>6 DEF TypeOK
<1> QED BY <1>1, <1>4, <1>5, <1>6, <1>7 DEF Others, Same

LEMMA GetStep ==
  ASSUME TypeOK, NEW p \in PE, Head(link[p]) \in Row, Tail(link[p]) \in Seq(Row), Get(p)
  PROVE  /\ Others(p)
         /\ op[p] = "get" /\ op'[p] = "score" /\ link[p] # <<>>
         /\ edgeIn'[p] = Head(link[p]) /\ link'[p] = Tail(link[p])
         /\ \A q \in PE : q # p => link'[q] = link[q]
         /\ UNCHANGED <<step, ghost, band, edgeOut, staged, eastQ, out>>
<1>1. /\ op[p] = "get" /\ op' = [op EXCEPT ![p] = "score"] /\ link[p] # <<>>
      /\ edgeIn' = [edgeIn EXCEPT ![p] = Head(link[p])]
      /\ link' = [link EXCEPT ![p] = Tail(link[p])]
      /\ UNCHANGED <<step, ghost, band, edgeOut, staged, eastQ, out, seg, l3, east>>
  BY DEF Get, Goto
<1>2. op \in [PE -> Op] /\ edgeIn \in [PE -> Row] /\ link \in [PE -> Seq(Row)]
  BY DEF TypeOK
<1>3. /\ op' \in [PE -> Op] /\ edgeIn' \in [PE -> Row] /\ link' \in [PE -> Seq(Row)]
      /\ op'[p] = "score" /\ edgeIn'[p] = Head(link[p]) /\ link'[p] = Tail(link[p])
      /\ \A q \in PE : q # p => op'[q] = op[q] /\ edgeIn'[q] = edgeIn[q] /\ link'[q] = link[q]
  BY <1>1, <1>2 DEF Op
<1>4. TypeOK'
  BY <1>1, <1>3 DEF TypeOK
<1> QED BY <1>1, <1>3, <1>4 DEF Others, Same

LEMMA ScoreStep ==
  ASSUME TypeOK, NEW p \in PE, CtlOK(p), Score(p)
  PROVE  LET n == step[p]
             row == Scored(n, band[p][Previous(n)], ghost[p][Previous(n)], edgeIn[p])
         IN
         /\ Others(p)
         /\ op[p] = "score" /\ op'[p] = "put"
         /\ edgeOut'[p] = row
         /\ \A b \in Buf : /\ ghost'[p][b] = IF b = Current(n) THEN edgeIn[p] ELSE ghost[p][b]
                           /\ band'[p][b] = IF b = Current(n) THEN row ELSE band[p][b]
         /\ UNCHANGED <<step, edgeIn, fifos>>
<1> DEFINE n == step[p]
           c == Current(n)
           row == Scored(n, band[p][Previous(n)], ghost[p][Previous(n)], edgeIn[p])
<1>1. /\ op[p] = "score" /\ op' = [op EXCEPT ![p] = "put"]
      /\ edgeOut' = [edgeOut EXCEPT ![p] = row]
      /\ ghost' = [ghost EXCEPT ![p][c] = edgeIn[p]] /\ band' = [band EXCEPT ![p][c] = row]
      /\ UNCHANGED <<step, edgeIn, fifos, seg, l3, east>>
  BY DEF Score, Goto
<1>2. /\ op \in [PE -> Op] /\ edgeOut \in [PE -> Row] /\ edgeIn[p] \in Row
      /\ ghost \in [PE -> [Buf -> Row]] /\ band \in [PE -> [Buf -> Row]] /\ n \in 0 .. T
  BY DEF TypeOK
<1>3. row \in Row /\ c \in Buf
  <2>1. n \in Nat /\ n + 1 \in Row
    BY <1>1, <1>2, Members DEF CtlOK
  <2> QED BY <2>1, Members, BufType DEF Scored
<1> HIDE DEF c, row
<1>4. /\ ghost' \in [PE -> [Buf -> Row]] /\ band' \in [PE -> [Buf -> Row]]
      /\ \A q \in PE, b \in Buf :
           /\ ghost'[q][b] = IF q = p /\ b = c THEN edgeIn[p] ELSE ghost[q][b]
           /\ band'[q][b] = IF q = p /\ b = c THEN row ELSE band[q][b]
  BY <1>1, <1>2, <1>3
<1>5. /\ op' \in [PE -> Op] /\ edgeOut' \in [PE -> Row] /\ op'[p] = "put" /\ edgeOut'[p] = row
      /\ \A q \in PE : q # p => op'[q] = op[q] /\ edgeOut'[q] = edgeOut[q]
  BY <1>1, <1>2, <1>3 DEF Op
<1>6. TypeOK'
  BY <1>1, <1>4, <1>5 DEF TypeOK, fifos
<1> QED BY <1>1, <1>4, <1>5, <1>6 DEF Others, Same, c, row, fifos

LEMMA PutStep ==
  ASSUME TypeOK, NEW p \in PE, Put(p),
         p = Last => Append(eastQ, edgeOut[p]) \in Seq(Row),
         p < Last => Append(link[p + 1], edgeOut[p]) \in Seq(Row)
  PROVE  /\ Others(p)
         /\ op[p] = "put" /\ op'[p] = "drain"
         /\ p = Last => eastQ' = Append(eastQ, edgeOut[p])
         /\ p < Last => eastQ' = eastQ /\ link'[p + 1] = Append(link[p + 1], edgeOut[p])
         /\ \A q \in PE : q # p + 1 => link'[q] = link[q]
         /\ UNCHANGED <<step, data, staged, out>>
<1>1. /\ op[p] = "put" /\ op' = [op EXCEPT ![p] = "drain"]
      /\ IF p = Last
         THEN eastQ' = Append(eastQ, edgeOut[p]) /\ UNCHANGED link
         ELSE link' = [link EXCEPT ![p + 1] = Append(link[p + 1], edgeOut[p])] /\ UNCHANGED eastQ
      /\ UNCHANGED <<step, data, staged, out, seg, l3, east>>
  BY DEF Put, Goto
<1>2. op \in [PE -> Op] /\ link \in [PE -> Seq(Row)] /\ eastQ \in Seq(Row)
  BY DEF TypeOK
<1>3. op' \in [PE -> Op] /\ op'[p] = "drain" /\ \A q \in PE : q # p => op'[q] = op[q]
  BY <1>1, <1>2 DEF Op
<1>4. /\ link' \in [PE -> Seq(Row)] /\ eastQ' \in Seq(Row)
      /\ p = Last => eastQ' = Append(eastQ, edgeOut[p])
      /\ p < Last => eastQ' = eastQ /\ link'[p + 1] = Append(link[p + 1], edgeOut[p])
      /\ \A q \in PE : q # p + 1 => link'[q] = link[q]
  <2>1. CASE p = Last
    <3>1. link' = link /\ eastQ' = Append(eastQ, edgeOut[p])
      BY <1>1, <2>1
    <3> QED BY <1>2, <2>1, <3>1, Members
  <2>2. CASE p < Last
    <3>1. /\ link' = [link EXCEPT ![p + 1] = Append(link[p + 1], edgeOut[p])] /\ eastQ' = eastQ
          /\ p + 1 \in PE
      BY <1>1, <2>2, Members
    <3>2. link' \in [PE -> Seq(Row)]
      BY <1>2, <2>2, <3>1
    <3>3. link'[p + 1] = Append(link[p + 1], edgeOut[p]) /\ \A q \in PE : q # p + 1 => link'[q] = link[q]
      BY <1>2, <2>2, <3>1
    <3> QED BY <1>2, <2>2, <3>1, <3>2, <3>3, Members
  <2> QED BY <2>1, <2>2, Members
<1>5. TypeOK'
  BY <1>1, <1>3, <1>4 DEF TypeOK, data
<1> QED BY <1>1, <1>3, <1>4, <1>5 DEF Others, Same, data

LEMMA DrainStep ==
  ASSUME TypeOK, NEW p \in PE, CtlOK(p), Drain(p),
         Append(out[p], band[p][Current(step[p])]) \in Seq(Row)
  PROVE  /\ Others(p)
         /\ op[p] = "drain" /\ op'[p] = (IF step[p] + 1 = T THEN "done" ELSE "get")
         /\ step'[p] = step[p] + 1
         /\ out'[p] = Append(out[p], band[p][Current(step[p])])
         /\ UNCHANGED <<data, staged, link, eastQ>>
<1> DEFINE row == band[p][Current(step[p])]
<1>1. /\ op[p] = "drain" /\ op' = [op EXCEPT ![p] = IF step[p] + 1 = T THEN "done" ELSE "get"]
      /\ step' = [step EXCEPT ![p] = step[p] + 1]
      /\ out' = [out EXCEPT ![p] = Append(out[p], row)]
      /\ UNCHANGED <<data, staged, link, eastQ, seg, l3, east>>
  BY DEF Drain, EnterTrip, Goto
<1>2. op \in [PE -> Op] /\ step \in [PE -> 0 .. T] /\ out \in [PE -> Seq(Row)]
  BY DEF TypeOK
<1>3. step[p] + 1 \in 0 .. T
  BY <1>1, <1>2 DEF CtlOK
<1> HIDE DEF row
<1>4. /\ op' \in [PE -> Op] /\ step' \in [PE -> 0 .. T]
      /\ op'[p] = (IF step[p] + 1 = T THEN "done" ELSE "get") /\ step'[p] = step[p] + 1
      /\ \A q \in PE : q # p => op'[q] = op[q] /\ step'[q] = step[q]
  BY <1>1, <1>2, <1>3 DEF Op
<1>5. out' \in [PE -> Seq(Row)] /\ out'[p] = Append(out[p], row)
      /\ \A q \in PE : q # p => out'[q] = out[q]
  BY <1>1, <1>2 DEF row
<1>6. TypeOK'
  BY <1>1, <1>4, <1>5 DEF TypeOK, data
<1> QED BY <1>1, <1>4, <1>5, <1>6 DEF Others, Same, data, row

-----------------------------------------------------------------------------
(* The invariant holds initially.                                           *)

LEMMA InitInv == Init => IInv
<1> SUFFICES ASSUME Init PROVE IInv
  OBVIOUS
<1> USE DEF Init
<1>1. TypeOK
  BY Members DEF TypeOK, Op, SegOp, Largest
<1>2. SegOK /\ \A p \in PE : CtlOK(p) /\ StagedOK(p)
  BY DEF SegOK, CtlOK, StagedOK, Staging, Served
<1>3. /\ WestSent = 0 /\ EastTaken = 0
      /\ \A p \in PE : OutTaken(p) = 0 /\ Taken(p) = 0 /\ Sent(p) = 0 /\ Arrived(p) = 0
  BY Members DEF WestSent, EastTaken, OutTaken, Taken, Sent, Arrived
<1>4. EastQOK /\ \A p \in PE : LinkOK(p) /\ OutOK(p)
  BY <1>3, Members DEF EastQOK, LinkOK, OutOK, Holds
<1>5. \A p \in PE : BandOK(p)
  BY DEF BandOK, RowsScored, AfterScore, Staging, Junk
<1>6. EastOK /\ \A p \in PE : L3OK(p)
  BY <1>3, Members DEF EastOK, L3OK
<1> QED BY <1>1, <1>2, <1>4, <1>5, <1>6 DEF IInv

-----------------------------------------------------------------------------
(* A step of a PE keeps the invariant if it keeps the PE's part of it and    *)
(* what it has put for its east neighbour.                                  *)

LEMMA HerdKeeps ==
  ASSUME IInv, NEW p \in PE, Others(p),
         CtlOK(p)', StagedOK(p)', LinkOK(p)', OutOK(p)', BandOK(p)', EastQOK',
         \A q \in PE : q # p /\ q # p + 1 => link'[q] = link[q],
         p < Last => LinkOK(p + 1)'
  PROVE  IInv'
<1>1. /\ TypeOK' /\ seg' = seg /\ l3' = l3 /\ east' = east
      /\ \A q \in PE : q # p => Same(q)
  BY DEF Others
<1>2. ASSUME NEW q \in PE, q # p
      PROVE  CtlOK(q)' /\ StagedOK(q)' /\ OutOK(q)' /\ BandOK(q)'
  <2>1. Same(q) /\ CtlOK(q) /\ StagedOK(q) /\ OutOK(q) /\ BandOK(q)
    BY <1>1, <1>2, Parts
  <2>2. CtlOK(q)'
    BY <2>1 DEF Same, CtlOK, Staging
  <2>3. StagedOK(q)'
    BY <1>1, <2>1 DEF Same, StagedOK, Staging, Served
  <2>4. OutOK(q)'
    BY <1>1, <2>1 DEF Same, OutOK, OutTaken
  <2>5. BandOK(q)'
    <3>1. step[q] \in Nat
      BY Parts
    <3> QED BY <2>1, <3>1, BufType DEF Same, BandOK, RowsScored, AfterScore, Staging
  <2> QED BY <2>2, <2>3, <2>4, <2>5
<1>3. ASSUME NEW q \in PE, q # p PROVE LinkOK(q)'
  <2>1. CASE q = p + 1
    BY <2>1, Members
  <2>2. CASE q # p + 1
    <3>1. link'[q] = link[q] /\ Same(q) /\ LinkOK(q)
      BY <1>1, <1>3, <2>2, Parts
    <3>2. Taken(q)' = Taken(q)
      BY <3>1 DEF Taken, Same
    <3>3. Arrived(q)' = Arrived(q)
      <4>1. CASE q = 0
        BY <1>1, <4>1 DEF Arrived, WestSent
      <4>2. CASE q # 0
        <5>1. q - 1 \in PE /\ q - 1 # p
          BY <2>2, <4>2, Members
        <5> QED BY <1>1, <4>2, <5>1 DEF Same, Arrived, Sent
      <4> QED BY <4>1, <4>2
    <3> QED BY <3>1, <3>2, <3>3 DEF LinkOK
  <2> QED BY <2>1, <2>2
<1>4. \A q \in PE : L3OK(q)'
  BY <1>1, Parts DEF L3OK, OutTaken
<1>5. SegOK' /\ EastOK'
  BY <1>1, Parts DEF SegOK, EastOK, EastTaken
<1> QED BY <1>1, <1>2, <1>3, <1>4, <1>5 DEF IInv

\* A step that puts no edge leaves the queues of the edges, other than p's own.
LEMMA QuietPuts ==
  ASSUME IInv, NEW p \in PE, Others(p), Sent(p)' = Sent(p), eastQ' = eastQ,
         \A q \in PE : q # p => link'[q] = link[q]
  PROVE  EastQOK' /\ (p < Last => LinkOK(p + 1)')
<1>1. seg' = seg /\ \A q \in PE : q # p => Same(q)
  BY DEF Others
<1>2. \A q \in PE : Sent(q)' = Sent(q)
  BY <1>1 DEF Same, Sent
<1>3. EastQOK'
  BY <1>1, <1>2, Parts, Members DEF EastQOK, EastTaken
<1>4. ASSUME p < Last PROVE LinkOK(p + 1)'
  <2>1. p + 1 \in PE /\ p + 1 # p /\ p + 1 # 0 /\ (p + 1) - 1 = p
    BY <1>4, Members
  <2>2. LinkOK(p + 1) /\ Same(p + 1) /\ link'[p + 1] = link[p + 1]
    BY <1>1, <2>1, Parts
  <2>3. Taken(p + 1)' = Taken(p + 1) /\ Arrived(p + 1)' = Arrived(p + 1)
    BY <1>2, <2>1, <2>2 DEF Same, Taken, Arrived
  <2> QED BY <2>2, <2>3 DEF LinkOK
<1> QED BY <1>3, <1>4

\* What the far end of a link has put does not change under p's own step.
LEMMA QuietArrivals ==
  ASSUME IInv, NEW p \in PE, Others(p)
  PROVE  Arrived(p)' = Arrived(p) /\ OutTaken(p)' = OutTaken(p) /\ Served(p)' = Served(p)
<1>1. seg' = seg /\ \A q \in PE : q # p => Same(q)
  BY DEF Others
<1>2. Arrived(p)' = Arrived(p)
  <2>1. CASE p = 0
    BY <1>1, <2>1 DEF Arrived, WestSent
  <2>2. CASE p # 0
    <3>1. p - 1 \in PE /\ p - 1 # p
      BY <2>2, Members
    <3> QED BY <1>1, <2>2, <3>1 DEF Same, Arrived, Sent
  <2> QED BY <2>1, <2>2
<1> QED BY <1>1, <1>2 DEF OutTaken, Served

LEMMA GetQInv == ASSUME IInv, NEW p \in PE, GetQ(p) PROVE IInv'
<1>1. /\ Others(p) /\ op[p] = "get_q" /\ op'[p] = "get_r" /\ staged["q"][p] > 0
      /\ staged'["q"][p] = staged["q"][p] - 1 /\ staged'["r"][p] = staged["r"][p]
      /\ UNCHANGED <<step, data, link, eastQ, out>>
  BY GetQStep, Parts
<1>2. CtlOK(p) /\ StagedOK(p) /\ LinkOK(p) /\ OutOK(p) /\ BandOK(p)
      /\ Arrived(p)' = Arrived(p) /\ OutTaken(p)' = OutTaken(p) /\ Served(p)' = Served(p)
      /\ seg' = seg
  BY <1>1, Parts, QuietArrivals DEF Others
<1>3. CtlOK(p)' /\ StagedOK(p)'
  BY <1>1, <1>2 DEF CtlOK, StagedOK, Staging
<1>4. LinkOK(p)' /\ OutOK(p)'
  BY <1>1, <1>2 DEF LinkOK, OutOK, Taken
<1>5. BandOK(p)'
  BY <1>1, <1>2 DEF BandOK, RowsScored, AfterScore, Staging, data
<1>6. Sent(p)' = Sent(p)
  BY <1>1 DEF Sent
<1> QED BY <1>1, <1>3, <1>4, <1>5, <1>6, HerdKeeps, QuietPuts

LEMMA GetRInv == ASSUME IInv, NEW p \in PE, GetR(p) PROVE IInv'
<1>1. /\ Others(p)
      /\ op[p] = "get_r" /\ op'[p] = (IF 0 = T THEN "done" ELSE "get") /\ step'[p] = 0
      /\ staged["r"][p] > 0
      /\ staged'["r"][p] = staged["r"][p] - 1 /\ staged'["q"][p] = staged["q"][p]
      /\ \A b \in Buf : /\ ghost'[p][b] = IF b = "prev" THEN 0 ELSE ghost[p][b]
                        /\ band'[p][b] = IF b = "prev" THEN 0 ELSE band[p][b]
      /\ UNCHANGED <<edgeIn, edgeOut, link, eastQ, out>>
  BY GetRStep, Parts
<1>2. CtlOK(p) /\ StagedOK(p) /\ LinkOK(p) /\ OutOK(p) /\ BandOK(p)
      /\ Arrived(p)' = Arrived(p) /\ OutTaken(p)' = OutTaken(p) /\ Served(p)' = Served(p)
      /\ seg' = seg
  BY <1>1, Parts, QuietArrivals DEF Others
<1>3. step[p] = 0
  BY <1>1, <1>2 DEF CtlOK, Staging
<1>4. CtlOK(p)' /\ StagedOK(p)'
  BY <1>1, <1>2 DEF CtlOK, StagedOK, Staging
<1>5. LinkOK(p)' /\ OutOK(p)' /\ Sent(p)' = Sent(p)
  BY <1>1, <1>2, <1>3 DEF LinkOK, OutOK, Taken, Sent
<1>6. BandOK(p)'
  <2>1. \A b \in Buf : band[p][b] <= 0
    BY <1>1, <1>2, <1>3 DEF BandOK, RowsScored, AfterScore
  <2>2. RowsScored(p)' = 0 /\ ~AfterScore(p)' /\ op'[p] # "score"
    BY <1>1 DEF RowsScored, AfterScore
  <2> QED BY <1>1, <2>1, <2>2, FirstTrip, Members DEF BandOK
<1> QED BY <1>1, <1>4, <1>5, <1>6, HerdKeeps, QuietPuts

LEMMA GetInv == ASSUME IInv, NEW p \in PE, Get(p) PROVE IInv'
<1>0. op[p] = "get" /\ link[p] # <<>>
  BY DEF Get
<1>1. /\ Head(link[p]) = step[p] + 1 /\ step[p] + 1 \in Row
      /\ Tail(link[p]) \in Seq(Row) /\ Holds(Tail(link[p]), step[p] + 1, Arrived(p))
  <2>1. LinkOK(p) /\ Taken(p) = step[p] /\ link[p] \in Seq(Row) /\ Taken(p) \in Int /\ Arrived(p) \in Int
    BY <1>0, Parts, EndTypes DEF Taken
  <2> QED BY <1>0, <2>1, HoldsTail DEF LinkOK
<1>2. /\ Others(p) /\ op'[p] = "score"
      /\ edgeIn'[p] = Head(link[p]) /\ link'[p] = Tail(link[p])
      /\ \A q \in PE : q # p => link'[q] = link[q]
      /\ UNCHANGED <<step, ghost, band, edgeOut, staged, eastQ, out>>
  BY <1>1, GetStep, Parts
<1>3. CtlOK(p) /\ StagedOK(p) /\ OutOK(p) /\ BandOK(p)
      /\ Arrived(p)' = Arrived(p) /\ OutTaken(p)' = OutTaken(p) /\ Served(p)' = Served(p)
      /\ seg' = seg
  BY <1>2, Parts, QuietArrivals DEF Others
<1>4. CtlOK(p)' /\ StagedOK(p)' /\ OutOK(p)'
  BY <1>0, <1>2, <1>3 DEF CtlOK, StagedOK, OutOK, Staging
<1>5. LinkOK(p)' /\ Sent(p)' = Sent(p)
  BY <1>0, <1>1, <1>2, <1>3 DEF LinkOK, Taken, Sent
<1>6. BandOK(p)'
  BY <1>0, <1>1, <1>2, <1>3 DEF BandOK, RowsScored, AfterScore, Staging
<1> QED BY <1>2, <1>4, <1>5, <1>6, HerdKeeps, QuietPuts

LEMMA ScoreInv == ASSUME IInv, NEW p \in PE, Score(p) PROVE IInv'
<1> DEFINE n == step[p]
           row == Scored(n, band[p][Previous(n)], ghost[p][Previous(n)], edgeIn[p])
<1>1. /\ Others(p) /\ op[p] = "score" /\ op'[p] = "put" /\ edgeOut'[p] = row
      /\ \A b \in Buf : /\ ghost'[p][b] = IF b = Current(n) THEN edgeIn[p] ELSE ghost[p][b]
                        /\ band'[p][b] = IF b = Current(n) THEN row ELSE band[p][b]
      /\ UNCHANGED <<step, edgeIn, fifos>>
  BY ScoreStep, Parts
<1>2. CtlOK(p) /\ StagedOK(p) /\ LinkOK(p) /\ OutOK(p) /\ BandOK(p) /\ n \in Nat
      /\ Arrived(p)' = Arrived(p) /\ OutTaken(p)' = OutTaken(p) /\ Served(p)' = Served(p)
      /\ seg' = seg
  BY <1>1, Parts, QuietArrivals DEF Others
<1>3. row = n + 1 /\ edgeIn[p] = n + 1
  BY <1>1, <1>2 DEF BandOK, Staging, Scored, Ready
<1> HIDE DEF row
<1>4. CtlOK(p)' /\ StagedOK(p)' /\ OutOK(p)' /\ LinkOK(p)' /\ Sent(p)' = Sent(p)
      /\ UNCHANGED <<link, eastQ>>
  BY <1>1, <1>2 DEF CtlOK, StagedOK, OutOK, LinkOK, Taken, Sent, Staging, fifos
<1>5. BandOK(p)'
  <2>1. RowsScored(p) = n /\ RowsScored(p)' = n + 1
    BY <1>1, <1>2 DEF RowsScored, AfterScore
  <2>2. \A b \in Buf : band'[p][b] <= n + 1
    <3>1. \A b \in Buf : band[p][b] \in Int /\ band[p][b] <= n
      BY <1>2, <2>1, Members, Parts DEF BandOK
    <3> QED BY <1>1, <1>2, <1>3, <3>1
  <2>3. Current(n) \in Buf /\ Previous(n) \in Buf /\ Previous(n) # Current(n)
    BY <1>2, BufType
  <2>4. band[p][Previous(n)] = n /\ ghost[p][Previous(n)] = n
    BY <1>1, <1>2 DEF BandOK, Staging
  <2>5. /\ band'[p][Current(n)] = n + 1 /\ ghost'[p][Current(n)] = n + 1
        /\ band'[p][Previous(n)] = n /\ ghost'[p][Previous(n)] = n
        /\ step'[p] = n
    BY <1>1, <1>3, <2>3, <2>4
  <2> HIDE DEF n
  <2> QED BY <1>1, <1>3, <2>1, <2>2, <2>3, <2>5 DEF BandOK, Staging
<1> QED BY <1>1, <1>4, <1>5, HerdKeeps, QuietPuts

LEMMA PutInv == ASSUME IInv, NEW p \in PE, Put(p) PROVE IInv'
<1>0. op[p] = "put" /\ CtlOK(p) /\ StagedOK(p) /\ LinkOK(p) /\ OutOK(p) /\ BandOK(p)
      /\ step[p] \in Nat /\ Sent(p) = step[p] /\ edgeOut[p] = step[p] + 1 /\ edgeOut[p] \in Row
  BY Parts DEF Put, BandOK, AfterScore, Sent
<1>1. p = Last => /\ Append(eastQ, edgeOut[p]) \in Seq(Row)
                  /\ Holds(Append(eastQ, edgeOut[p]), EastTaken, step[p] + 1)
  <2>1. EastQOK /\ EastTaken \in Int /\ eastQ \in Seq(Row)
    BY Parts, EndTypes
  <2> QED BY <1>0, <2>1, HoldsAppend DEF EastQOK
<1>2. p < Last => /\ p + 1 \in PE
                  /\ Append(link[p + 1], edgeOut[p]) \in Seq(Row)
                  /\ Holds(Append(link[p + 1], edgeOut[p]), Taken(p + 1), step[p] + 1)
  <2> SUFFICES ASSUME p < Last
               PROVE  /\ p + 1 \in PE
                      /\ Append(link[p + 1], edgeOut[p]) \in Seq(Row)
                      /\ Holds(Append(link[p + 1], edgeOut[p]), Taken(p + 1), step[p] + 1)
    OBVIOUS
  <2>1. p + 1 \in PE /\ p + 1 # 0 /\ (p + 1) - 1 = p
    BY Members
  <2>2. LinkOK(p + 1) /\ Taken(p + 1) \in Int /\ link[p + 1] \in Seq(Row)
    BY <2>1, Parts, EndTypes
  <2>3. Holds(link[p + 1], Taken(p + 1), step[p])
    BY <1>0, <2>1, <2>2 DEF LinkOK, Arrived
  <2> QED BY <1>0, <2>1, <2>2, <2>3, HoldsAppend
<1>3. /\ Others(p) /\ op'[p] = "drain"
      /\ p = Last => eastQ' = Append(eastQ, edgeOut[p])
      /\ p < Last => eastQ' = eastQ /\ link'[p + 1] = Append(link[p + 1], edgeOut[p])
      /\ \A q \in PE : q # p + 1 => link'[q] = link[q]
      /\ UNCHANGED <<step, data, staged, out>>
  BY <1>1, <1>2, PutStep, Parts
<1>4. Arrived(p)' = Arrived(p) /\ OutTaken(p)' = OutTaken(p) /\ Served(p)' = Served(p)
      /\ seg' = seg /\ link'[p] = link[p] /\ \A q \in PE : q # p => Same(q)
  BY <1>3, QuietArrivals, Members DEF Others
<1>5. CtlOK(p)' /\ StagedOK(p)' /\ OutOK(p)' /\ LinkOK(p)'
  BY <1>0, <1>3, <1>4 DEF CtlOK, StagedOK, OutOK, LinkOK, Taken, Staging
<1>6. BandOK(p)'
  BY <1>0, <1>3 DEF BandOK, RowsScored, AfterScore, Staging, data
<1>7. Sent(p)' = step[p] + 1
  BY <1>0, <1>3 DEF Sent
<1>8. EastQOK'
  <2>1. EastTaken' = EastTaken
    BY <1>4 DEF EastTaken
  <2>2. CASE p = Last
    BY <1>1, <1>3, <1>7, <2>1, <2>2 DEF EastQOK
  <2>3. CASE p < Last
    <3>1. Sent(Last)' = Sent(Last)
      BY <1>4, <2>3, Members DEF Same, Sent
    <3> QED BY <1>3, <2>1, <2>3, <3>1, Parts DEF EastQOK
  <2> QED BY <2>2, <2>3, Members
<1>9. ASSUME p < Last PROVE LinkOK(p + 1)'
  <2>1. p + 1 \in PE /\ p + 1 # 0 /\ (p + 1) - 1 = p /\ p + 1 # p
    BY <1>9, Members
  <2>2. Arrived(p + 1)' = step[p] + 1
    BY <1>7, <2>1 DEF Arrived
  <2>3. Taken(p + 1)' = Taken(p + 1)
    BY <1>4, <2>1 DEF Same, Taken
  <2> QED BY <1>2, <1>3, <1>9, <2>2, <2>3 DEF LinkOK
<1> QED BY <1>3, <1>5, <1>6, <1>8, <1>9, HerdKeeps

LEMMA DrainInv == ASSUME IInv, NEW p \in PE, Drain(p) PROVE IInv'
<1> DEFINE n == step[p]
<1>0. op[p] = "drain" /\ CtlOK(p) /\ StagedOK(p) /\ LinkOK(p) /\ OutOK(p) /\ BandOK(p)
      /\ n \in Nat /\ n < T /\ band[p][Current(n)] = n + 1 /\ band[p][Current(n)] \in Row
  BY Parts, BufType DEF Drain, BandOK, AfterScore, CtlOK
<1>1. /\ Append(out[p], band[p][Current(n)]) \in Seq(Row)
      /\ Holds(Append(out[p], band[p][Current(n)]), OutTaken(p), n + 1)
  <2>1. OutTaken(p) \in Int /\ out[p] \in Seq(Row) /\ n + 1 \in Row
    BY <1>0, Parts, EndTypes
  <2> QED BY <1>0, <2>1, HoldsAppend DEF OutOK
<1>2. /\ Others(p) /\ op'[p] = (IF n + 1 = T THEN "done" ELSE "get") /\ step'[p] = n + 1
      /\ out'[p] = Append(out[p], band[p][Current(n)])
      /\ UNCHANGED <<data, staged, link, eastQ>>
  BY <1>1, DrainStep, Parts
<1>3. Arrived(p)' = Arrived(p) /\ OutTaken(p)' = OutTaken(p) /\ Served(p)' = Served(p)
      /\ seg' = seg
  BY <1>2, QuietArrivals DEF Others
<1>4. CtlOK(p)' /\ StagedOK(p)'
  BY <1>0, <1>2, <1>3 DEF CtlOK, StagedOK, Staging
<1>5. OutOK(p)'
  BY <1>1, <1>2, <1>3 DEF OutOK
<1>6. LinkOK(p)' /\ Sent(p)' = Sent(p)
  BY <1>0, <1>2, <1>3 DEF LinkOK, Taken, Sent
<1>7. BandOK(p)'
  <2>1. RowsScored(p) = n + 1 /\ RowsScored(p)' = n + 1 /\ ~AfterScore(p)' /\ op'[p] # "score"
    BY <1>0, <1>2 DEF RowsScored, AfterScore
  <2>2. \A b \in Buf : band[p][b] <= n + 1
    BY <1>0, <2>1 DEF BandOK
  <2>3. Current(n) \in Buf /\ ghost[p][Current(n)] = n + 1
    BY <1>0, BufType DEF BandOK, AfterScore
  <2>4. op'[p] # "done" => Previous(n + 1) = Current(n)
    BY <1>0, <1>2, SwapsEachTrip
  <2> QED BY <1>0, <1>2, <2>1, <2>2, <2>3, <2>4 DEF BandOK, data
<1> QED BY <1>2, <1>4, <1>5, <1>6, <1>7, HerdKeeps, QuietPuts

-----------------------------------------------------------------------------
(* The segment.  Its steps touch no PE: what changes is what it has put and  *)
(* taken back.                                                              *)

LEMMA SegKeeps ==
  ASSUME IInv, TypeOK', SegOK', EastQOK', EastOK', UNCHANGED <<op, step, data>>,
         \A p \in PE : StagedOK(p)' /\ LinkOK(p)' /\ OutOK(p)' /\ L3OK(p)'
  PROVE  IInv'
<1>1. \A p \in PE : CtlOK(p)' /\ BandOK(p)'
  BY Parts DEF CtlOK, BandOK, Staging, RowsScored, AfterScore, data
<1> QED BY <1>1 DEF IInv

\* Nothing a PE has put or taken changes under a step of the segment.
LEMMA SegQuiet ==
  ASSUME UNCHANGED <<op, step>>
  PROVE  \A p \in PE : Taken(p)' = Taken(p) /\ Sent(p)' = Sent(p)
BY DEF Taken, Sent

\* What the segment has not put or taken stays as it is.
LEMMA SegSame ==
  ASSUME IInv, UNCHANGED <<op, step>>, NEW p \in PE
  PROVE  /\ link'[p] = link[p] /\ (p = 0 => WestSent' = WestSent) => LinkOK(p)'
         /\ out'[p] = out[p] /\ OutTaken(p)' = OutTaken(p) => OutOK(p)'
         /\ l3' = l3 /\ OutTaken(p)' = OutTaken(p) => L3OK(p)'
         /\ eastQ' = eastQ /\ EastTaken' = EastTaken => EastQOK'
         /\ east' = east /\ EastTaken' = EastTaken => EastOK'
<1>1. LinkOK(p) /\ OutOK(p) /\ L3OK(p) /\ EastQOK /\ EastOK
  BY Parts
<1>2. Taken(p)' = Taken(p) /\ \A q \in PE : Sent(q)' = Sent(q)
  BY SegQuiet
<1>3. (p = 0 => WestSent' = WestSent) => Arrived(p)' = Arrived(p)
  BY <1>2, Members DEF Arrived
<1>4. link'[p] = link[p] /\ (p = 0 => WestSent' = WestSent) => LinkOK(p)'
  BY <1>1, <1>2, <1>3 DEF LinkOK
<1>5. out'[p] = out[p] /\ OutTaken(p)' = OutTaken(p) => OutOK(p)'
  BY <1>1 DEF OutOK
<1>6. l3' = l3 /\ OutTaken(p)' = OutTaken(p) => L3OK(p)'
  BY <1>1 DEF L3OK
<1>7. eastQ' = eastQ /\ EastTaken' = EastTaken => EastQOK'
  BY <1>1, <1>2, Places DEF EastQOK
<1>8. east' = east /\ EastTaken' = EastTaken => EastOK'
  BY <1>1 DEF EastOK
<1> QED BY <1>4, <1>5, <1>6, <1>7, <1>8

\* The segment stays in its types wherever its steps take it.
LEMMA SegTypes ==
  /\ 1 \in 1 .. Largest(T, 1)
  /\ \A r \in Nat : r + 1 <= T => r + 1 \in 1 .. Largest(T, 1)
  /\ \A o \in SegOp, p \in PE, r \in 1 .. Largest(T, 1) :
       [op |-> o, pe |-> p, row |-> r] \in [op : SegOp, pe : PE, row : 1 .. Largest(T, 1)]
BY DEF Largest

\* Where a loop over the rows goes next.
LEMMA RowStep ==
  ASSUME TypeOK, SegOK, seg.op \in {"west", "east"}, NEW o \in {"east", "drain"}, NextRow(o)
  PROVE  /\ seg' \in [op : SegOp, pe : PE, row : 1 .. Largest(T, 1)]
         /\ seg.row < T => seg'.op = seg.op /\ seg'.pe = 0 /\ seg'.row = seg.row + 1
         /\ ~(seg.row < T) => seg'.op = o /\ seg'.pe = 0 /\ seg'.row = 1 /\ seg.row = T
         /\ T > 0 /\ seg.row \in Nat /\ seg.row >= 1
<1>1. /\ seg \in [op : SegOp, pe : PE, row : 1 .. Largest(T, 1)]
      /\ T > 0 /\ seg.pe = 0 /\ seg.row \in 1 .. T
  BY DEF TypeOK, SegOK, Largest
<1>2. CASE seg.row < T
  <2>1. seg' = [seg EXCEPT !.row = seg.row + 1]
    BY <1>2 DEF NextRow
  <2>2. seg.row + 1 \in 1 .. Largest(T, 1)
    BY <1>1, <1>2, SegTypes
  <2> QED BY <1>1, <1>2, <2>1, <2>2
<1>3. CASE ~(seg.row < T)
  <2>1. seg' = [op |-> o, pe |-> 0, row |-> 1]
    BY <1>1, <1>3 DEF NextRow, SegGoto
  <2> QED BY <1>1, <1>3, <2>1, SegTypes, Members DEF SegOp
<1> QED BY <1>2, <1>3

LEMMA SegPutQInv == ASSUME IInv, SegPutQ PROVE IInv'
<1>1. /\ seg.op = "put_q" /\ staged' = [staged EXCEPT !["q"] = [p \in PE |-> staged["q"][p] + 1]]
      /\ seg' = [op |-> "put_r", pe |-> 0, row |-> 1]
      /\ UNCHANGED <<op, step, data, link, eastQ, out, l3, east>>
  BY DEF SegPutQ, SegGoto
<1>2. /\ staged \in [{"q", "r"} -> [PE -> 0 .. 1]]
      /\ \A p \in PE : StagedOK(p) /\ staged["q"][p] = 0
  BY <1>1, Parts DEF TypeOK, StagedOK
<1>3. /\ staged' \in [{"q", "r"} -> [PE -> 0 .. 1]]
      /\ \A p \in PE : staged'["q"][p] = 1 /\ staged'["r"][p] = staged["r"][p]
  BY <1>1, <1>2
<1>4. seg' \in [op : SegOp, pe : PE, row : 1 .. Largest(T, 1)]
      /\ seg'.op = "put_r" /\ seg'.pe = 0 /\ seg'.row = 1
  BY <1>1, SegTypes, Members DEF SegOp
<1>5. TypeOK' /\ SegOK'
  BY <1>1, <1>3, <1>4, Parts DEF TypeOK, SegOK, data
<1>6. /\ WestSent' = WestSent /\ EastTaken' = EastTaken
      /\ \A p \in PE : OutTaken(p)' = OutTaken(p) /\ ~Served(p) /\ ~Served(p)'
  <2>1. WestSent' = WestSent /\ EastTaken' = EastTaken
    BY <1>1, <1>4 DEF WestSent, EastTaken
  <2>2. \A p \in PE : OutTaken(p)' = OutTaken(p)
    BY <1>1, <1>4 DEF OutTaken
  <2>3. \A p \in PE : ~Served(p) /\ ~Served(p)'
    BY <1>1, <1>4, Places DEF Served
  <2> QED BY <2>1, <2>2, <2>3
<1>7. \A p \in PE : StagedOK(p)'
  BY <1>1, <1>2, <1>3, <1>4, <1>6 DEF StagedOK, Staging
<1>8. \A p \in PE : LinkOK(p)' /\ OutOK(p)' /\ L3OK(p)'
  BY <1>1, <1>6, SegSame
<1>9. EastQOK' /\ EastOK'
  BY <1>1, <1>6, SegSame, Places
<1> QED BY <1>1, <1>5, <1>7, <1>8, <1>9, SegKeeps

LEMMA SegPutRInv == ASSUME IInv, SegPutR PROVE IInv'
<1> DEFINE e == seg.pe
<1>0. e \in PE /\ seg.row = 1 /\ seg \in [op : SegOp, pe : PE, row : 1 .. Largest(T, 1)]
  BY Parts DEF SegOK, SegPutR, TypeOK
<1>1. /\ seg.op = "put_r" /\ staged' = [staged EXCEPT !["r"][e] = staged["r"][e] + 1]
      /\ UNCHANGED <<op, step, data, link, eastQ, out, l3, east>>
  BY DEF SegPutR
<1>2. /\ seg' \in [op : SegOp, pe : PE, row : 1 .. Largest(T, 1)] /\ seg'.row = 1
      /\ e < Last => seg'.op = "put_r" /\ seg'.pe = e + 1
      /\ e = Last => seg'.pe = 0 /\ seg'.op = IF T = 0 THEN "done" ELSE "west"
  <2>1. CASE e < Last
    <3>1. seg' = [seg EXCEPT !.pe = e + 1] /\ e + 1 \in PE
      BY <1>0, <2>1, Members DEF SegPutR
    <3> QED BY <1>0, <1>1, <2>1, <3>1, Members
  <2>2. CASE e = Last
    <3>1. seg' = [op |-> IF T = 0 THEN "done" ELSE "west", pe |-> 0, row |-> 1]
      BY <1>0, <2>2, Members DEF SegPutR, SegGoto
    <3> QED BY <2>2, <3>1, SegTypes, Members DEF SegOp
  <2> QED BY <1>0, <2>1, <2>2, Members
<1>3. /\ staged \in [{"q", "r"} -> [PE -> 0 .. 1]]
      /\ \A p \in PE : StagedOK(p) /\ op[p] \in Op
      /\ staged["r"][e] = 0
  <2>1. /\ staged \in [{"q", "r"} -> [PE -> 0 .. 1]]
        /\ \A p \in PE : StagedOK(p) /\ op[p] \in Op
    BY Parts DEF TypeOK
  <2>2. e \in Nat /\ StagedOK(e)
    BY <1>0, <2>1, Places
  <2>3. ~Served(e)
    BY <1>1, <2>2 DEF Served
  <2> QED BY <2>1, <2>2, <2>3 DEF StagedOK
<1>4. /\ staged' \in [{"q", "r"} -> [PE -> 0 .. 1]]
      /\ \A p \in PE : /\ staged'["q"][p] = staged["q"][p]
                       /\ staged'["r"][p] = IF p = e THEN 1 ELSE staged["r"][p]
  BY <1>0, <1>1, <1>3
<1>5. TypeOK' /\ SegOK'
  <2>1. SegOK'
    <3>1. CASE e < Last
      BY <1>2, <3>1 DEF SegOK
    <3>2. CASE e = Last
      BY <1>2, <3>2, Places DEF SegOK
    <3> QED BY <1>0, <3>1, <3>2, Places
  <2> QED BY <1>1, <1>2, <1>4, <2>1, Parts DEF TypeOK, data
<1>6. /\ WestSent' = WestSent /\ EastTaken' = EastTaken
      /\ \A p \in PE : /\ OutTaken(p)' = OutTaken(p)
                       /\ ~Served(e) /\ (Served(p)' <=> Served(p) \/ p = e)
  BY <1>0, <1>1, <1>2, Members DEF WestSent, EastTaken, OutTaken, Served
<1>7. ASSUME NEW p \in PE PROVE StagedOK(p)'
  <2>1. ~Served(e) => Staging(e)
    BY <1>0, <1>3 DEF StagedOK
  <2>2. op'[p] = op[p] /\ seg'.op # "put_q" /\ seg.op # "put_q" /\ StagedOK(p)
    BY <1>0, <1>1, <1>2, <1>3, Members
  <2>3. CASE p = e
    BY <1>1, <1>4, <1>6, <2>1, <2>2, <2>3 DEF StagedOK, Staging
  <2>4. CASE p # e
    BY <1>1, <1>4, <1>6, <2>2, <2>4 DEF StagedOK, Staging
  <2> QED BY <2>3, <2>4
<1>8. \A p \in PE : LinkOK(p)' /\ OutOK(p)' /\ L3OK(p)'
  BY <1>1, <1>6, SegSame
<1>9. EastQOK' /\ EastOK'
  BY <1>1, <1>6, SegSame, Places
<1> QED BY <1>1, <1>5, <1>7, <1>8, <1>9, SegKeeps

LEMMA SegWestInv == ASSUME IInv, SegWest PROVE IInv'
<1>1. /\ seg.op = "west" /\ link' = [link EXCEPT ![0] = Append(link[0], seg.row)] /\ NextRow("east")
      /\ UNCHANGED <<op, step, data, staged, eastQ, out, l3, east>>
  BY DEF SegWest
<1>2. /\ seg' \in [op : SegOp, pe : PE, row : 1 .. Largest(T, 1)]
      /\ seg.row < T => seg'.op = "west" /\ seg'.pe = 0 /\ seg'.row = seg.row + 1
      /\ ~(seg.row < T) => seg'.op = "east" /\ seg'.pe = 0 /\ seg'.row = 1 /\ seg.row = T
      /\ T > 0 /\ seg.row \in Nat /\ seg.row >= 1 /\ seg.row <= T
  BY <1>1, Parts, RowStep
<1>3. /\ WestSent = seg.row - 1 /\ WestSent' = seg.row /\ EastTaken' = EastTaken
      /\ \A p \in PE : OutTaken(p)' = OutTaken(p) /\ Served(p)' = Served(p)
  BY <1>1, <1>2 DEF WestSent, EastTaken, OutTaken, Served
<1>4. /\ Append(link[0], seg.row) \in Seq(Row)
      /\ Holds(Append(link[0], seg.row), Taken(0), seg.row)
  <2>1. Holds(link[0], Taken(0), WestSent) /\ Taken(0) \in Int /\ WestSent \in Int
        /\ link[0] \in Seq(Row)
    BY Parts, EndTypes, Members DEF LinkOK, Arrived
  <2>2. WestSent + 1 = seg.row /\ seg.row \in Row
    BY <1>2, <1>3, Members
  <2> QED BY <2>1, <2>2, HoldsAppend
<1>5. link \in [PE -> Seq(Row)]
  BY Parts DEF TypeOK
<1>6. /\ link' \in [PE -> Seq(Row)] /\ link'[0] = Append(link[0], seg.row)
      /\ \A p \in PE : p # 0 => link'[p] = link[p]
  BY <1>1, <1>4, <1>5, Members
<1>7. TypeOK' /\ SegOK'
  BY <1>1, <1>2, <1>6, Parts DEF TypeOK, SegOK, data
<1>8. \A p \in PE : StagedOK(p)'
  BY <1>1, <1>2, <1>3, Parts DEF StagedOK, Staging
<1>9. \A p \in PE : LinkOK(p)'
  BY <1>1, <1>3, <1>4, <1>6, SegQuiet, Parts, Members DEF LinkOK, Arrived
<1>10. \A p \in PE : OutOK(p)' /\ L3OK(p)'
  BY <1>1, <1>3, SegSame
<1>11. EastQOK' /\ EastOK'
  BY <1>1, <1>3, SegSame, Places
<1> QED BY <1>1, <1>7, <1>8, <1>9, <1>10, <1>11, SegKeeps

\* What SegEast stores is the row the cell belongs to.
LEMMA EastStep ==
  ASSUME IInv, SegEast
  PROVE  /\ Head(eastQ) = seg.row /\ EastTaken = seg.row - 1 /\ seg.row \in 1 .. T
         /\ Tail(eastQ) \in Seq(Row) /\ Holds(Tail(eastQ), seg.row, Sent(Last))
<1>1. seg.op = "east" /\ eastQ # <<>> /\ seg.row \in 1 .. T
  BY Parts DEF SegEast
<1>2. EastTaken = seg.row - 1 /\ Holds(eastQ, EastTaken, Sent(Last))
      /\ eastQ \in Seq(Row) /\ Sent(Last) \in Int /\ seg.row - 1 \in Int
  <2>1. EastQOK /\ eastQ \in Seq(Row) /\ seg.row \in Int
    BY Parts
  <2>2. Sent(Last) \in Int
    BY EndTypes, Places
  <2> QED BY <1>1, <2>1, <2>2 DEF EastTaken, EastQOK
<1>3. (seg.row - 1) + 1 = seg.row
  BY <1>1
<1> QED BY <1>1, <1>2, <1>3, HoldsTail

LEMMA SegEastInv == ASSUME IInv, SegEast PROVE IInv'
<1>1. /\ seg.op = "east" /\ NextRow("drain") /\ eastQ' = Tail(eastQ)
      /\ east' = [east EXCEPT ![seg.row] = Head(eastQ)]
      /\ UNCHANGED <<op, step, data, staged, link, out, l3>>
  BY DEF SegEast
<1>2. /\ seg' \in [op : SegOp, pe : PE, row : 1 .. Largest(T, 1)]
      /\ seg.row < T => seg'.op = "east" /\ seg'.pe = 0 /\ seg'.row = seg.row + 1
      /\ ~(seg.row < T) => seg'.op = "drain" /\ seg'.pe = 0 /\ seg'.row = 1 /\ seg.row = T
      /\ T > 0 /\ seg.row \in Nat /\ seg.row >= 1 /\ seg.row <= T
  BY <1>1, Parts, RowStep
<1>3. /\ WestSent' = WestSent /\ EastTaken' = seg.row
      /\ \A p \in PE : OutTaken(p)' = OutTaken(p) /\ Served(p)' = Served(p)
  BY <1>1, <1>2, Members DEF WestSent, EastTaken, OutTaken, Served
<1>4. east \in [0 .. T -> Row] /\ seg.row \in Row
  <2>1. seg.row \in 0 .. T
    BY <1>2
  <2> QED BY <2>1, Parts, Members DEF TypeOK
<1>5. /\ east' \in [0 .. T -> Row]
      /\ \A r \in 0 .. T : east'[r] = IF r = seg.row THEN seg.row ELSE east[r]
  BY <1>1, <1>4, EastStep
<1>6. TypeOK' /\ SegOK'
  BY <1>1, <1>2, <1>5, EastStep, Parts DEF TypeOK, SegOK, data
<1>7. EastQOK'
  BY <1>1, <1>3, EastStep, SegQuiet, Members DEF EastQOK
<1>8. EastOK'
  BY <1>2, <1>3, <1>5, EastStep, Parts DEF EastOK
<1>9. \A p \in PE : StagedOK(p)'
  BY <1>1, <1>2, <1>3, Parts DEF StagedOK, Staging
<1>10. \A p \in PE : LinkOK(p)' /\ OutOK(p)' /\ L3OK(p)'
  BY <1>1, <1>3, SegSame
<1> QED BY <1>1, <1>6, <1>7, <1>8, <1>9, <1>10, SegKeeps

\* What SegDrain stores is the row the place belongs to; the last column has it
\* already.
LEMMA TakeStep ==
  ASSUME IInv, SegDrain
  PROVE  LET p == seg.pe IN
         /\ p \in PE /\ Head(out[p]) = seg.row /\ OutTaken(p) = seg.row - 1 /\ seg.row \in 1 .. T
         /\ seg.row <= step[p]
         /\ Tail(out[p]) \in Seq(Row) /\ Holds(Tail(out[p]), seg.row, step[p])
         /\ east' = east
<1> DEFINE p == seg.pe
<1>1. seg.op = "drain" /\ out[p] # <<>> /\ seg.row \in 1 .. T /\ p \in PE
  BY Parts DEF SegDrain
<1>2. OutTaken(p) = seg.row - 1 /\ Holds(out[p], OutTaken(p), step[p])
      /\ out[p] \in Seq(Row) /\ step[p] \in Int /\ seg.row - 1 \in Int
  <2>1. OutOK(p) /\ out[p] \in Seq(Row) /\ step[p] \in Int
    BY <1>1, Parts
  <2>2. OutTaken(p) = seg.row - 1
    <3>1. p \in Nat
      BY <1>1, Places
    <3> QED BY <1>1, <3>1 DEF OutTaken
  <2> HIDE DEF p
  <2> QED BY <1>1, <2>1, <2>2 DEF OutOK
<1>3. (seg.row - 1) + 1 = seg.row
  BY <1>1
<1>4. /\ Head(out[p]) = seg.row /\ seg.row - 1 < step[p]
      /\ Tail(out[p]) \in Seq(Row) /\ Holds(Tail(out[p]), seg.row, step[p])
  BY <1>1, <1>2, <1>3, HoldsTail
<1>5. east' = east
  <2>1. east \in [0 .. T -> Row] /\ east[seg.row] = seg.row
    BY <1>1, Parts DEF TypeOK, EastOK, EastTaken
  <2>2. east' = IF p = Last THEN [east EXCEPT ![seg.row] = Head(out[p])] ELSE east
    BY DEF SegDrain
  <2> QED BY <1>1, <1>4, <2>1, <2>2
<1> QED BY <1>1, <1>2, <1>4, <1>5

\* Where SegDrain goes next, and what it leaves to be taken back.
LEMMA DrainCounts ==
  ASSUME IInv, SegDrain
  PROVE  /\ seg' \in [op : SegOp, pe : PE, row : 1 .. Largest(T, 1)] /\ SegOK'
         /\ seg'.op \in {"drain", "done"}
         /\ WestSent' = WestSent /\ EastTaken' = EastTaken
         /\ \A p \in PE : /\ OutTaken(p)' = IF p = seg.pe THEN seg.row ELSE OutTaken(p)
                          /\ Served(p) /\ Served(p)'
<1> DEFINE e == seg.pe
<1>1. /\ seg.op = "drain"
      /\ seg' = IF seg.row < T THEN [seg EXCEPT !.row = seg.row + 1]
                ELSE IF e < Last THEN [seg EXCEPT !.pe = e + 1, !.row = 1]
                ELSE [op |-> "done", pe |-> 0, row |-> 1]
  BY DEF SegDrain
<1>2. e \in PE /\ seg.row \in 1 .. T
  BY TakeStep
<1>3. seg.row < T \/ (seg.row = T /\ e < Last) \/ (seg.row = T /\ e = Last)
  <2>1. e <= Last /\ (e # Last => e < Last)
    BY <1>2, Places
  <2>2. seg.row \in 1 .. T
    BY <1>2
  <2> HIDE DEF e
  <2> QED BY <2>1, <2>2
<1>4. /\ seg' \in [op : SegOp, pe : PE, row : 1 .. Largest(T, 1)]
      /\ seg.row < T => seg'.op = "drain" /\ seg'.pe = e /\ seg'.row = seg.row + 1
      /\ seg.row = T /\ e < Last => seg'.op = "drain" /\ seg'.pe = e + 1 /\ seg'.row = 1
      /\ seg.row = T /\ e = Last => seg'.op = "done" /\ seg'.pe = 0 /\ seg'.row = 1
  <2>1. seg \in [op : SegOp, pe : PE, row : 1 .. Largest(T, 1)]
    BY Parts DEF TypeOK
  <2>2. CASE seg.row < T
    <3>1. seg.row + 1 \in 1 .. Largest(T, 1)
      BY <1>2, <2>2, SegTypes
    <3> QED BY <1>1, <1>2, <2>1, <2>2, <3>1
  <2>3. CASE seg.row = T /\ e < Last
    <3>1. e + 1 \in PE
      BY <1>2, <2>3, Members
    <3>2. ~(seg.row < T)
      BY <1>2, <2>3
    <3>3. seg' = [seg EXCEPT !.pe = e + 1, !.row = 1]
      BY <1>1, <2>3, <3>2
    <3>4. seg'.op = "drain" /\ seg'.pe = e + 1 /\ seg'.row = 1
      BY <1>1, <2>1, <3>3
    <3>5. seg' \in [op : SegOp, pe : PE, row : 1 .. Largest(T, 1)]
      BY <2>1, <3>1, <3>3, SegTypes
    <3>6. e # Last
      BY <2>3, Places
    <3> QED BY <2>3, <3>2, <3>4, <3>5, <3>6
  <2>4. CASE seg.row = T /\ e = Last
    <3>1. ~(e < Last) /\ ~(seg.row < T)
      BY <1>2, <2>4, Members
    <3> QED BY <1>1, <2>4, <3>1, SegTypes, Members DEF SegOp
  <2>5. seg.row < T \/ (seg.row = T /\ e < Last) \/ (seg.row = T /\ e = Last)
    BY <1>3
  <2> HIDE DEF e
  <2> QED BY <2>2, <2>3, <2>4, <2>5
<1>5. /\ WestSent' = WestSent /\ EastTaken' = EastTaken
      /\ \A p \in PE : /\ OutTaken(p)' = IF p = e THEN seg.row ELSE OutTaken(p)
                       /\ Served(p) /\ Served(p)'
  <2>1. seg'.op \in {"drain", "done"}
    BY <1>3, <1>4
  <2>2. WestSent' = WestSent /\ EastTaken' = EastTaken /\ \A p \in PE : Served(p) /\ Served(p)'
    BY <1>1, <2>1 DEF WestSent, EastTaken, Served
  <2>3. ASSUME NEW p \in PE PROVE OutTaken(p)' = IF p = e THEN seg.row ELSE OutTaken(p)
    <3>1. CASE seg.row < T
      BY <1>1, <1>2, <1>4, <3>1, Places DEF OutTaken
    <3>2. CASE seg.row = T /\ e < Last
      BY <1>1, <1>2, <1>4, <3>2, Places DEF OutTaken
    <3>3. CASE seg.row = T /\ e = Last
      BY <1>1, <1>2, <1>4, <3>3, Members DEF OutTaken
    <3> QED BY <1>3, <3>1, <3>2, <3>3
  <2> QED BY <2>2, <2>3
<1>6. SegOK' /\ seg'.op \in {"drain", "done"}
  BY <1>2, <1>3, <1>4 DEF SegOK
<1> QED BY <1>4, <1>5, <1>6

LEMMA SegDrainInv == ASSUME IInv, SegDrain PROVE IInv'
<1> DEFINE e == seg.pe
<1>1. /\ seg.op = "drain"
      /\ l3' = [l3 EXCEPT ![e][seg.row] = Head(out[e])] /\ out' = [out EXCEPT ![e] = Tail(out[e])]
      /\ UNCHANGED <<op, step, data, staged, link, eastQ>>
  BY DEF SegDrain
<1>2. /\ e \in PE /\ Head(out[e]) = seg.row /\ seg.row \in 1 .. T
      /\ Tail(out[e]) \in Seq(Row) /\ Holds(Tail(out[e]), seg.row, step[e])
      /\ east' = east
  BY TakeStep
<1>3. /\ seg' \in [op : SegOp, pe : PE, row : 1 .. Largest(T, 1)] /\ SegOK'
      /\ seg'.op # "put_q"
  BY DrainCounts
<1>4. /\ WestSent' = WestSent /\ EastTaken' = EastTaken
      /\ \A p \in PE : /\ OutTaken(p)' = IF p = e THEN seg.row ELSE OutTaken(p)
                       /\ Served(p) /\ Served(p)'
  BY DrainCounts
<1>5. out \in [PE -> Seq(Row)] /\ l3 \in [PE -> [0 .. T -> Row]] /\ seg.row \in Row
  <2>1. seg.row \in 0 .. T
    BY <1>2
  <2> QED BY <2>1, Parts, Members DEF TypeOK
<1>6. /\ out' \in [PE -> Seq(Row)] /\ out'[e] = Tail(out[e])
      /\ \A p \in PE : p # e => out'[p] = out[p]
  BY <1>1, <1>2, <1>5
<1>7. /\ l3' \in [PE -> [0 .. T -> Row]]
      /\ \A p \in PE, r \in 0 .. T :
           l3'[p][r] = IF p = e /\ r = seg.row THEN seg.row ELSE l3[p][r]
  <2> HIDE DEF e
  <2> QED BY <1>1, <1>2, <1>5
<1>8. TypeOK' /\ SegOK'
  BY <1>1, <1>2, <1>3, <1>6, <1>7, Parts DEF TypeOK, data
<1>9. \A p \in PE : StagedOK(p)'
  BY <1>1, <1>3, <1>4, Parts DEF StagedOK, Staging
<1>10. \A p \in PE : LinkOK(p)'
  BY <1>1, <1>4, SegSame
<1>11. \A p \in PE : OutOK(p)'
  <2> HIDE DEF e
  <2> QED BY <1>1, <1>2, <1>4, <1>6, Parts DEF OutOK
<1>12. ASSUME NEW p \in PE PROVE L3OK(p)'
  <2>1. CASE p = e
    <3>1. OutTaken(e) = seg.row - 1 /\ L3OK(e)
      BY <1>2, TakeStep, Parts
    <3> HIDE DEF e
    <3>2. ASSUME NEW r \in 0 .. T PROVE l3'[e][r] = IF r <= seg.row THEN r ELSE Junk
      BY <1>2, <1>7, <3>1, <3>2 DEF L3OK
    <3> QED BY <1>2, <1>4, <2>1, <3>2 DEF L3OK
  <2>2. CASE p # e
    <3> HIDE DEF e
    <3> QED BY <1>4, <1>7, <2>2, Parts DEF L3OK
  <2> QED BY <2>1, <2>2
<1>13. EastQOK' /\ EastOK'
  BY <1>1, <1>2, <1>4, SegSame, Places
<1> QED BY <1>1, <1>8, <1>9, <1>10, <1>11, <1>12, <1>13, SegKeeps

-----------------------------------------------------------------------------
(* The invariant is inductive.                                              *)

LEMMA StepInv == IInv /\ [Next]_vars => IInv'
<1> SUFFICES ASSUME IInv, [Next]_vars PROVE IInv'
  OBVIOUS
<1>1. ASSUME NEW p \in PE, Herd(p) PROVE IInv'
  BY <1>1, GetQInv, GetRInv, GetInv, ScoreInv, PutInv, DrainInv DEF Herd
<1>2. CASE Segment
  BY <1>2, SegPutQInv, SegPutRInv, SegWestInv, SegEastInv, SegDrainInv DEF Segment
<1>3. CASE UNCHANGED vars
  BY <1>3 DEF vars, data, fifos, IInv, TypeOK, SegOK, CtlOK, StagedOK, LinkOK, OutOK, EastQOK, BandOK,
              L3OK, EastOK, RowsScored, Staging, AfterScore, Served, WestSent, EastTaken, OutTaken,
              Arrived, Taken, Sent
<1> QED BY <1>1, <1>2, <1>3 DEF Next, Return

\* The last column changes only where the boundary FIFO is taken back; the last
\* PE's band writes what is there.
LEMMA ColumnStep ==
  ASSUME IInv, [Next]_vars, NEW r \in 1 .. T, east'[r] # east[r]
  PROVE  east[r] = Junk /\ east'[r] = r
<1>1. SegEast
  <2>1. ASSUME NEW p \in PE, Herd(p) PROVE east' = east
    BY <2>1 DEF Herd, GetQ, GetR, Get, Score, Put, Drain
  <2>2. SegPutQ \/ SegPutR \/ SegWest \/ UNCHANGED vars => east' = east
    BY DEF SegPutQ, SegPutR, SegWest, vars
  <2>3. SegDrain => east' = east
    BY TakeStep
  <2> QED BY <2>1, <2>2, <2>3 DEF Next, Segment, Return
<1>2. east' = [east EXCEPT ![seg.row] = seg.row] /\ EastTaken = seg.row - 1 /\ seg.row \in 1 .. T
  BY <1>1, EastStep DEF SegEast
<1>3. east \in [0 .. T -> Row] /\ EastOK
  BY Parts DEF TypeOK
<1>4. r = seg.row
  BY <1>2, <1>3
<1> QED BY <1>2, <1>3, <1>4 DEF EastOK

-----------------------------------------------------------------------------
(* No circular wait.                                                        *)

\* A nonempty set of natural numbers has a least element.
LEMMA LeastNat == ASSUME NEW S, S \subseteq Nat, S # {} PROVE \E m \in S : \A n \in S : m <= n
<1> DEFINE R == {ss \in Nat \X Nat : ss[1] < ss[2]}
<1>1. IsWellFoundedOn(R, Nat)
  <2>1. OpToRel(<, Nat) = R
    BY Zenon DEF OpToRel
  <2> QED BY <2>1, NatLessThanWellFounded, Zenon
<1> HIDE DEF R
<1>2. PICK m \in S : \A n \in S : ~(<<n, m>> \in R)
  BY <1>1, WFMin
<1>3. ASSUME NEW n \in S, n < m PROVE FALSE
  <2>1. <<n, m>> \in Nat \X Nat /\ <<n, m>>[1] = n /\ <<n, m>>[2] = m
    OBVIOUS
  <2>2. <<n, m>> \in R
    BY <1>3, <2>1, Zenon DEF R
  <2> QED BY <1>2, <2>2
<1> QED BY <1>3

\* The segment waits for nobody until it has staged everything and put the
\* boundary column.  From then on the westmost PE that has not returned has what
\* it waits for, its west neighbour having put every row; and when all have
\* returned, what the segment takes back is in the FIFOs.
LEMMA SomeActorSteps == IInv => NoCircularWait
<1> SUFFICES ASSUME IInv, ~Finished, ~SegmentCanStep PROVE \E p \in PE : CanStep(p)
  BY DEF NoCircularWait
<1>1. /\ seg.op \in {"east", "drain", "done"} /\ WestSent = T /\ \A p \in PE : Served(p)
  <2>1. seg.op \in {"east", "drain", "done"}
    BY Parts DEF SegmentCanStep, SegOp
  <2> QED BY <2>1 DEF WestSent, Served
<1>2. \E p \in PE : op[p] # "done"
  <2> SUFFICES ASSUME \A p \in PE : op[p] = "done" PROVE FALSE
    OBVIOUS
  <2>1. \A p \in PE : step[p] = T
    BY Parts DEF CtlOK
  <2>2. CASE seg.op = "done"
    BY <2>2 DEF Finished
  <2>3. CASE seg.op = "east"
    <3>1. Holds(eastQ, EastTaken, T)
      <4>1. Sent(Last) = T
        BY <2>1, Places DEF Sent
      <4> QED BY <4>1, Parts DEF EastQOK
    <3>2. eastQ \in Seq(Row) /\ EastTaken \in Int /\ EastTaken < T
      BY <2>3, Parts, EndTypes DEF EastTaken
    <3>3. eastQ # <<>>
      BY <3>1, <3>2, HoldsSome
    <3> QED BY <2>3, <3>3 DEF SegmentCanStep
  <2>4. CASE seg.op = "drain"
    <3> DEFINE e == seg.pe
    <3>1. e \in PE /\ seg.row \in Nat /\ seg.row <= T
      BY <2>4, Parts
    <3>2. OutTaken(e) = seg.row - 1
      <4>1. e \in Nat
        BY <3>1, Places
      <4> QED BY <2>4, <4>1 DEF OutTaken
    <3>3. Holds(out[e], OutTaken(e), T) /\ out[e] \in Seq(Row)
      <4> HIDE DEF e
      <4> QED BY <2>1, <3>1, Parts DEF OutOK
    <3>4. OutTaken(e) \in Int /\ OutTaken(e) < T
      BY <3>1, <3>2
    <3> HIDE DEF e
    <3>5. out[e] # <<>>
      BY <3>3, <3>4, HoldsSome
    <3> QED BY <2>4, <3>5 DEF SegmentCanStep, e
  <2> QED BY <1>1, <2>2, <2>3, <2>4
<1>3. PICK p \in PE : op[p] # "done" /\ \A q \in PE : op[q] # "done" => p <= q
  <2> DEFINE S == {q \in PE : op[q] # "done"}
  <2>1. S # {} /\ S \subseteq Nat
    BY <1>2, Places
  <2>2. PICK m \in S : \A k \in S : m <= k
    BY <2>1, LeastNat
  <2> QED BY <2>2
<1>4. op[p] = "get_q" => staged["q"][p] > 0
  BY <1>1, Parts DEF StagedOK
<1>5. op[p] = "get_r" => staged["r"][p] > 0
  BY <1>1, Parts DEF StagedOK, Staging
<1>6. ASSUME op[p] = "get" PROVE link[p] # <<>>
  <2>1. step[p] < T /\ Taken(p) = step[p] /\ step[p] \in Nat /\ link[p] \in Seq(Row) /\ LinkOK(p)
    BY <1>6, Parts DEF CtlOK, Taken
  <2>2. Arrived(p) >= T
    <3>1. CASE p = 0
      BY <1>1, <3>1 DEF Arrived
    <3>2. CASE p # 0
      <4>1. p - 1 \in PE /\ ~(p <= p - 1)
        BY <3>2, Members
      <4>2. op[p - 1] = "done" /\ step[p - 1] = T
        BY <1>3, <4>1, Parts DEF CtlOK
      <4> QED BY <3>2, <4>2 DEF Arrived, Sent
    <3> QED BY <3>1, <3>2
  <2>3. Arrived(p) \in Int
    BY EndTypes
  <2> QED BY <2>1, <2>2, <2>3, HoldsSome DEF LinkOK
<1> QED BY <1>3, <1>4, <1>5, <1>6 DEF CanStep

-----------------------------------------------------------------------------
(* The refinement mapping.                                                  *)

\* L3 holds the rows 0 .. n of PE p's columns, and not row n + 1.
RowsInL3(p, n) == /\ \A m \in 0 .. n : l3[p][m] = m
                  /\ n < T => l3[p][n + 1] # n + 1

\* What L3 and the bands hold is what the program counters say.
LEMMA Mapping ==
  IInv => /\ rowsDone = [p \in PE |-> RowsScored(p)]
          /\ rowsInL3 = [p \in PE |-> OutTaken(p)]
<1> SUFFICES ASSUME IInv PROVE /\ rowsDone = [p \in PE |-> RowsScored(p)]
                               /\ rowsInL3 = [p \in PE |-> OutTaken(p)]
  OBVIOUS
<1>1. ASSUME NEW p \in PE PROVE Largest(0, Largest(band[p]["prev"], band[p]["cur"])) = RowsScored(p)
  <2>1. BandOK(p) /\ CtlOK(p) /\ step[p] \in Nat
    BY Parts
  <2>2. band[p]["prev"] \in Int /\ band[p]["cur"] \in Int
    <3>1. band[p]["prev"] \in Row /\ band[p]["cur"] \in Row
      BY Members, Parts
    <3> QED BY <3>1, Members
  <2>3. band[p]["prev"] <= RowsScored(p) /\ band[p]["cur"] <= RowsScored(p)
    BY <2>1, Members DEF BandOK
  <2>4. RowsScored(p) = 0 \/ band[p]["prev"] = RowsScored(p) \/ band[p]["cur"] = RowsScored(p)
    <3>1. Staging(p) => RowsScored(p) = 0
      BY <2>1 DEF CtlOK, RowsScored, AfterScore, Staging
    <3> QED BY <2>1, <3>1 DEF BandOK, Buf
  <2>5. RowsScored(p) \in Nat
    BY <2>1 DEF RowsScored
  <2> QED BY <2>2, <2>3, <2>4, <2>5 DEF Largest
<1>2. ASSUME NEW p \in PE PROVE (CHOOSE n \in -1 .. T : RowsInL3(p, n)) = OutTaken(p)
  <2>1. L3OK(p) /\ OutTaken(p) \in Nat /\ OutTaken(p) <= T
    BY Parts, EndTypes
  <2>2. OutTaken(p) \in -1 .. T /\ RowsInL3(p, OutTaken(p))
    BY <2>1, Members DEF L3OK, RowsInL3
  <2>3. ASSUME NEW n \in -1 .. T, RowsInL3(p, n) PROVE n = OutTaken(p)
    <3>1. CASE n < OutTaken(p)
      <4>1. n + 1 \in 0 .. T /\ n + 1 <= OutTaken(p) /\ n < T
        BY <2>1, <3>1
      <4> QED BY <2>1, <2>3, <4>1 DEF L3OK, RowsInL3
    <3>2. CASE OutTaken(p) < n
      <4>1. OutTaken(p) + 1 \in 0 .. T /\ OutTaken(p) + 1 \in 0 .. n
            /\ ~(OutTaken(p) + 1 <= OutTaken(p))
        BY <2>1, <3>2
      <4> QED BY <2>1, <2>3, <4>1, Members DEF L3OK, RowsInL3
    <3> QED BY <2>1, <3>1, <3>2
  <2> QED BY <2>2, <2>3
<1>3. rowsDone = [p \in PE |-> RowsScored(p)]
  BY <1>1 DEF rowsDone
<1>4. rowsInL3 = [p \in PE |-> OutTaken(p)]
  <2>1. rowsInL3 = [p \in PE |-> CHOOSE n \in -1 .. T : RowsInL3(p, n)]
    BY DEF rowsInL3, RowsInL3
  <2> QED BY <1>2, <2>1, Zenon
<1> QED BY <1>3, <1>4

\* Every step scores a row, takes one back to L3, or leaves both counts.
LEMMA StepRefines ==
  IInv /\ IInv' /\ [Next]_vars => [Abstract!Next]_(Abstract!wvars)
<1> SUFFICES ASSUME IInv, IInv', [Next]_vars PROVE [Abstract!Next]_(Abstract!wvars)
  OBVIOUS
<1>1. /\ rowsDone = [p \in PE |-> RowsScored(p)] /\ rowsDone' = [p \in PE |-> RowsScored(p)']
      /\ rowsInL3 = [p \in PE |-> OutTaken(p)]
  <2>1. IInv' => (rowsDone = [p \in PE |-> RowsScored(p)])'
    BY Mapping, PTL
  <2> QED BY <2>1, Mapping
<1>2. rowsInL3' = [p \in PE |-> OutTaken(p)']
  <2>1. IInv' => (rowsInL3 = [p \in PE |-> OutTaken(p)])'
    BY Mapping, PTL
  <2> QED BY <2>1
<1>3. PE = Abstract!PE
  BY DEF PE, Abstract!PE
<1>4. l3' = l3 => rowsInL3' = rowsInL3
  BY DEF rowsInL3
<1>5. CASE UNCHANGED vars
  BY <1>1, <1>4, <1>5 DEF vars, data, RowsScored, AfterScore, Abstract!wvars
<1>6. CASE SegPutQ \/ SegPutR \/ SegWest \/ SegEast
  <2>1. l3' = l3 /\ \A p \in PE : RowsScored(p)' = RowsScored(p)
    BY <1>6 DEF SegPutQ, SegPutR, SegWest, SegEast, RowsScored, AfterScore
  <2> QED BY <1>1, <1>4, <2>1 DEF Abstract!wvars
<1>7. CASE SegDrain
  <2> DEFINE e == seg.pe
  <2>1. /\ e \in PE /\ OutTaken(e) = seg.row - 1 /\ seg.row \in 1 .. T /\ seg.row <= step[e]
        /\ \A p \in PE : OutTaken(p)' = IF p = e THEN seg.row ELSE OutTaken(p)
    BY <1>7, TakeStep, DrainCounts
  <2>2. /\ \A p \in PE : RowsScored(p)' = RowsScored(p)
        /\ step[e] \in Nat /\ RowsScored(e) >= step[e]
    <3>1. step' = step /\ op' = op
      BY <1>7 DEF SegDrain
    <3> QED BY <2>1, <3>1, Parts DEF RowsScored, AfterScore
  <2> HIDE DEF e
  <2>3. rowsInL3' = [rowsInL3 EXCEPT ![e] = @ + 1] /\ rowsDone' = rowsDone
    BY <1>1, <1>2, <2>1, <2>2
  <2>4. rowsInL3[e] < rowsDone[e]
    <3>1. RowsScored(e) \in Int
      BY <2>2 DEF RowsScored
    <3> QED BY <1>1, <2>1, <2>2, <3>1
  <2> QED BY <1>3, <2>1, <2>3, <2>4 DEF Abstract!Next, Abstract!Store
<1>8. ASSUME NEW p \in PE, Herd(p) PROVE [Abstract!Next]_(Abstract!wvars)
  <2>1. l3' = l3
    BY <1>8 DEF Herd, GetQ, GetR, Get, Score, Put, Drain
  <2>2. TypeOK /\ CtlOK(p) /\ LinkOK(p) /\ step[p] \in Nat
    BY Parts
  <2>3. op \in [PE -> Op] /\ step \in [PE -> 0 .. T]
    BY Parts DEF TypeOK
  <2>4. CASE Score(p)
    <3>1. op[p] = "score" /\ op' = [op EXCEPT ![p] = "put"] /\ step' = step
      BY <2>4 DEF Score, Goto
    <3>2. /\ RowsScored(p) = step[p] /\ RowsScored(p)' = step[p] + 1 /\ step[p] < T
          /\ \A q \in PE : q # p => RowsScored(q)' = RowsScored(q)
      BY <2>2, <2>3, <3>1 DEF RowsScored, AfterScore, CtlOK
    <3>3. p > 0 => p - 1 \in PE /\ RowsScored(p - 1) > RowsScored(p)
      <4> SUFFICES ASSUME p > 0 PROVE p - 1 \in PE /\ RowsScored(p - 1) > step[p]
        BY <3>2
      <4>1. p - 1 \in PE /\ p # 0
        BY Members
      <4>2. Taken(p) = step[p] + 1 /\ Arrived(p) = Sent(p - 1)
        BY <3>1, <4>1 DEF Taken, Arrived
      <4>3. Taken(p) <= Arrived(p)
        <5>1. link[p] \in Seq(Row) /\ Taken(p) \in Int /\ Arrived(p) \in Int
          BY Parts, EndTypes
        <5> QED BY <2>2, <5>1, HoldsSome DEF LinkOK
      <4>4. Sent(p - 1) <= RowsScored(p - 1) /\ step[p - 1] \in Nat
        BY <4>1, Parts DEF Sent, RowsScored, AfterScore
      <4>5. Sent(p - 1) \in Int /\ RowsScored(p - 1) \in Int
        BY <4>4 DEF Sent, RowsScored
      <4> QED BY <2>2, <4>1, <4>2, <4>3, <4>4, <4>5
    <3>4. rowsDone' = [rowsDone EXCEPT ![p] = @ + 1] /\ rowsInL3' = rowsInL3
      BY <1>1, <1>4, <2>1, <3>2
    <3>5. rowsDone[p] < T /\ (p > 0 => rowsDone[p - 1] > rowsDone[p])
      BY <1>1, <3>2, <3>3
    <3> QED BY <1>3, <3>4, <3>5 DEF Abstract!Next, Abstract!Compute
  <2>5. CASE ~Score(p)
    <3>1. \A q \in PE : RowsScored(q)' = RowsScored(q)
      <4>1. CASE Drain(p)
        <5>1. /\ op[p] = "drain" /\ op' = [op EXCEPT ![p] = IF step[p] + 1 = T THEN "done" ELSE "get"]
              /\ step' = [step EXCEPT ![p] = step[p] + 1]
          BY <4>1 DEF Drain, EnterTrip, Goto
        <5>2. step'[p] = step[p] + 1 /\ op'[p] \notin {"put", "drain"}
              /\ \A q \in PE : q # p => op'[q] = op[q] /\ step'[q] = step[q]
          <6>1. step[p] + 1 \in 0 .. T
            BY <2>2, <2>3, <5>1 DEF CtlOK
          <6> QED BY <2>3, <5>1, <6>1 DEF Op
        <5> QED BY <2>2, <5>1, <5>2 DEF RowsScored, AfterScore
      <4>2. CASE GetR(p)
        <5>1. /\ op[p] = "get_r" /\ op' = [op EXCEPT ![p] = IF 0 = T THEN "done" ELSE "get"]
              /\ step' = [step EXCEPT ![p] = 0]
          BY <4>2 DEF GetR, EnterTrip, Goto
        <5>2. step[p] = 0
          BY <2>2, <5>1 DEF CtlOK, Staging
        <5> QED BY <2>3, <5>1, <5>2 DEF RowsScored, AfterScore, Op
      <4>3. CASE GetQ(p) \/ Get(p) \/ Put(p)
        <5>1. /\ step' = step
              /\ \E a, b \in Op : /\ op[p] = a /\ op' = [op EXCEPT ![p] = b]
                                  /\ a \in {"put", "drain"} <=> b \in {"put", "drain"}
          BY <4>3 DEF GetQ, Get, Put, Goto, Op
        <5> QED BY <2>3, <5>1 DEF RowsScored, AfterScore
      <4> QED BY <1>8, <2>5, <4>1, <4>2, <4>3 DEF Herd
    <3> QED BY <1>1, <1>4, <2>1, <3>1 DEF Abstract!wvars
  <2> QED BY <2>4, <2>5
<1> QED BY <1>5, <1>6, <1>7, <1>8 DEF Next, Segment, Return

-----------------------------------------------------------------------------
(* The theorems.                                                            *)

\* In every reachable state the invariant holds.
THEOREM Inductive == Spec => []IInv
<1> QED BY InitInv, StepInv, PTL DEF Spec

\* The segment stays within its loops and nothing but rows is ever moved.
THEOREM TypeCorrect == Spec => []TypeOK
<1>1. IInv => TypeOK
  BY DEF IInv
<1> QED BY Inductive, <1>1, PTL

\* For any line and any number of rows, what waits on a link is the difference
\* between what the two PEs have done, in order: the skew is the queue.
THEOREM LinksAreTheSkew == Spec => []EdgesAreTheSkew
<1>1. IInv => EdgesAreTheSkew
  <2> SUFFICES ASSUME IInv, NEW p \in PE, p > 0
               PROVE  /\ Len(link[p]) = Sent(p - 1) - Taken(p)
                      /\ \A k \in 1 .. Len(link[p]) : link[p][k] = Taken(p) + k
    BY DEF EdgesAreTheSkew
  <2>1. LinkOK(p) /\ Arrived(p) = Sent(p - 1)
    BY Parts DEF Arrived
  <2> QED BY <2>1 DEF LinkOK, Holds
<1> QED BY Inductive, <1>1, PTL

\* Each cell of the last column changes once, to its row, though it is written
\* twice: by EastOut and after it by the last PE's band.
THEOREM ColumnIsWrittenOnce == Spec => LastColumnAgrees
<1>1. IInv /\ [Next]_vars => [\A r \in 1 .. T : east'[r] # east[r] => east[r] = Junk /\ east'[r] = r]_vars
  BY ColumnStep
<1> QED BY Inductive, <1>1, PTL DEF Spec, LastColumnAgrees

\* No line of any length deadlocks on channels, over any number of rows.
THEOREM NoDeadlock == Spec => []NoCircularWait
<1> QED BY Inductive, SomeActorSteps, PTL

\* The safety part of ImplementsWavefront: every step scores a row that the
\* west neighbour has, stores the next row, or is invisible.
THEOREM RefinesWavefront == Spec => Abstract!Init /\ [][Abstract!Next]_(Abstract!wvars)
<1>1. Init => Abstract!Init
  <2> SUFFICES ASSUME Init PROVE Abstract!Init
    OBVIOUS
  <2>1. IInv /\ \A p \in PE : RowsScored(p) = 0 /\ OutTaken(p) = 0
    BY InitInv DEF Init, RowsScored, AfterScore, OutTaken
  <2> QED BY <2>1, Mapping DEF Abstract!Init, Abstract!PE, PE
<1> QED BY <1>1, Inductive, StepRefines, PTL DEF Spec

=============================================================================
