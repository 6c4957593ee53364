---------------------------- MODULE WaveTTProofs ----------------------------
(***************************************************************************)
(* Proofs about WaveTT, for every number of cores and of rows.              *)
(***************************************************************************)
EXTENDS WaveTTInv, WellFoundedInduction, TLAPS

USE PESAssumption, TAssumption

-----------------------------------------------------------------------------
(* The plan.                                                                *)

\* The row before and the row of a trip are in the two buffers.
LEMMA BufType == \A n \in Nat : /\ Previous(n) \in Buf
                                /\ Current(n) \in Buf
                                /\ Previous(n) # Current(n)
BY DEF Previous, Current, Buf

\* The next trip finds the row of this one in its previous buffer, across the
\* unrolled body, its back edge and the peeled trip.
LEMMA SwapsEachTrip ==
  ASSUME NEW n \in Nat, n + 1 < T
  PROVE  Previous(n + 1) = Current(n)
<1>1. Phase(n) = n % 2 /\ Phase(n + 1) = (n + 1) % 2
  BY DEF Phase, LoopHi
<1>2. (n + 1) % 2 # n % 2 /\ n % 2 \in {0, 1} /\ (n + 1) % 2 \in {0, 1}
  OBVIOUS
<1> QED BY <1>1, <1>2 DEF Previous, Current

\* The first trip reads the buffer that staging sets.
LEMMA FirstTrip == Previous(0) = "prev"
BY DEF Previous, Phase, LoopHi

\* R-TT-B finds one landing place per link: one strip in flight, and put n
\* waits for n of them given back.
LEMMA CreditIsOne == Credit = 1 /\ \A n \in Nat : EmptyNeeded(n) = n
<1>1. CASE T > 1
  <2>1. 1 \in AliasGaps /\ \A g \in AliasGaps : 1 <= g
    BY <1>1 DEF AliasGaps
  <2>2. \A g \in AliasGaps : (\A h \in AliasGaps : g <= h) => g = 1
    BY <1>1, <2>1 DEF AliasGaps
  <2>3. Credit = CHOOSE g \in AliasGaps : \A h \in AliasGaps : g <= h
    <3>1. AliasGaps # {}
      BY <2>1
    <3> QED BY <3>1, Zenon DEF Credit
  <2>4. Credit = 1
    BY <2>1, <2>2, <2>3
  <2> QED BY <2>4 DEF EmptyNeeded
<1>2. CASE ~(T > 1)
  <2>1. Credit = 1
    BY <1>2 DEF Credit, AliasGaps
  <2> QED BY <2>1 DEF EmptyNeeded
<1> QED BY <1>1, <1>2

LEMMA Members ==
  /\ 0 \in PE /\ Last \in PE /\ Last \in Nat /\ 0 # Last
  /\ \A p \in PE : p \in Int /\ 0 <= p /\ p <= Last /\ (p < Last => p + 1 \in PE)
                   /\ (p > 0 => p - 1 \in PE)
  /\ "prev" \in Buf /\ "cur" \in Buf /\ Junk \in Row /\ Junk = -1
  /\ \A n \in 0 .. T : n \in Row
  /\ \A r \in Row : r \in Int /\ r >= -1 /\ r <= T
BY DEF PE, Last, Buf, Junk, Row

-----------------------------------------------------------------------------
(* What each step does: the types it keeps, and the state it leaves, entry   *)
(* by entry.                                                                *)

LEMMA StageStep ==
  ASSUME TypeOK, NEW p \in PE, Stage(p)
  PROVE  /\ TypeOK'
         /\ op[p] = "stage" /\ step' = [step EXCEPT ![p] = 0]
         /\ op' = [op EXCEPT ![p] = IF 0 = T THEN "done" ELSE IF p = 0 THEN "west_in" ELSE "release"]
         /\ UNCHANGED <<edgeIn, edgeOut, full, empty, putn, getn, l3, east>>
         /\ \A q \in PE, b \in Buf :
              /\ ghost'[q][b] = IF q = p /\ b = "prev" THEN 0 ELSE ghost[q][b]
              /\ band'[q][b] = IF q = p /\ b = "prev" THEN 0 ELSE band[q][b]
<1>1. /\ op[p] = "stage" /\ step' = [step EXCEPT ![p] = 0]
      /\ op' = [op EXCEPT ![p] = IF 0 = T THEN "done" ELSE IF p = 0 THEN "west_in" ELSE "release"]
      /\ UNCHANGED <<edgeIn, edgeOut, full, empty, putn, getn, l3, east>>
      /\ ghost' = [ghost EXCEPT ![p]["prev"] = 0] /\ ghost \in [PE -> [Buf -> Row]]
      /\ band' = [band EXCEPT ![p]["prev"] = 0] /\ band \in [PE -> [Buf -> Row]]
  BY DEF Stage, EnterTrip, Goto, sems, TypeOK
<1>2. ghost' \in [PE -> [Buf -> Row]] /\ band' \in [PE -> [Buf -> Row]]
  BY <1>1, Members
<1>3. TypeOK'
  BY <1>1, <1>2 DEF TypeOK, Op
<1> QED BY <1>1, <1>3, Members

LEMMA WestInStep ==
  ASSUME TypeOK, NEW p \in PE, CtlOK(p), WestIn(p)
  PROVE  /\ TypeOK'
         /\ op[p] = "west_in" /\ op' = [op EXCEPT ![p] = "copy_edge"]
         /\ edgeIn' = [edgeIn EXCEPT ![p] = step[p] + 1]
         /\ UNCHANGED <<step, ghost, band, edgeOut, full, empty, putn, getn, l3, east>>
<1>1. /\ op[p] = "west_in" /\ op' = [op EXCEPT ![p] = "copy_edge"]
      /\ edgeIn' = [edgeIn EXCEPT ![p] = step[p] + 1]
      /\ UNCHANGED <<step, ghost, band, edgeOut, full, empty, putn, getn, l3, east>>
  BY DEF WestIn, Goto, sems
<1>2. step[p] + 1 \in Row
  <2>1. step[p] + 1 \in 0 .. T
    BY <1>1 DEF TypeOK, CtlOK
  <2> QED BY <2>1, Members
<1> QED BY <1>1, <1>2 DEF TypeOK, Op

LEMMA ReleaseStep ==
  ASSUME TypeOK, NEW p \in PE, CtlOK(p), Release(p)
  PROVE  /\ TypeOK'
         /\ op[p] = "release" /\ op' = [op EXCEPT ![p] = "wait_full"]
         /\ \A q \in PE : empty'[q] = IF getn[p] > 0 /\ q = p - 1 THEN empty[q] + 1 ELSE empty[q]
         /\ UNCHANGED <<step, ghost, band, edgeIn, edgeOut, full, putn, getn, l3, east>>
<1>1. /\ op[p] = "release" /\ op' = [op EXCEPT ![p] = "wait_full"]
      /\ empty' = IF getn[p] > 0 THEN [empty EXCEPT ![p - 1] = empty[p - 1] + 1] ELSE empty
      /\ UNCHANGED <<step, ghost, band, edgeIn, edgeOut, full, putn, getn, l3, east>>
  BY DEF Release, Goto, data
<1>2. p - 1 \in PE
  BY <1>1, Members DEF CtlOK
<1>3. empty \in [PE -> Nat] /\ getn[p] \in Nat
  BY DEF TypeOK
<1>4. /\ empty' \in [PE -> Nat]
      /\ \A q \in PE : empty'[q] = IF getn[p] > 0 /\ q = p - 1 THEN empty[q] + 1 ELSE empty[q]
  BY <1>1, <1>2, <1>3
<1>5. TypeOK'
  BY <1>1, <1>4 DEF TypeOK, Op
<1> QED BY <1>1, <1>4, <1>5

LEMMA WaitFullStep ==
  ASSUME TypeOK, NEW p \in PE, WaitFull(p)
  PROVE  /\ TypeOK'
         /\ op[p] = "wait_full" /\ op' = [op EXCEPT ![p] = "copy_edge"]
         /\ full[p] >= getn[p] + 1 /\ getn' = [getn EXCEPT ![p] = getn[p] + 1]
         /\ UNCHANGED <<step, ghost, band, edgeIn, edgeOut, full, empty, putn, l3, east>>
<1>1. /\ op[p] = "wait_full" /\ op' = [op EXCEPT ![p] = "copy_edge"]
      /\ full[p] >= getn[p] + 1 /\ getn' = [getn EXCEPT ![p] = getn[p] + 1]
      /\ UNCHANGED <<step, ghost, band, edgeIn, edgeOut, full, empty, putn, l3, east>>
  BY DEF WaitFull, Goto, data
<1> QED BY <1>1 DEF TypeOK, Op

LEMMA CopyEdgeStep ==
  ASSUME TypeOK, NEW p \in PE, CopyEdge(p)
  PROVE  /\ TypeOK'
         /\ op[p] = "copy_edge" /\ op' = [op EXCEPT ![p] = "score"]
         /\ \A q \in PE, b \in Buf :
              ghost'[q][b] = IF q = p /\ b = Current(step[p]) THEN edgeIn[p] ELSE ghost[q][b]
         /\ UNCHANGED <<step, band, edgeIn, edgeOut, full, empty, putn, getn, l3, east>>
<1> DEFINE c == Current(step[p])
<1>1. /\ op[p] = "copy_edge" /\ op' = [op EXCEPT ![p] = "score"]
      /\ ghost' = [ghost EXCEPT ![p][c] = edgeIn[p]]
      /\ UNCHANGED <<step, band, edgeIn, edgeOut, full, empty, putn, getn, l3, east>>
  BY DEF CopyEdge, Goto, sems
<1>2. c \in Buf /\ edgeIn[p] \in Row /\ ghost \in [PE -> [Buf -> Row]]
  BY BufType DEF TypeOK
<1> HIDE DEF c
<1>3. /\ ghost' \in [PE -> [Buf -> Row]]
      /\ \A q \in PE, b \in Buf : ghost'[q][b] = IF q = p /\ b = c THEN edgeIn[p] ELSE ghost[q][b]
  BY <1>1, <1>2
<1>4. TypeOK'
  BY <1>1, <1>3 DEF TypeOK, Op
<1> QED BY <1>1, <1>3, <1>4 DEF c

LEMMA ScoreStep ==
  ASSUME TypeOK, NEW p \in PE, CtlOK(p), Score(p)
  PROVE  LET n == step[p]
             row == Scored(n, band[p][Previous(n)], ghost[p][Previous(n)], ghost[p][Current(n)])
         IN
         /\ TypeOK'
         /\ op[p] = "score"
         /\ op' = [op EXCEPT ![p] = IF p = Last THEN "east_out" ELSE "wait_empty"]
         /\ edgeOut' = [edgeOut EXCEPT ![p] = row]
         /\ \A q \in PE, b \in Buf :
              band'[q][b] = IF q = p /\ b = Current(step[p]) THEN row ELSE band[q][b]
         /\ UNCHANGED <<step, ghost, edgeIn, full, empty, putn, getn, l3, east>>
<1> DEFINE n == step[p]
           c == Current(step[p])
           row == Scored(n, band[p][Previous(n)], ghost[p][Previous(n)], ghost[p][Current(n)])
<1>1. /\ op[p] = "score"
      /\ op' = [op EXCEPT ![p] = IF p = Last THEN "east_out" ELSE "wait_empty"]
      /\ edgeOut' = [edgeOut EXCEPT ![p] = row]
      /\ band' = [band EXCEPT ![p][c] = row]
      /\ UNCHANGED <<step, ghost, edgeIn, full, empty, putn, getn, l3, east>>
  BY DEF Score, Goto, sems
<1>2. c \in Buf /\ band \in [PE -> [Buf -> Row]]
  BY BufType DEF TypeOK
<1>3. row \in Row
  <2>1. n \in 0 .. T /\ n < T
    BY <1>1 DEF TypeOK, CtlOK
  <2>2. n + 1 \in Row
    BY <2>1, Members
  <2> QED BY <2>2, Members DEF Scored
<1> HIDE DEF c, row
<1>4. /\ band' \in [PE -> [Buf -> Row]]
      /\ \A q \in PE, b \in Buf : band'[q][b] = IF q = p /\ b = c THEN row ELSE band[q][b]
  BY <1>1, <1>2, <1>3
<1>5. TypeOK'
  BY <1>1, <1>3, <1>4 DEF TypeOK, Op
<1> QED BY <1>1, <1>4, <1>5 DEF c, row

LEMMA WaitEmptyStep ==
  ASSUME TypeOK, NEW p \in PE, WaitEmpty(p)
  PROVE  /\ TypeOK'
         /\ op[p] = "wait_empty" /\ op' = [op EXCEPT ![p] = "write"]
         /\ empty[p] >= putn[p]
         /\ UNCHANGED <<step, ghost, band, edgeIn, edgeOut, full, empty, putn, getn, l3, east>>
<1>1. /\ op[p] = "wait_empty" /\ op' = [op EXCEPT ![p] = "write"]
      /\ empty[p] >= EmptyNeeded(putn[p])
      /\ UNCHANGED <<step, ghost, band, edgeIn, edgeOut, full, empty, putn, getn, l3, east>>
  BY DEF WaitEmpty, Goto, data, sems
<1>2. putn[p] \in Nat
  BY DEF TypeOK
<1> QED BY <1>1, <1>2, CreditIsOne DEF TypeOK, Op

LEMMA WriteStep ==
  ASSUME TypeOK, NEW p \in PE, CtlOK(p), Write(p)
  PROVE  /\ TypeOK'
         /\ op[p] = "write" /\ op' = [op EXCEPT ![p] = "signal"]
         /\ edgeIn' = [edgeIn EXCEPT ![p + 1] = edgeOut[p]]
         /\ UNCHANGED <<step, ghost, band, edgeOut, full, empty, putn, getn, l3, east>>
<1>1. /\ op[p] = "write" /\ op' = [op EXCEPT ![p] = "signal"]
      /\ edgeIn' = [edgeIn EXCEPT ![p + 1] = edgeOut[p]]
      /\ UNCHANGED <<step, ghost, band, edgeOut, full, empty, putn, getn, l3, east>>
  BY DEF Write, Goto, sems
<1>2. p + 1 \in PE /\ edgeOut[p] \in Row
  BY <1>1, Members DEF CtlOK, TypeOK
<1> QED BY <1>1, <1>2 DEF TypeOK, Op

LEMMA SignalStep ==
  ASSUME TypeOK, NEW p \in PE, CtlOK(p), Signal(p)
  PROVE  /\ TypeOK'
         /\ op[p] = "signal" /\ op' = [op EXCEPT ![p] = "drain"]
         /\ full' = [full EXCEPT ![p + 1] = full[p + 1] + 1]
         /\ putn' = [putn EXCEPT ![p] = putn[p] + 1]
         /\ UNCHANGED <<step, ghost, band, edgeIn, edgeOut, empty, getn, l3, east>>
<1>1. /\ op[p] = "signal" /\ op' = [op EXCEPT ![p] = "drain"]
      /\ full' = [full EXCEPT ![p + 1] = full[p + 1] + 1]
      /\ putn' = [putn EXCEPT ![p] = putn[p] + 1]
      /\ UNCHANGED <<step, ghost, band, edgeIn, edgeOut, empty, getn, l3, east>>
  BY DEF Signal, Goto, data
<1>2. p + 1 \in PE /\ full \in [PE -> Nat] /\ putn \in [PE -> Nat]
  BY <1>1, Members DEF CtlOK, TypeOK
<1>3. full[p + 1] + 1 \in Nat /\ putn[p] + 1 \in Nat
  BY <1>2
<1>4. full' \in [PE -> Nat] /\ putn' \in [PE -> Nat]
  BY <1>1, <1>2, <1>3
<1> QED BY <1>1, <1>4 DEF TypeOK, Op

LEMMA EastOutStep ==
  ASSUME TypeOK, NEW p \in PE, CtlOK(p), EastOut(p)
  PROVE  /\ TypeOK'
         /\ op[p] = "east_out" /\ op' = [op EXCEPT ![p] = "drain"]
         /\ east' = [east EXCEPT ![step[p] + 1] = edgeOut[p]]
         /\ UNCHANGED <<step, ghost, band, edgeIn, edgeOut, full, empty, putn, getn, l3>>
<1>1. /\ op[p] = "east_out" /\ op' = [op EXCEPT ![p] = "drain"]
      /\ east' = [east EXCEPT ![step[p] + 1] = edgeOut[p]]
      /\ UNCHANGED <<step, ghost, band, edgeIn, edgeOut, full, empty, putn, getn, l3>>
  BY DEF EastOut, Goto, data, sems
<1>2. edgeOut[p] \in Row /\ east \in [0 .. T -> Row]
  BY DEF TypeOK
<1>3. east' \in [0 .. T -> Row]
  BY <1>1, <1>2
<1> QED BY <1>1, <1>3 DEF TypeOK, Op

LEMMA DrainStep ==
  ASSUME TypeOK, NEW p \in PE, CtlOK(p), Drain(p)
  PROVE  LET row == band[p][Current(step[p])] IN
         /\ TypeOK'
         /\ op[p] = "drain" /\ step' = [step EXCEPT ![p] = step[p] + 1]
         /\ op' = [op EXCEPT ![p] = IF step[p] + 1 = T THEN "done"
                                    ELSE IF p = 0 THEN "west_in" ELSE "release"]
         /\ east' = IF p = Last THEN [east EXCEPT ![step[p] + 1] = row] ELSE east
         /\ \A q \in PE, n \in 0 .. T :
              l3'[q][n] = IF q = p /\ n = step[p] + 1 THEN row ELSE l3[q][n]
         /\ UNCHANGED <<ghost, band, edgeIn, edgeOut, full, empty, putn, getn>>
<1> DEFINE row == band[p][Current(step[p])]
           m == step[p] + 1
<1>1. /\ op[p] = "drain" /\ step' = [step EXCEPT ![p] = m]
      /\ op' = [op EXCEPT ![p] = IF m = T THEN "done" ELSE IF p = 0 THEN "west_in" ELSE "release"]
      /\ east' = IF p = Last THEN [east EXCEPT ![m] = row] ELSE east
      /\ l3' = [l3 EXCEPT ![p][m] = row]
      /\ UNCHANGED <<ghost, band, edgeIn, edgeOut, full, empty, putn, getn>>
  BY DEF Drain, EnterTrip, Goto, data, sems
<1>2. row \in Row /\ m \in 0 .. T /\ l3 \in [PE -> [0 .. T -> Row]]
  BY <1>1, BufType DEF TypeOK, CtlOK
<1> HIDE DEF row, m
<1>3. /\ l3' \in [PE -> [0 .. T -> Row]]
      /\ \A q \in PE, n \in 0 .. T : l3'[q][n] = IF q = p /\ n = m THEN row ELSE l3[q][n]
  BY <1>1, <1>2
<1>4. TypeOK'
  BY <1>1, <1>2, <1>3 DEF TypeOK, Op
<1> QED BY <1>1, <1>3, <1>4 DEF row, m

-----------------------------------------------------------------------------
(* The invariant holds initially.                                           *)

LEMMA InitInv == Init => IInv
<1> SUFFICES ASSUME Init PROVE IInv
  OBVIOUS
<1> USE DEF Init
<1>1. TypeOK
  BY DEF TypeOK, Op, Row, Junk
<1>2. \A p \in PE : CtlOK(p) /\ CountOK(p)
  BY DEF CtlOK, CountOK, AfterGet, AfterCopy, AfterScore
<1>3. \A p \in PE : LinkOK(p) /\ EdgeOK(p)
  BY Members DEF LinkOK, EdgeOK, Written
<1>4. \A p \in PE : BandOK(p)
  BY DEF BandOK, RowsScored, AfterCopy, AfterScore, Junk
<1>5. \A p \in PE : L3OK(p)
  BY DEF L3OK, Junk
<1>6. EastOK
  BY Members DEF EastOK, Junk
<1> QED BY <1>1, <1>2, <1>3, <1>4, <1>5, <1>6 DEF IInv

-----------------------------------------------------------------------------
(* A step of core p keeps the invariant if it keeps p's part of it, and that *)
(* of the links p is at one end of.                                          *)

\* What every core keeps while another one steps.
Same(q) ==
  /\ op'[q] = op[q] /\ step'[q] = step[q] /\ putn'[q] = putn[q] /\ getn'[q] = getn[q]
  /\ edgeOut'[q] = edgeOut[q]
  /\ \A b \in Buf : ghost'[q][b] = ghost[q][b] /\ band'[q][b] = band[q][b]
  /\ \A n \in 0 .. T : l3'[q][n] = l3[q][n]

\* The semaphores and the landing place of the link from q.
SameLink(q) == full'[q + 1] = full[q + 1] /\ empty'[q] = empty[q] /\ edgeIn'[q + 1] = edgeIn[q + 1]

\* A step of p changes no variable of another core, and no link that p is not
\* at one end of.
LEMMA Frame ==
  ASSUME TypeOK, NEW p \in PE, CtlOK(p), Core(p)
  PROVE  /\ TypeOK'
         /\ \A q \in PE : q # p => Same(q) /\ (q = 0 => edgeIn'[q] = edgeIn[q])
         /\ \A q \in PE : q < Last /\ q # p /\ q + 1 # p => SameLink(q)
<1>t. /\ op \in [PE -> Op] /\ step \in [PE -> 0 .. T] /\ putn \in [PE -> Nat]
      /\ getn \in [PE -> Nat] /\ full \in [PE -> Nat] /\ empty \in [PE -> Nat]
      /\ edgeIn \in [PE -> Row] /\ edgeOut \in [PE -> Row]
  BY DEF TypeOK
<1>1. CASE Stage(p)
  <2>1. /\ TypeOK' /\ step' = [step EXCEPT ![p] = 0]
        /\ op' = [op EXCEPT ![p] = IF 0 = T THEN "done" ELSE IF p = 0 THEN "west_in" ELSE "release"]
        /\ UNCHANGED <<edgeIn, edgeOut, full, empty, putn, getn, l3>>
        /\ \A q \in PE, b \in Buf :
             /\ ghost'[q][b] = IF q = p /\ b = "prev" THEN 0 ELSE ghost[q][b]
             /\ band'[q][b] = IF q = p /\ b = "prev" THEN 0 ELSE band[q][b]
    BY <1>1, StageStep
  <2> QED BY <1>t, <2>1 DEF Same, SameLink
<1>2. CASE WestIn(p)
  <2>1. /\ TypeOK' /\ op' = [op EXCEPT ![p] = "copy_edge"]
        /\ edgeIn' = [edgeIn EXCEPT ![p] = step[p] + 1]
        /\ UNCHANGED <<step, ghost, band, edgeOut, full, empty, putn, getn, l3>>
    BY <1>2, WestInStep
  <2>2. \A q \in PE : q # p => Same(q) /\ edgeIn'[q] = edgeIn[q]
    BY <1>t, <2>1 DEF Same
  <2>3. \A q \in PE : q < Last /\ q + 1 # p => SameLink(q)
    BY <1>t, <2>1, Members DEF SameLink
  <2> QED BY <2>1, <2>2, <2>3
<1>3. CASE Release(p)
  <2>1. /\ TypeOK' /\ op' = [op EXCEPT ![p] = "wait_full"]
        /\ \A q \in PE : empty'[q] = IF getn[p] > 0 /\ q = p - 1 THEN empty[q] + 1 ELSE empty[q]
        /\ UNCHANGED <<step, ghost, band, edgeIn, edgeOut, full, putn, getn, l3>>
    BY <1>3, ReleaseStep
  <2>2. \A q \in PE : q # p => Same(q) /\ edgeIn'[q] = edgeIn[q]
    BY <1>t, <2>1 DEF Same
  <2>3. \A q \in PE : q + 1 # p => SameLink(q)
    BY <1>t, <2>1, Members DEF SameLink
  <2> QED BY <2>1, <2>2, <2>3
<1>4. CASE WaitFull(p)
  <2>1. /\ TypeOK' /\ op' = [op EXCEPT ![p] = "copy_edge"]
        /\ getn' = [getn EXCEPT ![p] = getn[p] + 1]
        /\ UNCHANGED <<step, ghost, band, edgeIn, edgeOut, full, empty, putn, l3>>
    BY <1>4, WaitFullStep
  <2> QED BY <1>t, <2>1 DEF Same, SameLink
<1>5. CASE CopyEdge(p)
  <2>1. /\ TypeOK' /\ op' = [op EXCEPT ![p] = "score"]
        /\ \A q \in PE, b \in Buf :
             ghost'[q][b] = IF q = p /\ b = Current(step[p]) THEN edgeIn[p] ELSE ghost[q][b]
        /\ UNCHANGED <<step, band, edgeIn, edgeOut, full, empty, putn, getn, l3>>
    BY <1>5, CopyEdgeStep
  <2> QED BY <1>t, <2>1 DEF Same, SameLink
<1>6. CASE Score(p)
  <2> DEFINE n == step[p]
             row == Scored(n, band[p][Previous(n)], ghost[p][Previous(n)], ghost[p][Current(n)])
  <2>1. /\ TypeOK'
        /\ op' = [op EXCEPT ![p] = IF p = Last THEN "east_out" ELSE "wait_empty"]
        /\ edgeOut' = [edgeOut EXCEPT ![p] = row]
        /\ \A q \in PE, b \in Buf :
             band'[q][b] = IF q = p /\ b = Current(n) THEN row ELSE band[q][b]
        /\ UNCHANGED <<step, ghost, edgeIn, full, empty, putn, getn, l3>>
    BY <1>6, ScoreStep
  <2> HIDE DEF n, row
  <2> QED BY <1>t, <2>1 DEF Same, SameLink
<1>7. CASE WaitEmpty(p)
  <2>1. /\ TypeOK' /\ op' = [op EXCEPT ![p] = "write"]
        /\ UNCHANGED <<step, ghost, band, edgeIn, edgeOut, full, empty, putn, getn, l3>>
    BY <1>7, WaitEmptyStep
  <2> QED BY <1>t, <2>1 DEF Same, SameLink
<1>8. CASE Write(p)
  <2>1. /\ TypeOK' /\ op' = [op EXCEPT ![p] = "signal"] /\ p < Last
        /\ edgeIn' = [edgeIn EXCEPT ![p + 1] = edgeOut[p]]
        /\ UNCHANGED <<step, ghost, band, edgeOut, full, empty, putn, getn, l3>>
    BY <1>8, WriteStep DEF CtlOK
  <2>2. \A q \in PE : q # p => Same(q)
    BY <1>t, <2>1 DEF Same
  <2>3. \A q \in PE : q # p + 1 => edgeIn'[q] = edgeIn[q]
    BY <1>t, <2>1
  <2>4. p + 1 # 0 /\ \A q \in PE : q < Last /\ q # p => q + 1 \in PE /\ q + 1 # p + 1
    BY Members
  <2>5. \A q \in PE : q < Last /\ q # p => SameLink(q)
    BY <2>1, <2>3, <2>4 DEF SameLink
  <2> QED BY <2>1, <2>2, <2>3, <2>4, <2>5
<1>9. CASE Signal(p)
  <2>1. /\ TypeOK' /\ op' = [op EXCEPT ![p] = "drain"]
        /\ full' = [full EXCEPT ![p + 1] = full[p + 1] + 1]
        /\ putn' = [putn EXCEPT ![p] = putn[p] + 1]
        /\ UNCHANGED <<step, ghost, band, edgeIn, edgeOut, empty, getn, l3>>
    BY <1>9, SignalStep
  <2>2. \A q \in PE : q # p => Same(q) /\ edgeIn'[q] = edgeIn[q]
    BY <1>t, <2>1 DEF Same
  <2>3. \A q \in PE : q # p + 1 => full'[q] = full[q]
    BY <1>t, <2>1
  <2>4. \A q \in PE : q < Last /\ q # p => q + 1 \in PE /\ q + 1 # p + 1
    BY Members
  <2>5. \A q \in PE : q < Last /\ q # p => SameLink(q)
    BY <2>1, <2>3, <2>4 DEF SameLink
  <2> QED BY <2>1, <2>2, <2>5
<1>10. CASE EastOut(p)
  <2>1. /\ TypeOK' /\ op' = [op EXCEPT ![p] = "drain"]
        /\ UNCHANGED <<step, ghost, band, edgeIn, edgeOut, full, empty, putn, getn, l3>>
    BY <1>10, EastOutStep
  <2> QED BY <1>t, <2>1 DEF Same, SameLink
<1>11. CASE Drain(p)
  <2> DEFINE row == band[p][Current(step[p])]
  <2>1. /\ TypeOK' /\ step' = [step EXCEPT ![p] = step[p] + 1]
        /\ op' = [op EXCEPT ![p] = IF step[p] + 1 = T THEN "done"
                                   ELSE IF p = 0 THEN "west_in" ELSE "release"]
        /\ \A q \in PE, n \in 0 .. T :
             l3'[q][n] = IF q = p /\ n = step[p] + 1 THEN row ELSE l3[q][n]
        /\ UNCHANGED <<ghost, band, edgeIn, edgeOut, full, empty, putn, getn>>
    BY <1>11, DrainStep
  <2> HIDE DEF row
  <2> QED BY <1>t, <2>1 DEF Same, SameLink
<1> QED BY <1>1, <1>2, <1>3, <1>4, <1>5, <1>6, <1>7, <1>8, <1>9, <1>10, <1>11 DEF Core, Get, Put

LEMMA StepKeeps ==
  ASSUME IInv, NEW p \in PE, Core(p),
         CtlOK(p)', CountOK(p)', BandOK(p)', L3OK(p)', EastOK',
         LinkOK(p)', EdgeOK(p)', p > 0 => LinkOK(p - 1)' /\ EdgeOK(p - 1)'
  PROVE  IInv'
<1>1. /\ TypeOK
      /\ \A q \in PE : CtlOK(q) /\ CountOK(q) /\ LinkOK(q) /\ EdgeOK(q) /\ BandOK(q) /\ L3OK(q)
  BY DEF IInv
<1>2. /\ TypeOK'
      /\ \A q \in PE : q # p => Same(q) /\ (q = 0 => edgeIn'[q] = edgeIn[q])
      /\ \A q \in PE : q < Last /\ q # p /\ q + 1 # p => SameLink(q)
  BY <1>1, Frame
<1>3. ASSUME NEW q \in PE, q # p
      PROVE  CtlOK(q)' /\ CountOK(q)' /\ BandOK(q)' /\ L3OK(q)'
  <2>1. Same(q) /\ step[q] \in Nat
    BY <1>1, <1>2, <1>3 DEF TypeOK
  <2>2. CtlOK(q)' /\ CountOK(q)'
    BY <1>1, <2>1 DEF Same, CtlOK, CountOK, AfterGet, AfterCopy, AfterScore
  <2>3. BandOK(q)'
    BY <1>1, <2>1, BufType DEF Same, BandOK, RowsScored, AfterCopy, AfterScore
  <2>4. L3OK(q)'
    BY <1>1, <2>1 DEF Same, L3OK
  <2> QED BY <2>2, <2>3, <2>4
<1>4. ASSUME NEW q \in PE, q # p PROVE LinkOK(q)' /\ EdgeOK(q)'
  <2>1. Same(q) /\ LinkOK(q) /\ EdgeOK(q) /\ (q = 0 => edgeIn'[q] = edgeIn[q])
    BY <1>1, <1>2, <1>4
  <2>2. CASE q + 1 = p
    <3>1. p > 0 /\ q = p - 1
      BY <2>2, Members
    <3> QED BY <3>1
  <2>3. CASE q < Last /\ q + 1 # p
    <3>1. SameLink(q) /\ Same(q + 1)
      BY <1>2, <1>4, <2>3, Members
    <3> QED BY <2>1, <3>1 DEF LinkOK, EdgeOK, Written, Same, SameLink
  <2>4. CASE ~(q < Last)
    BY <2>1, <2>4 DEF LinkOK, EdgeOK, Same
  <2> QED BY <2>2, <2>3, <2>4
<1>5. \A q \in PE : /\ CtlOK(q)' /\ CountOK(q)' /\ LinkOK(q)'
                    /\ EdgeOK(q)' /\ BandOK(q)' /\ L3OK(q)'
  BY <1>3, <1>4
<1> QED BY <1>2, <1>5 DEF IInv

\* The parts of the invariant, and the types of a core's state.
LEMMA Parts ==
  ASSUME IInv
  PROVE  /\ TypeOK /\ EastOK
         /\ \A p \in PE : /\ CtlOK(p) /\ CountOK(p) /\ LinkOK(p)
                          /\ EdgeOK(p) /\ BandOK(p) /\ L3OK(p)
         /\ \A p \in PE : /\ op[p] \in Op /\ step[p] \in Nat /\ step[p] \in 0 .. T
                          /\ full[p] \in Nat /\ empty[p] \in Nat
                          /\ putn[p] \in Nat /\ getn[p] \in Nat
                          /\ Previous(step[p]) \in Buf /\ Current(step[p]) \in Buf
                          /\ Previous(step[p]) # Current(step[p])
<1>1. TypeOK
  BY DEF IInv
<1>2. \A p \in PE : /\ op[p] \in Op /\ step[p] \in Nat /\ step[p] \in 0 .. T
                    /\ full[p] \in Nat /\ empty[p] \in Nat
                    /\ putn[p] \in Nat /\ getn[p] \in Nat
  BY <1>1 DEF TypeOK
<1> QED BY <1>1, <1>2, BufType DEF IInv

\* What the neighbours of p keep while p steps.
LEMMA PeerSame ==
  ASSUME IInv, NEW p \in PE, Core(p)
  PROVE  /\ p < Last => p + 1 \in PE /\ Same(p + 1)
         /\ p > 0 => p - 1 \in PE /\ Same(p - 1)
BY Parts, Frame, Members

\* A step that moves no strip, counter or semaphore leaves both links alone.
LEMMA QuietLinks ==
  ASSUME IInv, NEW p \in PE, Core(p), UNCHANGED <<full, empty, edgeIn>>,
         putn'[p] = putn[p], getn'[p] = getn[p],
         op[p] \notin {"signal", "wait_full"},
         op'[p] \notin {"write", "signal", "wait_full", "copy_edge"}
  PROVE  /\ LinkOK(p)' /\ EdgeOK(p)'
         /\ p > 0 => LinkOK(p - 1)' /\ EdgeOK(p - 1)'
<1>1. LinkOK(p)' /\ EdgeOK(p)'
  <2>1. LinkOK(p) /\ EdgeOK(p) /\ (p < Last => Same(p + 1))
    BY Parts, PeerSame
  <2> QED BY <2>1 DEF LinkOK, EdgeOK, Written, Same
<1>2. ASSUME p > 0 PROVE LinkOK(p - 1)' /\ EdgeOK(p - 1)'
  <2>1. p - 1 \in PE /\ LinkOK(p - 1) /\ EdgeOK(p - 1) /\ Same(p - 1) /\ (p - 1) + 1 = p
    BY <1>2, Parts, PeerSame, Members
  <2> QED BY <2>1 DEF LinkOK, EdgeOK, Written, Same
<1> QED BY <1>1, <1>2

\* A core other than the last leaves the last column alone, and so does a step
\* of the last that neither writes it nor ends a trip.
LEMMA QuietEast ==
  ASSUME IInv, NEW p \in PE, Core(p), east' = east,
         p = Last => step'[p] = step[p] /\ op[p] # "drain" /\ op'[p] # "drain"
  PROVE  EastOK'
<1>1. EastOK /\ Last \in PE
  BY Parts, Members
<1>2. CASE p = Last
  BY <1>1, <1>2 DEF EastOK
<1>3. CASE p # Last
  <2>1. Same(Last)
    BY <1>1, <1>3, Parts, Frame
  <2> QED BY <1>1, <2>1 DEF EastOK, Same
<1> QED BY <1>2, <1>3

LEMMA StageInv == ASSUME IInv, NEW p \in PE, Stage(p) PROVE IInv'
<1>1. /\ op[p] = "stage" /\ step[p] = 0 /\ step'[p] = 0
      /\ op'[p] = IF 0 = T THEN "done" ELSE IF p = 0 THEN "west_in" ELSE "release"
      /\ UNCHANGED <<edgeIn, edgeOut, full, empty, putn, getn, l3, east>>
  BY Parts, StageStep DEF CtlOK, TypeOK
<1>2. \A b \in Buf : /\ ghost'[p][b] = IF b = "prev" THEN 0 ELSE ghost[p][b]
                     /\ band'[p][b] = IF b = "prev" THEN 0 ELSE band[p][b]
  BY Parts, StageStep
<1>3. Core(p)
  BY DEF Core
<1>4. CtlOK(p)' /\ CountOK(p)' /\ L3OK(p)'
  <2>1. CtlOK(p) /\ CountOK(p) /\ L3OK(p)
    BY Parts
  <2> QED BY <1>1, <2>1, Members DEF CtlOK, CountOK, L3OK, AfterGet, AfterCopy, AfterScore
<1>5. BandOK(p)'
  <2>1. BandOK(p)
    BY Parts
  <2> QED BY <1>1, <1>2, <2>1, FirstTrip, Members DEF BandOK, RowsScored, AfterCopy, AfterScore
<1>6. EastOK'
  BY <1>1, <1>3, QuietEast
<1> QED BY <1>1, <1>3, <1>4, <1>5, <1>6, QuietLinks, StepKeeps

LEMMA WestInInv == ASSUME IInv, NEW p \in PE, WestIn(p) PROVE IInv'
<1>1. /\ op[p] = "west_in" /\ op'[p] = "copy_edge" /\ p = 0 /\ edgeIn'[p] = step[p] + 1
      /\ \A q \in PE : q # p => edgeIn'[q] = edgeIn[q]
      /\ UNCHANGED <<step, ghost, band, edgeOut, full, empty, putn, getn, l3, east>>
  BY Parts, WestInStep DEF CtlOK, TypeOK
<1>2. Core(p)
  BY DEF Core, Get
<1>3. CtlOK(p)' /\ CountOK(p)' /\ L3OK(p)' /\ BandOK(p)'
  <2>1. CtlOK(p) /\ CountOK(p) /\ L3OK(p) /\ BandOK(p)
    BY Parts
  <2> QED BY <1>1, <2>1 DEF CtlOK, CountOK, L3OK, BandOK, RowsScored, AfterGet, AfterCopy, AfterScore
<1>4. EastOK'
  BY <1>1, <1>2, QuietEast
<1>5. LinkOK(p)' /\ EdgeOK(p)'
  <2>1. LinkOK(p) /\ EdgeOK(p) /\ p + 1 \in PE /\ p + 1 # p /\ Same(p + 1)
    BY <1>1, <1>2, Parts, PeerSame, Members
  <2> QED BY <1>1, <2>1 DEF LinkOK, EdgeOK, Written, Same
<1> QED BY <1>1, <1>2, <1>3, <1>4, <1>5, StepKeeps

LEMMA ReleaseInv == ASSUME IInv, NEW p \in PE, Release(p) PROVE IInv'
<1>1. /\ op[p] = "release" /\ op'[p] = "wait_full" /\ p > 0
      /\ UNCHANGED <<step, ghost, band, edgeIn, edgeOut, full, putn, getn, l3, east>>
  BY Parts, ReleaseStep DEF CtlOK, TypeOK
<1>2. \A q \in PE : empty'[q] = IF getn[p] > 0 /\ q = p - 1 THEN empty[q] + 1 ELSE empty[q]
  BY Parts, ReleaseStep
<1>3. Core(p)
  BY DEF Core, Get
<1>4. CtlOK(p)' /\ CountOK(p)' /\ L3OK(p)' /\ BandOK(p)'
  <2>1. CtlOK(p) /\ CountOK(p) /\ L3OK(p) /\ BandOK(p)
    BY Parts
  <2> QED BY <1>1, <2>1 DEF CtlOK, CountOK, L3OK, BandOK, RowsScored, AfterGet, AfterCopy, AfterScore
<1>5. EastOK'
  BY <1>1, <1>3, QuietEast
<1>6. LinkOK(p)' /\ EdgeOK(p)'
  <2>1. LinkOK(p) /\ EdgeOK(p) /\ (p < Last => Same(p + 1)) /\ empty'[p] = empty[p]
    BY <1>2, <1>3, Parts, PeerSame, Members
  <2> QED BY <1>1, <2>1 DEF LinkOK, EdgeOK, Written, Same
<1>7. LinkOK(p - 1)' /\ EdgeOK(p - 1)'
  <2> DEFINE q == p - 1
  <2>1. q \in PE /\ q + 1 = p /\ q < Last /\ LinkOK(q) /\ EdgeOK(q) /\ Same(q)
        /\ getn[p] \in Nat /\ putn[q] \in Nat /\ empty[q] \in Nat
    BY <1>1, <1>3, Parts, PeerSame, Members
  <2>2. empty'[q] = IF getn[p] > 0 THEN empty[q] + 1 ELSE empty[q]
    BY <1>2, <2>1
  <2> HIDE DEF q
  <2>3. LinkOK(q)'
    BY <1>1, <2>1, <2>2 DEF LinkOK, Same
  <2>4. EdgeOK(q)'
    BY <1>1, <2>1 DEF EdgeOK, Written, Same
  <2> QED BY <2>3, <2>4 DEF q
<1> QED BY <1>1, <1>3, <1>4, <1>5, <1>6, <1>7, StepKeeps

LEMMA WaitFullInv == ASSUME IInv, NEW p \in PE, WaitFull(p) PROVE IInv'
<1>1. /\ op[p] = "wait_full" /\ op'[p] = "copy_edge" /\ p > 0
      /\ full[p] >= getn[p] + 1 /\ getn'[p] = getn[p] + 1
      /\ UNCHANGED <<step, ghost, band, edgeIn, edgeOut, full, empty, putn, l3, east>>
  BY Parts, WaitFullStep DEF CtlOK, TypeOK
<1>2. Core(p)
  BY DEF Core, Get
<1>3. CtlOK(p)' /\ CountOK(p)' /\ L3OK(p)' /\ BandOK(p)'
  <2>1. CtlOK(p) /\ CountOK(p) /\ L3OK(p) /\ BandOK(p) /\ step[p] \in Nat
    BY Parts
  <2> QED BY <1>1, <2>1 DEF CtlOK, CountOK, L3OK, BandOK, RowsScored, AfterGet, AfterCopy, AfterScore
<1>4. EastOK'
  BY <1>1, <1>2, QuietEast
<1>5. LinkOK(p)' /\ EdgeOK(p)'
  <2>1. LinkOK(p) /\ EdgeOK(p) /\ (p < Last => Same(p + 1))
    BY <1>2, Parts, PeerSame
  <2> QED BY <1>1, <2>1 DEF LinkOK, EdgeOK, Written, Same
<1>6. LinkOK(p - 1)' /\ EdgeOK(p - 1)'
  <2> DEFINE q == p - 1
  <2>1. q \in PE /\ q + 1 = p /\ q < Last /\ LinkOK(q) /\ EdgeOK(q) /\ Same(q)
        /\ getn[p] \in Nat /\ putn[q] \in Nat /\ empty[q] \in Nat
    BY <1>1, <1>2, Parts, PeerSame, Members
  <2> HIDE DEF q
  <2>2. LinkOK(q)'
    BY <1>1, <2>1 DEF LinkOK, Same
  <2>3. EdgeOK(q)'
    BY <1>1, <2>1 DEF EdgeOK, Written, Same
  <2> QED BY <2>2, <2>3 DEF q
<1> QED BY <1>1, <1>2, <1>3, <1>4, <1>5, <1>6, StepKeeps

\* A core about to copy finds the strip of its row in edge_in: its producer has
\* written that one and no other, as it may not write the next before this one
\* is given back.
LEMMA StripIsThere ==
  ASSUME IInv, NEW p \in PE, op[p] = "copy_edge"
  PROVE  edgeIn[p] = step[p] + 1
<1>1. CASE p = 0
  BY <1>1, Parts DEF EdgeOK
<1>2. CASE p # 0
  <2> DEFINE q == p - 1
  <2>1. p > 0 /\ q \in PE /\ q + 1 = p /\ q < Last
    BY <1>2, Members
  <2>2. LinkOK(q) /\ EdgeOK(q) /\ CountOK(p) /\ getn[p] \in Nat /\ putn[q] \in Nat
        /\ empty[q] \in Nat /\ step[p] \in Nat
    BY <2>1, Parts
  <2> HIDE DEF q
  <2>3. getn[p] = step[p] + 1
    BY <2>1, <2>2 DEF CountOK, AfterGet
  <2>4. putn[q] = step[p] + 1 /\ op[q] # "signal"
    BY <2>1, <2>2, <2>3 DEF LinkOK
  <2> QED BY <2>1, <2>2, <2>4 DEF EdgeOK, Written
<1> QED BY <1>1, <1>2

\* What is scored is ready, so the row scored is the next one.
LEMMA ReadyInv ==
  ASSUME IInv, NEW p \in PE, op[p] = "score"
  PROVE  LET n == step[p] IN
         /\ Ready(n, band[p][Previous(n)], ghost[p][Previous(n)], ghost[p][Current(n)])
         /\ Scored(n, band[p][Previous(n)], ghost[p][Previous(n)], ghost[p][Current(n)]) = n + 1
<1>1. BandOK(p)
  BY Parts
<1> QED BY <1>1 DEF BandOK, AfterCopy, Ready, Scored

LEMMA CopyEdgeInv == ASSUME IInv, NEW p \in PE, CopyEdge(p) PROVE IInv'
<1>1. /\ op[p] = "copy_edge" /\ op'[p] = "score"
      /\ UNCHANGED <<step, band, edgeIn, edgeOut, full, empty, putn, getn, l3, east>>
  BY Parts, CopyEdgeStep DEF TypeOK
<1>2. \A b \in Buf : ghost'[p][b] = IF b = Current(step[p]) THEN step[p] + 1 ELSE ghost[p][b]
  BY <1>1, Parts, CopyEdgeStep, StripIsThere
<1>3. Core(p)
  BY DEF Core
<1>4. CtlOK(p)' /\ CountOK(p)' /\ L3OK(p)'
  <2>1. CtlOK(p) /\ CountOK(p) /\ L3OK(p)
    BY Parts
  <2> QED BY <1>1, <2>1 DEF CtlOK, CountOK, L3OK, AfterGet, AfterCopy, AfterScore
<1>5. BandOK(p)'
  <2>1. BandOK(p) /\ Previous(step[p]) \in Buf /\ Current(step[p]) \in Buf
        /\ Previous(step[p]) # Current(step[p])
    BY Parts
  <2> QED BY <1>1, <1>2, <2>1 DEF BandOK, RowsScored, AfterCopy, AfterScore
<1>6. EastOK'
  BY <1>1, <1>3, QuietEast
<1> QED BY <1>1, <1>3, <1>4, <1>5, <1>6, QuietLinks, StepKeeps

LEMMA ScoreInv == ASSUME IInv, NEW p \in PE, Score(p) PROVE IInv'
<1>1. /\ op[p] = "score" /\ op'[p] = IF p = Last THEN "east_out" ELSE "wait_empty"
      /\ edgeOut'[p] = step[p] + 1
      /\ UNCHANGED <<step, ghost, edgeIn, full, empty, putn, getn, l3, east>>
  <2> DEFINE n == step[p]
             row == Scored(n, band[p][Previous(n)], ghost[p][Previous(n)], ghost[p][Current(n)])
  <2>1. /\ op[p] = "score" /\ op' = [op EXCEPT ![p] = IF p = Last THEN "east_out" ELSE "wait_empty"]
        /\ edgeOut' = [edgeOut EXCEPT ![p] = row]
        /\ UNCHANGED <<step, ghost, edgeIn, full, empty, putn, getn, l3, east>>
    BY Parts, ScoreStep
  <2>2. row = n + 1
    BY <2>1, ReadyInv
  <2>3. op \in [PE -> Op] /\ edgeOut \in [PE -> Row]
    BY Parts DEF TypeOK
  <2> HIDE DEF row
  <2> QED BY <2>1, <2>2, <2>3
<1>2. \A b \in Buf : band'[p][b] = IF b = Current(step[p]) THEN step[p] + 1 ELSE band[p][b]
  BY <1>1, Parts, ScoreStep, ReadyInv
<1>3. Core(p)
  BY DEF Core
<1>4. CtlOK(p)' /\ CountOK(p)' /\ L3OK(p)'
  <2>1. CtlOK(p) /\ CountOK(p) /\ L3OK(p)
    BY Parts
  <2>2. p = Last \/ p < Last
    BY Members
  <2> QED BY <1>1, <2>1, <2>2 DEF CtlOK, CountOK, L3OK, AfterGet, AfterCopy, AfterScore
<1>5. BandOK(p)'
  <2>1. BandOK(p) /\ Previous(step[p]) \in Buf /\ Current(step[p]) \in Buf
        /\ Previous(step[p]) # Current(step[p]) /\ step[p] \in Nat
    BY Parts
  <2>2. \A b \in Buf : band[p][b] <= step[p]
    BY <1>1, <2>1 DEF BandOK, RowsScored, AfterScore
  <2>3. AfterScore(p)' /\ AfterCopy(p)' /\ RowsScored(p)' = step[p] + 1
    BY <1>1 DEF AfterScore, AfterCopy, RowsScored
  <2>4. \A b \in Buf : band[p][b] \in Int
    <3>1. \A b \in Buf : band[p][b] \in Row
      BY Parts DEF TypeOK
    <3> QED BY <3>1, Members
  <2> QED BY <1>1, <1>2, <2>1, <2>2, <2>3, <2>4 DEF BandOK, AfterCopy
<1>6. EastOK'
  BY <1>1, <1>3, QuietEast
<1> QED BY <1>1, <1>3, <1>4, <1>5, <1>6, QuietLinks, StepKeeps

LEMMA WaitEmptyInv == ASSUME IInv, NEW p \in PE, WaitEmpty(p) PROVE IInv'
<1>1. /\ op[p] = "wait_empty" /\ op'[p] = "write" /\ empty[p] >= putn[p]
      /\ UNCHANGED <<step, ghost, band, edgeIn, edgeOut, full, empty, putn, getn, l3, east>>
  BY Parts, WaitEmptyStep DEF TypeOK
<1>2. Core(p)
  BY DEF Core, Put
<1>3. CtlOK(p)' /\ CountOK(p)' /\ L3OK(p)' /\ BandOK(p)'
  <2>1. CtlOK(p) /\ CountOK(p) /\ L3OK(p) /\ BandOK(p)
    BY Parts
  <2> QED BY <1>1, <2>1 DEF CtlOK, CountOK, L3OK, BandOK, RowsScored, AfterGet, AfterCopy, AfterScore
<1>4. EastOK'
  BY <1>1, <1>2, QuietEast
<1>5. LinkOK(p)' /\ EdgeOK(p)'
  <2>1. LinkOK(p) /\ EdgeOK(p) /\ (p < Last => Same(p + 1)) /\ empty[p] \in Nat /\ putn[p] \in Nat
    BY <1>2, Parts, PeerSame
  <2> QED BY <1>1, <2>1 DEF LinkOK, EdgeOK, Written, Same
<1>6. ASSUME p > 0 PROVE LinkOK(p - 1)' /\ EdgeOK(p - 1)'
  <2>1. p - 1 \in PE /\ LinkOK(p - 1) /\ EdgeOK(p - 1) /\ Same(p - 1) /\ (p - 1) + 1 = p
    BY <1>2, <1>6, Parts, PeerSame, Members
  <2> QED BY <1>1, <2>1 DEF LinkOK, EdgeOK, Written, Same
<1> QED BY <1>1, <1>2, <1>3, <1>4, <1>5, <1>6, StepKeeps

LEMMA WriteInv == ASSUME IInv, NEW p \in PE, Write(p) PROVE IInv'
<1>1. /\ op[p] = "write" /\ op'[p] = "signal" /\ p < Last
      /\ UNCHANGED <<step, ghost, band, edgeOut, full, empty, putn, getn, l3, east>>
  BY Parts, WriteStep DEF CtlOK, TypeOK
<1>2. \A q \in PE : edgeIn'[q] = IF q = p + 1 THEN edgeOut[p] ELSE edgeIn[q]
  BY Parts, WriteStep DEF TypeOK
<1>3. Core(p)
  BY DEF Core, Put
<1>4. CtlOK(p)' /\ CountOK(p)' /\ L3OK(p)' /\ BandOK(p)'
  <2>1. CtlOK(p) /\ CountOK(p) /\ L3OK(p) /\ BandOK(p)
    BY Parts
  <2> QED BY <1>1, <2>1 DEF CtlOK, CountOK, L3OK, BandOK, RowsScored, AfterGet, AfterCopy, AfterScore
<1>5. EastOK'
  BY <1>1, <1>3, QuietEast
<1>6. LinkOK(p)' /\ EdgeOK(p)'
  <2>1. LinkOK(p) /\ CountOK(p) /\ BandOK(p) /\ p + 1 \in PE /\ Same(p + 1)
    BY <1>1, <1>3, Parts, PeerSame
  <2>2. edgeIn'[p + 1] = step[p] + 1 /\ putn[p] = step[p]
    BY <1>1, <1>2, <2>1, Parts DEF BandOK, AfterScore, CountOK
  <2>3. LinkOK(p)'
    BY <1>1, <2>1 DEF LinkOK, Same
  <2>4. Written(p)' = step[p] + 1
    BY <1>1, <2>2 DEF Written
  <2> QED BY <1>1, <2>2, <2>3, <2>4 DEF EdgeOK
<1>7. ASSUME p > 0 PROVE LinkOK(p - 1)' /\ EdgeOK(p - 1)'
  <2>1. p - 1 \in PE /\ LinkOK(p - 1) /\ EdgeOK(p - 1) /\ Same(p - 1) /\ (p - 1) + 1 = p
        /\ edgeIn'[p] = edgeIn[p] /\ edgeIn'[p - 1] = edgeIn[p - 1]
    BY <1>2, <1>3, <1>7, Parts, PeerSame, Members
  <2> QED BY <1>1, <2>1 DEF LinkOK, EdgeOK, Written, Same
<1> QED BY <1>1, <1>3, <1>4, <1>5, <1>6, <1>7, StepKeeps

LEMMA SignalInv == ASSUME IInv, NEW p \in PE, Signal(p) PROVE IInv'
<1>1. /\ op[p] = "signal" /\ op'[p] = "drain" /\ p < Last
      /\ putn'[p] = putn[p] + 1
      /\ UNCHANGED <<step, ghost, band, edgeIn, edgeOut, empty, getn, l3, east>>
  BY Parts, SignalStep DEF CtlOK, TypeOK
<1>2. \A q \in PE : full'[q] = IF q = p + 1 THEN full[q] + 1 ELSE full[q]
  <2>1. full' = [full EXCEPT ![p + 1] = full[p + 1] + 1] /\ full \in [PE -> Nat]
    BY Parts, SignalStep DEF TypeOK
  <2> QED BY <2>1
<1>3. Core(p)
  BY DEF Core, Put
<1>4. CtlOK(p)' /\ CountOK(p)' /\ L3OK(p)' /\ BandOK(p)'
  <2>1. CtlOK(p) /\ CountOK(p) /\ L3OK(p) /\ BandOK(p) /\ step[p] \in Nat
    BY Parts
  <2> QED BY <1>1, <2>1 DEF CtlOK, CountOK, L3OK, BandOK, RowsScored, AfterGet, AfterCopy, AfterScore
<1>5. EastOK'
  BY <1>1, <1>3, Members, QuietEast
<1>6. LinkOK(p)' /\ EdgeOK(p)'
  <2>1. LinkOK(p) /\ EdgeOK(p) /\ p + 1 \in PE /\ Same(p + 1) /\ full'[p + 1] = full[p + 1] + 1
        /\ putn[p] \in Nat /\ getn[p + 1] \in Nat /\ empty[p] \in Nat
    BY <1>1, <1>2, <1>3, Parts, PeerSame
  <2> QED BY <1>1, <2>1 DEF LinkOK, EdgeOK, Written, Same
<1>7. ASSUME p > 0 PROVE LinkOK(p - 1)' /\ EdgeOK(p - 1)'
  <2>1. p - 1 \in PE /\ LinkOK(p - 1) /\ EdgeOK(p - 1) /\ Same(p - 1) /\ (p - 1) + 1 = p
        /\ full'[p] = full[p]
    BY <1>2, <1>3, <1>7, Parts, PeerSame, Members
  <2> QED BY <1>1, <2>1 DEF LinkOK, EdgeOK, Written, Same
<1> QED BY <1>1, <1>3, <1>4, <1>5, <1>6, <1>7, StepKeeps

LEMMA EastOutInv == ASSUME IInv, NEW p \in PE, EastOut(p) PROVE IInv'
<1>1. /\ op[p] = "east_out" /\ op'[p] = "drain" /\ p = Last /\ step[p] + 1 \in 0 .. T
      /\ UNCHANGED <<step, ghost, band, edgeIn, edgeOut, full, empty, putn, getn, l3>>
  <2>1. /\ op[p] = "east_out" /\ op' = [op EXCEPT ![p] = "drain"]
        /\ UNCHANGED <<step, ghost, band, edgeIn, edgeOut, full, empty, putn, getn, l3>>
    BY Parts, EastOutStep
  <2>2. op \in [PE -> Op] /\ step[p] \in 0 .. T /\ CtlOK(p)
    BY Parts DEF TypeOK
  <2> QED BY <2>1, <2>2 DEF CtlOK
<1>2. \A n \in 0 .. T : east'[n] = IF n = step[p] + 1 THEN step[p] + 1 ELSE east[n]
  <2>1. east' = [east EXCEPT ![step[p] + 1] = edgeOut[p]] /\ east \in [0 .. T -> Row]
    BY Parts, EastOutStep DEF TypeOK
  <2>2. edgeOut[p] = step[p] + 1
    BY <1>1, Parts DEF BandOK, AfterScore
  <2> QED BY <1>1, <2>1, <2>2
<1>3. Core(p)
  BY DEF Core, Put
<1>4. CtlOK(p)' /\ CountOK(p)' /\ L3OK(p)' /\ BandOK(p)'
  <2>1. CtlOK(p) /\ CountOK(p) /\ L3OK(p) /\ BandOK(p)
    BY Parts
  <2> QED BY <1>1, <2>1, Members DEF CtlOK, CountOK, L3OK, BandOK, RowsScored, AfterGet, AfterCopy, AfterScore
<1>5. EastOK'
  <2>1. EastOK /\ step[p] \in Nat
    BY Parts
  <2> QED BY <1>1, <1>2, <2>1 DEF EastOK
<1> QED BY <1>1, <1>3, <1>4, <1>5, QuietLinks, StepKeeps

LEMMA DrainInv == ASSUME IInv, NEW p \in PE, Drain(p) PROVE IInv'
<1> DEFINE m == step[p] + 1
<1>1. /\ op[p] = "drain" /\ step'[p] = m /\ step[p] < T
      /\ op'[p] = IF m = T THEN "done" ELSE IF p = 0 THEN "west_in" ELSE "release"
      /\ UNCHANGED <<ghost, band, edgeIn, edgeOut, full, empty, putn, getn>>
  <2>1. op \in [PE -> Op] /\ step \in [PE -> 0 .. T] /\ CtlOK(p) /\ TypeOK
    BY Parts DEF TypeOK
  <2>2. /\ op[p] = "drain" /\ step' = [step EXCEPT ![p] = m]
        /\ op' = [op EXCEPT ![p] = IF m = T THEN "done" ELSE IF p = 0 THEN "west_in" ELSE "release"]
        /\ UNCHANGED <<ghost, band, edgeIn, edgeOut, full, empty, putn, getn>>
    BY <2>1, DrainStep
  <2> QED BY <2>1, <2>2 DEF CtlOK
<1>2. /\ BandOK(p) /\ CountOK(p) /\ L3OK(p) /\ EastOK /\ step[p] \in Nat /\ step[p] \in 0 .. T
      /\ Previous(step[p]) \in Buf /\ Current(step[p]) \in Buf
  BY Parts
<1>3. band[p][Current(step[p])] = m /\ ghost[p][Current(step[p])] = m /\ RowsScored(p) = m
  BY <1>1, <1>2 DEF BandOK, AfterCopy, AfterScore, RowsScored
<1>4. \A n \in 0 .. T : l3'[p][n] = IF n = m THEN m ELSE l3[p][n]
  BY <1>3, Parts, DrainStep
<1>5. \A n \in 0 .. T : east'[n] = IF p = Last /\ n = m THEN m ELSE east[n]
  <2>1. east' = (IF p = Last THEN [east EXCEPT ![m] = m] ELSE east) /\ east \in [0 .. T -> Row]
    BY <1>3, Parts, DrainStep DEF TypeOK
  <2> QED BY <1>1, <1>2, <2>1
<1>6. Core(p)
  BY DEF Core
<1>7. CtlOK(p)' /\ CountOK(p)'
  <2>1. CtlOK(p) /\ CountOK(p) /\ (p = 0 \/ p > 0)
    BY Parts, Members
  <2> QED BY <1>1, <1>2, <2>1 DEF CtlOK, CountOK, AfterGet, AfterCopy, AfterScore
<1>8. L3OK(p)'
  BY <1>1, <1>2, <1>4 DEF L3OK
<1>9. BandOK(p)'
  <2>1. m < T => Previous(m) = Current(step[p])
    BY <1>2, SwapsEachTrip
  <2>2. ~AfterCopy(p)' /\ ~AfterScore(p)' /\ RowsScored(p)' = m
    BY <1>1, <1>2 DEF AfterCopy, AfterScore, RowsScored
  <2>3. op'[p] # "done" => m < T
    BY <1>1, <1>2
  <2> HIDE DEF m
  <2> QED BY <1>1, <1>2, <1>3, <2>1, <2>2, <2>3 DEF BandOK
<1>10. EastOK'
  <2>1. CASE p = Last
    BY <1>1, <1>2, <1>5, <2>1 DEF EastOK
  <2>2. CASE p # Last
    <3>1. east' = east
      BY <2>2, Parts, DrainStep
    <3> QED BY <1>6, <2>2, <3>1, QuietEast
  <2> QED BY <2>1, <2>2
<1> QED BY <1>1, <1>6, <1>7, <1>8, <1>9, <1>10, QuietLinks, StepKeeps

\* The invariant is inductive.
LEMMA StepInv == IInv /\ [Next]_vars => IInv'
<1> SUFFICES ASSUME IInv, [Next]_vars PROVE IInv'
  OBVIOUS
<1>1. ASSUME NEW p \in PE, Core(p) PROVE IInv'
  BY <1>1, StageInv, WestInInv, ReleaseInv, WaitFullInv, CopyEdgeInv, ScoreInv, WaitEmptyInv,
     WriteInv, SignalInv, EastOutInv, DrainInv DEF Core, Get, Put
<1>2. CASE UNCHANGED vars
  BY <1>2 DEF vars, data, sems, IInv, TypeOK, CtlOK, CountOK, LinkOK, EdgeOK, BandOK, L3OK, EastOK,
              RowsScored, Written, AfterGet, AfterCopy, AfterScore
<1> QED BY <1>1, <1>2 DEF Next, Return

-----------------------------------------------------------------------------
(* No circular wait.                                                        *)

\* A nonempty set of natural numbers has a least element.
LEMMA LeastNat == ASSUME NEW S, S \subseteq Nat, S # {} PROVE \E m \in S : \A n \in S : m <= n
<1> DEFINE R == {ss \in Nat \X Nat : ss[1] < ss[2]}
<1>1. IsWellFoundedOn(R, Nat)
  <2>1. OpToRel(<, Nat) = R
    BY Zenon DEF OpToRel
  <2> QED BY <2>1, NatLessThanWellFounded, Zenon
<1> HIDE DEF R
<1>2. PICK m \in S : \A n \in S : ~(<<n, m>> \in R)
  BY <1>1, WFMin
<1>3. ASSUME NEW n \in S, n < m PROVE FALSE
  <2>1. <<n, m>> \in Nat \X Nat /\ <<n, m>>[1] = n /\ <<n, m>>[2] = m
    OBVIOUS
  <2>2. <<n, m>> \in R
    BY <1>3, <2>1, Zenon DEF R
  <2> QED BY <1>2, <2>2
<1> QED BY <1>3

\* Of the cores that have not returned take one on the least trip n and, of
\* those, the westmost, p.  If p waits for a strip, its producer is past trip n
\* or has returned, so strip n is here.  If p waits for the slot, its consumer is on
\* trip n too: either it stands at its get of it and has given strip n - 1
\* back, or it can step itself.
LEMMA SomeCoreSteps == IInv => NoCircularWait
<1> SUFFICES ASSUME IInv, ~Finished PROVE \E p \in PE : CanStep(p)
  BY DEF NoCircularWait
<1> DEFINE Live == {p \in PE : op[p] # "done"}
<1>1. PICK n \in Nat : (\E p \in Live : step[p] = n) /\ \A p \in Live : n <= step[p]
  <2> DEFINE S == {step[p] : p \in Live}
  <2>1. S # {} /\ S \subseteq Nat
    BY Parts DEF Finished
  <2>2. PICK m \in S : \A k \in S : m <= k
    BY <2>1, LeastNat
  <2> QED BY <2>1, <2>2
<1>2. PICK p \in Live : step[p] = n /\ \A q \in Live : step[q] = n => p <= q
  <2> DEFINE S == {q \in Live : step[q] = n}
  <2>1. S # {} /\ S \subseteq Nat
    BY <1>1 DEF PE
  <2>2. PICK m \in S : \A k \in S : m <= k
    BY <2>1, LeastNat
  <2> QED BY <2>2
<1>3. \A q \in PE : n <= step[q]
  <2>1. \A q \in PE : CtlOK(q) /\ step[q] \in Nat /\ step[q] <= T
    BY Parts
  <2> QED BY <1>1, <2>1 DEF CtlOK
<1>4. CASE op[p] = "wait_full"
  <2> DEFINE q == p - 1
  <2>1. p > 0 /\ n < T /\ getn[p] = n
    <3>1. CtlOK(p) /\ CountOK(p)
      BY Parts
    <3> QED BY <1>2, <1>4, <3>1 DEF CtlOK, CountOK, AfterGet, AfterCopy, AfterScore
  <2>2. q \in PE /\ q + 1 = p /\ q < Last /\ q < p
    BY <2>1, Members
  <2>3. n < step[q]
    <3>1. CASE op[q] = "done"
      <4>1. CtlOK(q)
        BY <2>2, Parts
      <4> QED BY <2>1, <3>1, <4>1 DEF CtlOK
    <3>2. CASE op[q] # "done"
      <4>1. q \in Live /\ ~(p <= q)
        BY <2>2, <3>2, Members
      <4>2. step[q] # n
        BY <1>2, <4>1
      <4> QED BY <1>3, <2>2, <4>2, Parts
    <3> QED BY <3>1, <3>2
  <2>4. full[p] = putn[q] /\ putn[q] >= step[q]
    <3>1. LinkOK(q) /\ CountOK(q) /\ step[q] \in Nat
      BY <2>2, Parts
    <3> QED BY <2>2, <3>1 DEF LinkOK, CountOK
  <2>5. full[p] \in Nat /\ step[q] \in Nat
    BY <2>2, Parts
  <2> QED BY <1>4, <2>1, <2>3, <2>4, <2>5 DEF CanStep
<1>5. CASE op[p] = "wait_empty"
  <2> DEFINE q == p + 1
  <2>1. p < Last /\ n < T /\ putn[p] = n /\ q \in PE
    <3>1. CtlOK(p) /\ CountOK(p)
      BY Parts
    <3> QED BY <1>2, <1>5, <3>1, Members DEF CtlOK, CountOK
  <2>2. CtlOK(q) /\ CountOK(q) /\ LinkOK(p) /\ q > 0 /\ step[q] \in Nat /\ getn[q] \in Nat
        /\ n <= step[q] /\ empty[p] \in Nat /\ op[q] \in Op
    BY <1>3, <2>1, Parts, Members
  <2>3. getn[q] = n /\ step[q] = n
    <3>1. getn[q] <= n /\ getn[q] >= step[q]
      BY <2>1, <2>2 DEF LinkOK, CountOK
    <3> QED BY <2>2, <3>1
  <2>4. op[q] \in {"stage", "release", "wait_full"}
    <3>1. ~AfterGet(q)
      BY <2>2, <2>3 DEF CountOK
    <3>2. op[q] # "done" /\ op[q] # "west_in"
      BY <2>1, <2>2, <2>3 DEF CtlOK
    <3> QED BY <2>2, <3>1, <3>2 DEF AfterGet, AfterCopy, AfterScore, Op
  <2>5. CASE op[q] = "wait_full"
    <3>1. empty[p] = n
      BY <2>1, <2>2, <2>3, <2>5 DEF LinkOK
    <3> QED BY <1>5, <2>1, <3>1, CreditIsOne DEF CanStep
  <2>6. CASE op[q] # "wait_full"
    BY <2>1, <2>4, <2>6 DEF CanStep
  <2> QED BY <2>5, <2>6
<1>6. CASE op[p] \notin {"wait_full", "wait_empty"}
  BY <1>6 DEF CanStep
<1> QED BY <1>4, <1>5, <1>6

-----------------------------------------------------------------------------
(* The refinement mapping.                                                  *)

\* L3 holds the rows 0 .. n of core p's columns, and not row n + 1.
RowsInL3(p, n) == /\ \A m \in 0 .. n : l3[p][m] = m
                  /\ n < T => l3[p][n + 1] # n + 1

\* What L3 and the bands hold is what the trip and the operation of a core say.
LEMMA Mapping ==
  IInv => /\ rowsDone = [p \in PE |-> RowsScored(p)]
          /\ rowsInL3 = [p \in PE |-> step[p]]
<1> SUFFICES ASSUME IInv PROVE /\ rowsDone = [p \in PE |-> RowsScored(p)]
                               /\ rowsInL3 = [p \in PE |-> step[p]]
  OBVIOUS
<1>1. ASSUME NEW p \in PE PROVE Largest(0, Largest(band[p]["prev"], band[p]["cur"])) = RowsScored(p)
  <2>1. BandOK(p) /\ CtlOK(p) /\ step[p] \in Nat
    BY Parts
  <2>2. band[p]["prev"] \in Int /\ band[p]["cur"] \in Int
    <3>1. band[p]["prev"] \in Row /\ band[p]["cur"] \in Row
      BY Members, Parts DEF TypeOK
    <3> QED BY <3>1, Members
  <2>3. band[p]["prev"] <= RowsScored(p) /\ band[p]["cur"] <= RowsScored(p)
    BY <2>1, Members DEF BandOK
  <2>4. RowsScored(p) = 0 \/ band[p]["prev"] = RowsScored(p) \/ band[p]["cur"] = RowsScored(p)
    <3>1. op[p] = "stage" => RowsScored(p) = 0
      BY <2>1 DEF CtlOK, RowsScored, AfterScore
    <3> QED BY <2>1, <3>1 DEF BandOK, Buf
  <2>5. RowsScored(p) \in Nat
    BY <2>1 DEF RowsScored
  <2> QED BY <2>2, <2>3, <2>4, <2>5 DEF Largest
<1>2. ASSUME NEW p \in PE PROVE (CHOOSE n \in -1 .. T : RowsInL3(p, n)) = step[p]
  <2>1. L3OK(p) /\ step[p] \in Nat /\ step[p] <= T
    BY Parts
  <2>2. step[p] \in -1 .. T /\ RowsInL3(p, step[p])
    BY <2>1, Members DEF L3OK, RowsInL3
  <2>3. ASSUME NEW n \in -1 .. T, RowsInL3(p, n) PROVE n = step[p]
    <3>1. CASE n < step[p]
      <4>1. n + 1 \in 0 .. T /\ n + 1 <= step[p] /\ n < T
        BY <2>1, <3>1
      <4> QED BY <2>1, <2>3, <4>1 DEF L3OK, RowsInL3
    <3>2. CASE step[p] < n
      <4>1. step[p] + 1 \in 0 .. T /\ step[p] + 1 \in 0 .. n /\ ~(step[p] + 1 <= step[p])
        BY <2>1, <3>2
      <4> QED BY <2>1, <2>3, <4>1, Members DEF L3OK, RowsInL3
    <3> QED BY <2>1, <3>1, <3>2
  <2> QED BY <2>2, <2>3
<1>3. rowsDone = [p \in PE |-> RowsScored(p)]
  BY <1>1 DEF rowsDone
<1>4. rowsInL3 = [p \in PE |-> step[p]]
  <2>1. rowsInL3 = [p \in PE |-> CHOOSE n \in -1 .. T : RowsInL3(p, n)]
    BY DEF rowsInL3, RowsInL3
  <2> QED BY <1>2, <2>1, Zenon
<1> QED BY <1>3, <1>4

\* Every step of a core computes a row, stores one, or leaves both counts.
LEMMA StepRefines ==
  IInv /\ IInv' /\ [Next]_vars => [Abstract!Next]_(Abstract!wvars)
<1> SUFFICES ASSUME IInv, IInv', [Next]_vars PROVE [Abstract!Next]_(Abstract!wvars)
  OBVIOUS
<1>1. /\ rowsDone = [p \in PE |-> RowsScored(p)] /\ rowsDone' = [p \in PE |-> RowsScored(p)']
      /\ rowsInL3 = [p \in PE |-> step[p]] /\ rowsInL3' = [p \in PE |-> step'[p]]
  <2>1. IInv' => (rowsDone = [p \in PE |-> RowsScored(p)] /\ rowsInL3 = [p \in PE |-> step[p]])'
    BY Mapping, PTL
  <2> QED BY <2>1, Mapping
<1>2. PE = Abstract!PE
  BY DEF PE, Abstract!PE
<1>3. CASE UNCHANGED vars
  BY <1>1, <1>3 DEF vars, data, sems, RowsScored, AfterScore, Abstract!wvars
<1>4. ASSUME NEW p \in PE, Core(p) PROVE [Abstract!Next]_(Abstract!wvars)
  <2>1. \A q \in PE : q # p => RowsScored(q)' = RowsScored(q) /\ step'[q] = step[q]
    BY <1>4, Parts, Frame DEF Same, RowsScored, AfterScore
  <2>2. CtlOK(p) /\ step[p] \in Nat /\ step[p] \in 0 .. T /\ TypeOK
    BY Parts
  <2>3. op \in [PE -> Op] /\ step \in [PE -> 0 .. T]
    BY <2>2 DEF TypeOK
  <2>4. CASE Score(p)
    <3>1. /\ op[p] = "score" /\ step' = step
          /\ op'[p] = IF p = Last THEN "east_out" ELSE "wait_empty"
      BY <2>2, <2>3, <2>4, ScoreStep
    <3>2. RowsScored(p) = step[p] /\ RowsScored(p)' = step[p] + 1 /\ step[p] < T
      BY <2>2, <3>1 DEF RowsScored, AfterScore, CtlOK
    <3>3. p > 0 => RowsScored(p - 1) > RowsScored(p)
      <4> SUFFICES ASSUME p > 0 PROVE RowsScored(p - 1) > step[p]
        BY <3>2
      <4> DEFINE q == p - 1
      <4>1. q \in PE /\ q + 1 = p /\ q < Last
        BY Members
      <4>2. LinkOK(q) /\ CountOK(q) /\ CountOK(p) /\ step[q] \in Nat
        BY <4>1, Parts
      <4> HIDE DEF q
      <4>3. getn[p] = step[p] + 1 /\ getn[p] <= putn[q]
        BY <3>1, <4>1, <4>2 DEF LinkOK, CountOK, AfterGet, AfterCopy
      <4>4. putn[q] <= RowsScored(q)
        BY <4>1, <4>2 DEF CountOK, RowsScored, AfterScore
      <4>5. RowsScored(q) \in Nat /\ putn[q] \in Nat
        BY <4>1, <4>2, Parts DEF RowsScored
      <4> QED BY <2>2, <4>3, <4>4, <4>5 DEF q
    <3>4. rowsDone' = [rowsDone EXCEPT ![p] = @ + 1] /\ rowsInL3' = rowsInL3
      BY <1>1, <2>1, <3>1, <3>2
    <3>5. p > 0 => p - 1 \in PE
      BY Members
    <3>6. rowsDone[p] < T /\ (p > 0 => rowsDone[p - 1] > rowsDone[p])
      BY <1>1, <3>2, <3>3, <3>5
    <3> QED BY <1>2, <3>4, <3>6 DEF Abstract!Next, Abstract!Compute
  <2>5. CASE Drain(p)
    <3>1. /\ op[p] = "drain" /\ step'[p] = step[p] + 1
          /\ op'[p] = IF step[p] + 1 = T THEN "done" ELSE IF p = 0 THEN "west_in" ELSE "release"
      BY <2>2, <2>3, <2>5, DrainStep
    <3>2. RowsScored(p) = step[p] + 1 /\ RowsScored(p)' = RowsScored(p)
      BY <2>2, <3>1 DEF RowsScored, AfterScore
    <3>3. rowsInL3' = [rowsInL3 EXCEPT ![p] = @ + 1] /\ rowsDone' = rowsDone
      BY <1>1, <2>1, <3>1, <3>2
    <3>4. rowsInL3[p] < rowsDone[p]
      BY <1>1, <2>2, <3>2
    <3> QED BY <1>2, <3>3, <3>4 DEF Abstract!Next, Abstract!Store
  <2>6. CASE ~Score(p) /\ ~Drain(p)
    <3>1. RowsScored(p)' = RowsScored(p) /\ step'[p] = step[p]
      BY <1>4, <2>2, <2>3, <2>6, StageStep, WestInStep, ReleaseStep, WaitFullStep, CopyEdgeStep,
         WaitEmptyStep, WriteStep, SignalStep, EastOutStep
         DEF Core, Get, Put, RowsScored, AfterScore, CtlOK
    <3> QED BY <1>1, <2>1, <3>1 DEF Abstract!wvars
  <2> QED BY <2>4, <2>5, <2>6
<1> QED BY <1>3, <1>4 DEF Next, Return

-----------------------------------------------------------------------------
(* The theorems.                                                            *)

\* In every reachable state the invariant holds.
THEOREM Inductive == Spec => []IInv
<1> QED BY InitInv, StepInv, PTL DEF Spec

\* The emitted kernels keep their counters natural and their loops in range.
THEOREM TypeCorrect == Spec => []TypeOK
<1>1. IInv => TypeOK
  BY DEF IInv
<1> QED BY Inductive, <1>1, PTL

\* Every core scores every row from the row before it and from its west
\* neighbour's cell of that row, for any line and any number of rows.
THEOREM RowsAreReady == Spec => []ReadyAtScore
<1>1. IInv => ReadyAtScore
  BY ReadyInv DEF ReadyAtScore
<1> QED BY Inductive, <1>1, PTL

\* Neighbours are never more than one row apart, and the eastern one is ahead
\* only before its get.
THEOREM SkewIsOne == Spec => []Skew
<1>1. IInv => Skew
  <2> SUFFICES ASSUME IInv, NEW p \in PE, p > 0
               PROVE  /\ step[p - 1] - step[p] \in -1 .. 1
                      /\ step[p] > step[p - 1] => op[p] \in {"release", "wait_full", "done"}
    BY DEF Skew
  <2> DEFINE q == p - 1
  <2>1. q \in PE /\ q + 1 = p /\ q < Last
    BY Members
  <2>2. LinkOK(q) /\ CountOK(q) /\ CountOK(p) /\ CtlOK(p) /\ op[p] \in Op
        /\ step[q] \in Nat /\ step[p] \in Nat /\ empty[q] \in Nat
    BY <2>1, Parts
  <2> HIDE DEF q
  <2>3. getn[p] = step[p] + (IF AfterGet(p) THEN 1 ELSE 0)
        /\ putn[q] = step[q] + (IF op[q] = "drain" THEN 1 ELSE 0)
    BY <2>1, <2>2 DEF CountOK
  <2>4. getn[p] <= putn[q] /\ putn[q] <= empty[q] + 1
        /\ empty[q] = IF getn[p] = 0 THEN 0
                      ELSE IF op[p] = "wait_full" THEN getn[p] ELSE getn[p] - 1
    BY <2>1, <2>2 DEF LinkOK
  <2>5. step[p] <= step[q] + 1 /\ (step[p] > step[q] => ~AfterGet(p))
    BY <2>2, <2>3, <2>4
  <2>6. step[q] <= step[p] + 1
    <3>1. empty[q] <= step[p]
      BY <2>2, <2>3, <2>4 DEF AfterGet, AfterCopy, AfterScore
    <3> QED BY <2>2, <2>3, <2>4, <3>1
  <2>7. step[p] > step[q] => op[p] \in {"release", "wait_full", "done"}
    BY <2>2, <2>5 DEF CtlOK, AfterGet, AfterCopy, AfterScore, Op
  <2> QED BY <2>2, <2>5, <2>6, <2>7 DEF q
<1> QED BY Inductive, <1>1, PTL

\* The one landing place of a link is written only between the copy of the
\* strip before and the next get: R-TT-B's credit of one keeps every strip whole.
THEOREM StripsAreNotOverwritten == Spec => []EdgeInIsFree
<1>1. IInv => EdgeInIsFree
  <2> SUFFICES ASSUME IInv, NEW p \in PE, op[p] \in {"write", "signal"}
               PROVE  getn[p + 1] = putn[p] /\ op[p + 1] \in {"stage", "release", "wait_full"}
    BY DEF EdgeInIsFree
  <2> DEFINE q == p + 1
  <2>1. p < Last /\ q \in PE /\ q > 0
    <3>1. CtlOK(p)
      BY Parts
    <3> QED BY <3>1, Members DEF CtlOK
  <2>2. LinkOK(p) /\ CountOK(p) /\ CountOK(q) /\ CtlOK(q) /\ CtlOK(p) /\ op[q] \in Op
        /\ getn[q] \in Nat /\ putn[p] \in Nat /\ empty[p] \in Nat /\ step[q] \in Nat
    BY <2>1, Parts
  <2>3. getn[q] = putn[p] /\ (getn[q] = 0 \/ op[q] = "wait_full")
    BY <2>1, <2>2 DEF LinkOK
  <2>4. CASE op[q] = "wait_full"
    BY <2>3, <2>4
  <2>5. CASE op[q] # "wait_full"
    <3>1. getn[q] = 0 /\ ~AfterGet(q) /\ step[q] = 0
      BY <2>1, <2>2, <2>3, <2>5 DEF CountOK
    <3>2. T > 0
      <4>1. step[p] \in Nat
        BY Parts
      <4> QED BY <2>2, <4>1 DEF CtlOK
    <3>3. op[q] # "done" /\ op[q] # "west_in"
      BY <2>1, <2>2, <3>1, <3>2 DEF CtlOK
    <3> QED BY <2>2, <2>3, <3>1, <3>3 DEF AfterGet, AfterCopy, AfterScore, Op
  <2> QED BY <2>4, <2>5
<1> QED BY Inductive, <1>1, PTL

\* No line of any length deadlocks, over any number of rows.
THEOREM NoDeadlock == Spec => []NoCircularWait
<1> QED BY Inductive, SomeCoreSteps, PTL

\* The safety part of ImplementsWavefront: every step of the cores computes a
\* row that its west neighbour has, stores the next row, or is invisible.
THEOREM RefinesWavefront == Spec => Abstract!Init /\ [][Abstract!Next]_(Abstract!wvars)
<1>1. Init => Abstract!Init
  <2> SUFFICES ASSUME Init PROVE Abstract!Init
    OBVIOUS
  <2>1. IInv /\ \A p \in PE : RowsScored(p) = 0 /\ step[p] = 0
    BY InitInv DEF Init, RowsScored, AfterScore
  <2> QED BY <2>1, Mapping DEF Abstract!Init, Abstract!PE, PE
<1> QED BY <1>1, Inductive, StepRefines, PTL DEF Spec

=============================================================================
