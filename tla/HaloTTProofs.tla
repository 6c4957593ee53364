---------------------------- MODULE HaloTTProofs ----------------------------
(***************************************************************************)
(* Proofs about HaloTT, for every number of cores and of trips.             *)
(***************************************************************************)
EXTENDS HaloTTInv, WellFoundedInduction, TLAPS

USE PESAssumption, TAssumption

-----------------------------------------------------------------------------
(* The two-phase loop.                                                      *)

\* Source and destination are the two buffers.
LEMMA BufType == \A n \in Nat : /\ Source(n) \in Buf
                                /\ Destination(n) \in Buf
                                /\ Source(n) # Destination(n)
BY DEF Source, Destination, Buf

\* The unrolled and peeled loop runs trip n in the phase n % 2.
LEMMA PhaseIsParity == \A n \in 0 .. T - 1 : Phase(n) = n % 2
BY DEF Phase, LoopHi

\* Consecutive trips swap the buffers.
LEMMA SwapsEachTrip ==
  ASSUME NEW n \in Nat, n + 1 < T
  PROVE  /\ Source(n + 1) = Destination(n)
         /\ Source(n + 1) # Source(n)
<1>1. Phase(n) = n % 2 /\ Phase(n + 1) = (n + 1) % 2
  BY PhaseIsParity
<1>2. (n + 1) % 2 # n % 2 /\ n % 2 \in {0, 1} /\ (n + 1) % 2 \in {0, 1}
  OBVIOUS
<1> QED BY <1>1, <1>2 DEF Source, Destination

-----------------------------------------------------------------------------
(* The links.                                                               *)

\* The two ends of a link name each other.
LEMMA LinkEnds ==
  /\ \A p \in PE, d \in Dir : PutGuard(p, d) =>
       /\ PutPeer(p, d) \in PE /\ PutPeer(p, d) # p
       /\ GetGuard(PutPeer(p, d), d) /\ GetPeer(PutPeer(p, d), d) = p
  /\ \A q \in PE, d \in Dir : GetGuard(q, d) =>
       /\ GetPeer(q, d) \in PE /\ GetPeer(q, d) # q
       /\ PutGuard(GetPeer(q, d), d) /\ PutPeer(GetPeer(q, d), d) = q
BY DEF PE, Dir, PutGuard, GetGuard, PutPeer, GetPeer

\* A consumer is also a producer: the other channel leads back.
Other(d) == IF d = "ToNorth" THEN "ToSouth" ELSE "ToNorth"

LEMMA LinkBack ==
  \A p \in PE, d \in Dir : PutGuard(p, d) =>
    /\ Other(d) \in Dir
    /\ PutGuard(PutPeer(p, d), Other(d))
    /\ PutPeer(PutPeer(p, d), Other(d)) = p
    /\ GetGuard(p, Other(d))
BY DEF PE, Dir, PutGuard, GetGuard, PutPeer, GetPeer, Other

\* The consumer of a link is never more than one trip behind the producer,
\* and has staged its strips before the producer leaves trip 0.
LEMMA Skew ==
  ASSUME IInv, NEW p \in PE, NEW d \in Dir, PutGuard(p, d)
  PROVE  /\ step[p] <= step[PutPeer(p, d)] + 1
         /\ op[PutPeer(p, d)] \in {"fill", "copy"} =>
              step[p] = 0 /\ ~GetOver(p, Other(d))
<1> DEFINE q == PutPeer(p, d)
           e == Other(d)
<1>1. q \in PE /\ e \in Dir /\ PutGuard(q, e) /\ PutPeer(q, e) = p /\ GetGuard(p, e)
  BY LinkEnds, LinkBack
<1>2. getn[p][e] <= putn[q][e]
  BY <1>1 DEF IInv, LinkOK
<1>3. /\ getn[p][e] = step[p] + (IF GetOver(p, e) THEN 1 ELSE 0)
      /\ putn[q][e] = step[q] + (IF PutOver(q, e) THEN 1 ELSE 0)
  BY <1>1 DEF IInv, CountOK
<1>4. step[p] \in Nat /\ step[q] \in Nat
  BY <1>1 DEF IInv, TypeOK
<1>5. op[q] \in {"fill", "copy"} => step[q] = 0 /\ ~PutOver(q, e)
  BY <1>1 DEF IInv, CtlOK, PutOver
<1>6. PutOver(q, e) \in BOOLEAN /\ GetOver(p, e) \in BOOLEAN
  BY DEF PutOver, GetOver
<1>7. step[p] <= step[q] + 1
  BY <1>2, <1>3, <1>4
<1>8. CASE op[q] \in {"fill", "copy"}
  BY <1>2, <1>3, <1>4, <1>5, <1>6, <1>8
<1> QED BY <1>7, <1>8

-----------------------------------------------------------------------------
(* The invariant holds initially.                                           *)

LEMMA InitInv == Init => IInv
<1> SUFFICES ASSUME Init PROVE IInv
  OBVIOUS
<1> USE DEF Init
<1>1. TypeOK
  BY DEF TypeOK, Op, Dir, Buf, Tag, Junk, PE
<1>2. \A p \in PE : CtlOK(p)
  BY DEF CtlOK
<1>3. \A p \in PE, d \in Dir : CountOK(p, d)
  BY DEF CountOK, PutOver, GetOver
<1>4. \A p \in PE, d \in Dir : LinkOK(p, d)
  BY LinkEnds DEF LinkOK
<1>5. \A p \in PE : StripOK(p)
  BY DEF StripOK
<1>6. \A p \in PE, d \in Dir : GhostOK(p, d)
  BY LinkEnds DEF GhostOK, Landed
<1>7. \A p \in PE : L3OK(p)
  BY DEF L3OK, Junk
<1> QED BY <1>1, <1>2, <1>3, <1>4, <1>5, <1>6, <1>7 DEF IInv

-----------------------------------------------------------------------------
(* What each step does: the types it keeps, and the state it leaves, entry   *)
(* by entry.                                                                *)

LEMMA Members ==
  /\ "ToNorth" \in Dir /\ "ToSouth" \in Dir /\ "cur" \in Buf /\ "next" \in Buf
  /\ "fill" \in Op /\ "copy" \in Op /\ "wait_empty" \in Op /\ "write" \in Op
  /\ "signal" \in Op /\ "release" \in Op /\ "wait_full" \in Op
  /\ "update" \in Op /\ "drain" \in Op /\ "done" \in Op
  /\ Junk \in Tag /\ 0 \in Tag /\ 0 \in 0 .. T
  /\ \A n \in 0 .. T : n \in Tag
BY DEF Dir, Buf, Op, Junk, Tag

LEMMA FillStep ==
  ASSUME TypeOK, NEW p \in PE, Fill(p)
  PROVE  /\ TypeOK'
         /\ op[p] = "fill" /\ op' = [op EXCEPT ![p] = "copy"]
         /\ dir' = [dir EXCEPT ![p] = "ToNorth"]
         /\ UNCHANGED <<step, full, empty, putn, getn, l3>>
         /\ \A q \in PE, b \in Buf :
              /\ own'[q][b] = IF q = p /\ b = "cur" THEN l3[p][0] ELSE own[q][b]
              /\ cols'[q][b] = IF q = p /\ b = "cur" THEN 0 ELSE cols[q][b]
         /\ \A q \in PE, b \in Buf, d \in Dir :
              ghost'[q][b][d] =
                IF q = p /\ b = "cur"
                THEN IF GetGuard(p, d) THEN l3[GetPeer(p, d)][0] ELSE 0
                ELSE ghost[q][b][d]
<1> DEFINE band == [d \in Dir |-> IF GetGuard(p, d) THEN l3[GetPeer(p, d)][0] ELSE 0]
<1>1. l3[p][0] \in Tag /\ \A q \in PE : l3[q][0] \in Tag
  BY Members DEF TypeOK
<1>2. band \in [Dir -> Tag]
  BY <1>1, Members, LinkEnds
<1>3. /\ own' \in [PE -> [Buf -> Tag]]
      /\ \A q \in PE, b \in Buf :
           own'[q][b] = IF q = p /\ b = "cur" THEN l3[p][0] ELSE own[q][b]
  <2>1. own' = [own EXCEPT ![p]["cur"] = l3[p][0]] /\ own \in [PE -> [Buf -> Tag]]
    BY DEF Fill, TypeOK
  <2> QED BY <1>1, Members, <2>1
<1>4. /\ cols' \in [PE -> [Buf -> Tag]]
      /\ \A q \in PE, b \in Buf :
           cols'[q][b] = IF q = p /\ b = "cur" THEN 0 ELSE cols[q][b]
  <2>1. cols' = [cols EXCEPT ![p]["cur"] = 0] /\ cols \in [PE -> [Buf -> Tag]]
    BY DEF Fill, TypeOK
  <2> QED BY Members, <2>1
<1>5. /\ ghost' \in [PE -> [Buf -> [Dir -> Tag]]]
      /\ \A q \in PE, b \in Buf :
           ghost'[q][b] = IF q = p /\ b = "cur" THEN band ELSE ghost[q][b]
  <2>1. ghost' = [ghost EXCEPT ![p]["cur"] = band] /\ ghost \in [PE -> [Buf -> [Dir -> Tag]]]
    BY DEF Fill, TypeOK
  <2> HIDE DEF band
  <2> QED BY <1>2, <2>1, Members
<1>6. op[p] = "fill" /\ op' = [op EXCEPT ![p] = "copy"] /\ dir' = [dir EXCEPT ![p] = "ToNorth"]
      /\ UNCHANGED <<step, full, empty, putn, getn, l3>>
  BY DEF Fill, Goto, sems
<1>7. op' \in [PE -> Op] /\ dir' \in [PE -> Dir]
  BY <1>6, Members DEF TypeOK
<1>8. TypeOK'
  BY <1>3, <1>4, <1>5, <1>6, <1>7 DEF TypeOK
<1>9. \A d \in Dir : band[d] = IF GetGuard(p, d) THEN l3[GetPeer(p, d)][0] ELSE 0
  OBVIOUS
<1> HIDE DEF band
<1>10. \A q \in PE, b \in Buf, d \in Dir :
         ghost'[q][b][d] = IF q = p /\ b = "cur"
                           THEN IF GetGuard(p, d) THEN l3[GetPeer(p, d)][0] ELSE 0
                           ELSE ghost[q][b][d]
  BY <1>5, <1>9
<1> QED BY <1>3, <1>4, <1>6, <1>8, <1>10

LEMMA CopyStep ==
  ASSUME TypeOK, NEW p \in PE, Copy(p)
  PROVE  /\ TypeOK'
         /\ op[p] = "copy"
         /\ op' = [op EXCEPT ![p] = IF 0 < T THEN "wait_empty" ELSE "done"]
         /\ dir' = [dir EXCEPT ![p] = "ToNorth"]
         /\ step' = [step EXCEPT ![p] = 0]
         /\ UNCHANGED <<full, empty, putn, getn, l3>>
         /\ \A q \in PE, b \in Buf :
              /\ own'[q][b] = IF q = p /\ b = "next" THEN own[p]["cur"] ELSE own[q][b]
              /\ cols'[q][b] = IF q = p /\ b = "next" THEN cols[p]["cur"] ELSE cols[q][b]
              /\ ghost'[q][b] = IF q = p /\ b = "next" THEN ghost[p]["cur"] ELSE ghost[q][b]
<1>1. own[p]["cur"] \in Tag /\ cols[p]["cur"] \in Tag /\ ghost[p]["cur"] \in [Dir -> Tag]
  BY Members DEF TypeOK
<1>2. /\ own' \in [PE -> [Buf -> Tag]]
      /\ \A q \in PE, b \in Buf :
           own'[q][b] = IF q = p /\ b = "next" THEN own[p]["cur"] ELSE own[q][b]
  <2>1. own' = [own EXCEPT ![p]["next"] = own[p]["cur"]] /\ own \in [PE -> [Buf -> Tag]]
    BY DEF Copy, TypeOK
  <2> QED BY <1>1, Members, <2>1
<1>3. /\ cols' \in [PE -> [Buf -> Tag]]
      /\ \A q \in PE, b \in Buf :
           cols'[q][b] = IF q = p /\ b = "next" THEN cols[p]["cur"] ELSE cols[q][b]
  <2>1. cols' = [cols EXCEPT ![p]["next"] = cols[p]["cur"]] /\ cols \in [PE -> [Buf -> Tag]]
    BY DEF Copy, TypeOK
  <2> QED BY <1>1, Members, <2>1
<1>4. /\ ghost' \in [PE -> [Buf -> [Dir -> Tag]]]
      /\ \A q \in PE, b \in Buf :
           ghost'[q][b] = IF q = p /\ b = "next" THEN ghost[p]["cur"] ELSE ghost[q][b]
  <2>1. ghost' = [ghost EXCEPT ![p]["next"] = ghost[p]["cur"]] /\ ghost \in [PE -> [Buf -> [Dir -> Tag]]]
    BY DEF Copy, TypeOK
  <2> QED BY <1>1, Members, <2>1
<1>5. op[p] = "copy" /\ op' = [op EXCEPT ![p] = IF 0 < T THEN "wait_empty" ELSE "done"]
      /\ dir' = [dir EXCEPT ![p] = "ToNorth"] /\ step' = [step EXCEPT ![p] = 0]
      /\ UNCHANGED <<full, empty, putn, getn, l3>>
  BY DEF Copy, EnterTrip, Goto, sems
<1>6. op' \in [PE -> Op] /\ dir' \in [PE -> Dir] /\ step' \in [PE -> 0 .. T]
  BY <1>5, Members DEF TypeOK
<1>7. TypeOK'
  BY <1>2, <1>3, <1>4, <1>5, <1>6 DEF TypeOK
<1> QED BY <1>2, <1>3, <1>4, <1>5, <1>7

LEMMA WaitEmptyStep ==
  ASSUME TypeOK, NEW p \in PE, WaitEmpty(p)
  PROVE  /\ TypeOK'
         /\ op[p] = "wait_empty" /\ PutGuard(p, dir[p])
         /\ empty[p][dir[p]] >= EmptyNeeded(putn[p][dir[p]])
         /\ op' = [op EXCEPT ![p] = "write"] /\ dir' = dir
         /\ UNCHANGED <<step, own, ghost, cols, full, empty, putn, getn, l3>>
<1>1. /\ op[p] = "wait_empty" /\ PutGuard(p, dir[p])
      /\ empty[p][dir[p]] >= EmptyNeeded(putn[p][dir[p]])
      /\ op' = [op EXCEPT ![p] = "write"] /\ dir' = [dir EXCEPT ![p] = dir[p]]
      /\ UNCHANGED <<step, own, ghost, cols, full, empty, putn, getn, l3>>
  BY DEF WaitEmpty, Goto, sems, strips
<1>2. op' \in [PE -> Op] /\ dir' = dir
  BY <1>1, Members DEF TypeOK
<1>3. TypeOK'
  BY <1>1, <1>2 DEF TypeOK
<1> QED BY <1>1, <1>2, <1>3

LEMMA WriteStep ==
  ASSUME TypeOK, NEW p \in PE, CtlOK(p), Write(p)
  PROVE  /\ TypeOK'
         /\ op[p] = "write"
         /\ op' = [op EXCEPT ![p] = "signal"] /\ dir' = dir
         /\ UNCHANGED <<step, own, cols, full, empty, putn, getn, l3>>
         /\ \A q \in PE, b \in Buf, d \in Dir :
              ghost'[q][b][d] =
                IF q = PutPeer(p, dir[p]) /\ b = Source(step[p]) /\ d = dir[p]
                THEN own[p][Source(step[p])] ELSE ghost[q][b][d]
<1> DEFINE r == PutPeer(p, dir[p])
           s == Source(step[p])
<1>1. /\ op[p] = "write"
      /\ op' = [op EXCEPT ![p] = "signal"] /\ dir' = [dir EXCEPT ![p] = dir[p]]
      /\ UNCHANGED <<step, own, cols, full, empty, putn, getn, l3>>
  BY DEF Write, Goto, sems
<1>2. op' \in [PE -> Op] /\ dir' = dir
  BY <1>1, Members DEF TypeOK
<1>3. dir[p] \in Dir /\ PutGuard(p, dir[p]) /\ step[p] \in Nat
  BY <1>1 DEF TypeOK, CtlOK
<1>4. r \in PE /\ s \in Buf /\ own[p][s] \in Tag
  BY <1>3, LinkEnds, BufType DEF TypeOK
<1>5. ghost' = [ghost EXCEPT ![r][s][dir[p]] = own[p][s]] /\ ghost \in [PE -> [Buf -> [Dir -> Tag]]]
  BY DEF Write, Landing, TypeOK
<1> HIDE DEF r, s
<1>6. /\ ghost' \in [PE -> [Buf -> [Dir -> Tag]]]
      /\ \A q \in PE, b \in Buf, d \in Dir :
           ghost'[q][b][d] = IF q = r /\ b = s /\ d = dir[p] THEN own[p][s] ELSE ghost[q][b][d]
  BY <1>3, <1>4, <1>5
<1>7. TypeOK'
  BY <1>1, <1>2, <1>6 DEF TypeOK
<1> QED BY <1>1, <1>2, <1>6, <1>7 DEF r, s

LEMMA AfterPutStep ==
  ASSUME TypeOK, NEW p \in PE, AfterPut(p)
  PROVE  /\ op' \in [PE -> Op] /\ dir' \in [PE -> Dir]
         /\ op' = [op EXCEPT ![p] = IF dir[p] = "ToNorth" THEN "wait_empty" ELSE "release"]
         /\ dir' = [dir EXCEPT ![p] = IF dir[p] = "ToNorth" THEN "ToSouth" ELSE "ToNorth"]
<1>1. /\ op' = [op EXCEPT ![p] = IF dir[p] = "ToNorth" THEN "wait_empty" ELSE "release"]
      /\ dir' = [dir EXCEPT ![p] = IF dir[p] = "ToNorth" THEN "ToSouth" ELSE "ToNorth"]
  BY DEF AfterPut, Goto
<1> QED BY <1>1, Members DEF TypeOK

LEMMA AfterGetStep ==
  ASSUME TypeOK, NEW p \in PE, AfterGet(p)
  PROVE  /\ op' \in [PE -> Op] /\ dir' \in [PE -> Dir]
         /\ op' = [op EXCEPT ![p] = IF dir[p] = "ToNorth" THEN "release" ELSE "update"]
         /\ dir' = [dir EXCEPT ![p] = IF dir[p] = "ToNorth" THEN "ToSouth" ELSE "ToNorth"]
<1>1. /\ op' = [op EXCEPT ![p] = IF dir[p] = "ToNorth" THEN "release" ELSE "update"]
      /\ dir' = [dir EXCEPT ![p] = IF dir[p] = "ToNorth" THEN "ToSouth" ELSE "ToNorth"]
  BY DEF AfterGet, Goto
<1> QED BY <1>1, Members DEF TypeOK

LEMMA SignalStep ==
  ASSUME TypeOK, NEW p \in PE, CtlOK(p), Signal(p)
  PROVE  /\ TypeOK'
         /\ op[p] = "signal" /\ AfterPut(p)
         /\ UNCHANGED <<step, own, ghost, cols, empty, getn, l3>>
         /\ \A q \in PE, d \in Dir :
              /\ full'[q][d] = IF q = PutPeer(p, dir[p]) /\ d = dir[p]
                               THEN full[q][d] + 1 ELSE full[q][d]
              /\ putn'[q][d] = IF q = p /\ d = dir[p] THEN putn[q][d] + 1 ELSE putn[q][d]
<1> DEFINE r == PutPeer(p, dir[p])
           e == dir[p]
<1>1. op[p] = "signal" /\ AfterPut(p) /\ UNCHANGED <<step, own, ghost, cols, empty, getn, l3>>
  BY DEF Signal, strips
<1>2. e \in Dir /\ r \in PE
  BY <1>1, LinkEnds DEF TypeOK, CtlOK
<1>3. full' = [full EXCEPT ![r][e] = full[r][e] + 1] /\ full \in [PE -> [Dir -> Nat]]
  BY DEF Signal, TypeOK
<1>4. putn' = [putn EXCEPT ![p][e] = putn[p][e] + 1] /\ putn \in [PE -> [Dir -> Nat]]
  BY DEF Signal, TypeOK
<1> HIDE DEF r, e
<1>5. full[r][e] + 1 \in Nat /\ putn[p][e] + 1 \in Nat
  BY <1>2, <1>3, <1>4
<1>6. /\ full' \in [PE -> [Dir -> Nat]]
      /\ \A q \in PE, d \in Dir :
           full'[q][d] = IF q = r /\ d = e THEN full[q][d] + 1 ELSE full[q][d]
  BY <1>2, <1>3, <1>5
<1>7. /\ putn' \in [PE -> [Dir -> Nat]]
      /\ \A q \in PE, d \in Dir :
           putn'[q][d] = IF q = p /\ d = e THEN putn[q][d] + 1 ELSE putn[q][d]
  BY <1>2, <1>4, <1>5
<1>8. TypeOK'
  BY <1>1, <1>6, <1>7, AfterPutStep DEF TypeOK
<1> QED BY <1>1, <1>6, <1>7, <1>8 DEF r, e

LEMMA SkipPutStep ==
  ASSUME TypeOK, NEW p \in PE, SkipPut(p)
  PROVE  /\ TypeOK'
         /\ op[p] = "wait_empty" /\ ~PutGuard(p, dir[p]) /\ AfterPut(p)
         /\ UNCHANGED <<step, own, ghost, cols, full, empty, putn, getn, l3>>
<1>1. /\ op[p] = "wait_empty" /\ ~PutGuard(p, dir[p]) /\ AfterPut(p)
      /\ UNCHANGED <<step, own, ghost, cols, full, empty, putn, getn, l3>>
  BY DEF SkipPut, strips, sems
<1>2. TypeOK'
  BY <1>1, AfterPutStep DEF TypeOK
<1> QED BY <1>1, <1>2

LEMMA ReleaseStep ==
  ASSUME TypeOK, NEW p \in PE, Release(p)
  PROVE  /\ TypeOK'
         /\ op[p] = "release" /\ GetGuard(p, dir[p])
         /\ op' = [op EXCEPT ![p] = "wait_full"] /\ dir' = dir
         /\ UNCHANGED <<step, own, ghost, cols, full, putn, getn, l3>>
         /\ \A q \in PE, d \in Dir :
              empty'[q][d] = IF q = GetPeer(p, dir[p]) /\ d = dir[p] /\ getn[p][dir[p]] > 0
                             THEN empty[q][d] + 1 ELSE empty[q][d]
<1> DEFINE r == GetPeer(p, dir[p])
           e == dir[p]
           taken == getn[p][dir[p]] > 0
<1>1. /\ op[p] = "release" /\ GetGuard(p, dir[p])
      /\ op' = [op EXCEPT ![p] = "wait_full"] /\ dir' = [dir EXCEPT ![p] = dir[p]]
      /\ UNCHANGED <<step, own, ghost, cols, full, putn, getn, l3>>
  BY DEF Release, Goto, strips
<1>2. op' \in [PE -> Op] /\ dir' = dir
  BY <1>1, Members DEF TypeOK
<1>3. e \in Dir /\ r \in PE
  BY <1>1, LinkEnds DEF TypeOK
<1>4. /\ empty' = IF taken THEN [empty EXCEPT ![r][e] = empty[r][e] + 1] ELSE empty
      /\ empty \in [PE -> [Dir -> Nat]]
  BY DEF Release, TypeOK
<1> HIDE DEF r, e, taken
<1>5. empty[r][e] + 1 \in Nat
  BY <1>3, <1>4
<1>6. /\ empty' \in [PE -> [Dir -> Nat]]
      /\ \A q \in PE, d \in Dir :
           empty'[q][d] = IF q = r /\ d = e /\ taken THEN empty[q][d] + 1 ELSE empty[q][d]
  <2>1. CASE taken
    <3>1. empty' = [empty EXCEPT ![r][e] = empty[r][e] + 1]
      BY <1>4, <2>1
    <3> QED BY <1>3, <1>4, <1>5, <2>1, <3>1
  <2>2. CASE ~taken
    BY <1>4, <2>2
  <2> QED BY <2>1, <2>2
<1>7. TypeOK'
  BY <1>1, <1>2, <1>6 DEF TypeOK
<1> QED BY <1>1, <1>2, <1>6, <1>7 DEF r, e, taken

LEMMA WaitFullStep ==
  ASSUME TypeOK, NEW p \in PE, WaitFull(p)
  PROVE  /\ TypeOK'
         /\ op[p] = "wait_full" /\ full[p][dir[p]] >= getn[p][dir[p]] + 1 /\ AfterGet(p)
         /\ UNCHANGED <<step, own, ghost, cols, full, empty, putn, l3>>
         /\ \A q \in PE, d \in Dir :
              getn'[q][d] = IF q = p /\ d = dir[p] THEN getn[q][d] + 1 ELSE getn[q][d]
<1> DEFINE e == dir[p]
<1>1. /\ op[p] = "wait_full" /\ full[p][dir[p]] >= getn[p][dir[p]] + 1 /\ AfterGet(p)
      /\ UNCHANGED <<step, own, ghost, cols, full, empty, putn, l3>>
  BY DEF WaitFull, strips
<1>2. getn' = [getn EXCEPT ![p][e] = getn[p][e] + 1] /\ getn \in [PE -> [Dir -> Nat]] /\ e \in Dir
  BY DEF WaitFull, TypeOK
<1> HIDE DEF e
<1>3. getn[p][e] + 1 \in Nat
  BY <1>2
<1>4. /\ getn' \in [PE -> [Dir -> Nat]]
      /\ \A q \in PE, d \in Dir :
           getn'[q][d] = IF q = p /\ d = e THEN getn[q][d] + 1 ELSE getn[q][d]
  BY <1>2, <1>3
<1>5. TypeOK'
  BY <1>1, <1>4, AfterGetStep DEF TypeOK
<1> QED BY <1>1, <1>4, <1>5 DEF e

LEMMA SkipGetStep ==
  ASSUME TypeOK, NEW p \in PE, SkipGet(p)
  PROVE  /\ TypeOK'
         /\ op[p] = "release" /\ ~GetGuard(p, dir[p]) /\ AfterGet(p)
         /\ UNCHANGED <<step, own, ghost, cols, full, empty, putn, getn, l3>>
<1>1. /\ op[p] = "release" /\ ~GetGuard(p, dir[p]) /\ AfterGet(p)
      /\ UNCHANGED <<step, own, ghost, cols, full, empty, putn, getn, l3>>
  BY DEF SkipGet, strips, sems
<1>2. TypeOK'
  BY <1>1, AfterGetStep DEF TypeOK
<1> QED BY <1>1, <1>2

LEMMA UpdateStep ==
  ASSUME TypeOK, NEW p \in PE, CtlOK(p), Update(p)
  PROVE  /\ TypeOK'
         /\ op[p] = "update"
         /\ op' = [op EXCEPT ![p] = "drain"] /\ dir' = [dir EXCEPT ![p] = "ToNorth"]
         /\ UNCHANGED <<step, ghost, cols, full, empty, putn, getn, l3>>
         /\ \A q \in PE, b \in Buf :
              own'[q][b] =
                IF q = p /\ b = Destination(step[p])
                THEN Updated(p, step[p], own[p][Source(step[p])],
                             ghost[p][Source(step[p])], cols[p][Source(step[p])])
                ELSE own[q][b]
<1> DEFINE s == Source(step[p])
           t == Destination(step[p])
           new == Updated(p, step[p], own[p][s], ghost[p][s], cols[p][s])
<1>1. /\ op[p] = "update"
      /\ op' = [op EXCEPT ![p] = "drain"] /\ dir' = [dir EXCEPT ![p] = "ToNorth"]
      /\ UNCHANGED <<step, ghost, cols, full, empty, putn, getn, l3>>
  BY DEF Update, Goto, sems
<1>2. op' \in [PE -> Op] /\ dir' \in [PE -> Dir]
  BY <1>1, Members DEF TypeOK
<1>3. step[p] < T /\ step[p] \in Nat /\ step[p] + 1 \in 0 .. T
  BY <1>1 DEF TypeOK, CtlOK
<1>4. t \in Buf
  BY <1>3, BufType
<1>5. new \in Tag
  BY <1>3, Members DEF Updated
<1>6. own' = [own EXCEPT ![p][t] = new] /\ own \in [PE -> [Buf -> Tag]]
  BY DEF Update, TypeOK
<1> HIDE DEF t, new
<1>7. /\ own' \in [PE -> [Buf -> Tag]]
      /\ \A q \in PE, b \in Buf : own'[q][b] = IF q = p /\ b = t THEN new ELSE own[q][b]
  BY <1>4, <1>5, <1>6
<1>8. TypeOK'
  BY <1>1, <1>2, <1>7 DEF TypeOK
<1> QED BY <1>1, <1>7, <1>8 DEF t, new

LEMMA DrainStep ==
  ASSUME TypeOK, NEW p \in PE, CtlOK(p), Drain(p)
  PROVE  /\ TypeOK'
         /\ op[p] = "drain" /\ step[p] < T
         /\ op' = [op EXCEPT ![p] = IF step[p] + 1 < T THEN "wait_empty" ELSE "done"]
         /\ dir' = [dir EXCEPT ![p] = "ToNorth"]
         /\ step' = [step EXCEPT ![p] = step[p] + 1]
         /\ UNCHANGED <<own, ghost, cols, full, empty, putn, getn>>
         /\ \A q \in PE, n \in 0 .. T :
              l3'[q][n] =
                IF q = p /\ n = step[p] + 1
                THEN IF cols[p][Destination(step[p])] = 0
                     THEN own[p][Destination(step[p])] ELSE Junk
                ELSE l3[q][n]
<1> DEFINE t == Destination(step[p])
           m == step[p] + 1
           new == IF cols[p][t] = 0 THEN own[p][t] ELSE Junk
<1>1. /\ op[p] = "drain"
      /\ op' = [op EXCEPT ![p] = IF step[p] + 1 < T THEN "wait_empty" ELSE "done"]
      /\ dir' = [dir EXCEPT ![p] = "ToNorth"]
      /\ step' = [step EXCEPT ![p] = step[p] + 1]
      /\ UNCHANGED <<own, ghost, cols, full, empty, putn, getn>>
  BY DEF Drain, EnterTrip, Goto, sems, strips
<1>2. step[p] < T /\ step[p] \in Nat /\ m \in 0 .. T
  BY <1>1 DEF TypeOK, CtlOK
<1>3. op' \in [PE -> Op] /\ dir' \in [PE -> Dir] /\ step' \in [PE -> 0 .. T]
  BY <1>1, <1>2, Members DEF TypeOK
<1>4. t \in Buf
  BY <1>2, BufType
<1>5. new \in Tag
  BY <1>4, Members DEF TypeOK
<1>6. l3' = [l3 EXCEPT ![p][m] = new] /\ l3 \in [PE -> [0 .. T -> Tag]]
  BY DEF Drain, TypeOK
<1> HIDE DEF m, new
<1>7. /\ l3' \in [PE -> [0 .. T -> Tag]]
      /\ \A q \in PE, n \in 0 .. T : l3'[q][n] = IF q = p /\ n = m THEN new ELSE l3[q][n]
  BY <1>2, <1>5, <1>6
<1>8. TypeOK'
  BY <1>1, <1>3, <1>7 DEF TypeOK
<1> QED BY <1>1, <1>2, <1>7, <1>8 DEF m, new

LEMMA TypeStep == ASSUME IInv, [Next]_vars PROVE TypeOK'
<1>1. TypeOK /\ \A p \in PE : CtlOK(p)
  BY DEF IInv
<1>2. ASSUME NEW p \in PE, Core(p) PROVE TypeOK'
  BY <1>1, <1>2, FillStep, CopyStep, WaitEmptyStep, WriteStep, SignalStep, SkipPutStep,
     ReleaseStep, WaitFullStep, SkipGetStep, UpdateStep, DrainStep DEF Core, Put, Get
<1>3. CASE UNCHANGED vars
  BY <1>1, <1>3 DEF vars, ctl, strips, sems, TypeOK
<1> QED BY <1>2, <1>3 DEF Next, Return

-----------------------------------------------------------------------------
(* What the invariant gives at one core.                                    *)

\* While a consumer still stages its strips, only strip 0 can have landed.
LEMMA EarlyStrip ==
  ASSUME IInv, NEW p \in PE, NEW d \in Dir, PutGuard(p, d),
         op[PutPeer(p, d)] \in {"fill", "copy"}, NEW n \in 0 .. T, Landed(p, d, n)
  PROVE  n = 0
<1>1. step[p] = 0
  BY Skew
<1>2. putn[p][d] = IF PutOver(p, d) THEN 1 ELSE 0
  BY <1>1 DEF IInv, CountOK
<1>3. PutOver(p, d) => ~(op[p] = "signal" /\ dir[p] = d)
  BY DEF PutOver
<1> QED BY <1>2, <1>3 DEF Landed

\* An update finds every strip it reads at the plane it advances.
LEMMA FreshInv ==
  ASSUME IInv, NEW p \in PE, op[p] = "update"
  PROVE  /\ step[p] \in Nat /\ step[p] < T
         /\ LET s == Source(step[p])
            IN  Fresh(p, step[p], own[p][s], ghost[p][s], cols[p][s])
<1> DEFINE s == Source(step[p])
<1>1. step[p] \in Nat /\ step[p] < T /\ step[p] \in 0 .. T
  <2>1. step[p] \in 0 .. T
    BY DEF IInv, TypeOK
  <2>2. CtlOK(p)
    BY DEF IInv
  <2>3. step[p] < T
    BY <2>2 DEF CtlOK
  <2> QED BY <2>1, <2>3
<1>2. s \in Buf
  BY <1>1, BufType
<1>3. StripOK(p)
  BY DEF IInv
<1>4. own[p][s] = step[p] /\ cols[p][s] = 0 /\ \A d \in Dir : ~GetGuard(p, d) => ghost[p][s][d] = 0
  BY <1>1, <1>2, <1>3 DEF StripOK
<1>5. ASSUME NEW d \in Dir, GetGuard(p, d) PROVE ghost[p][s][d] = step[p]
  <2> DEFINE q == GetPeer(p, d)
  <2>1. q \in PE /\ PutGuard(q, d) /\ PutPeer(q, d) = p
    BY <1>5, LinkEnds
  <2>2. getn[p][d] = step[p] + 1
    BY <1>5 DEF IInv, CountOK, GetOver
  <2>3. getn[p][d] <= putn[q][d] /\ putn[q][d] \in Nat
    BY <2>1 DEF IInv, LinkOK, TypeOK
  <2>4. Landed(q, d, step[p])
    BY <1>1, <2>2, <2>3 DEF Landed
  <2>5. GhostOK(q, d)
    BY <2>1 DEF IInv
  <2>6. step[p] <= step[p]
    BY <1>1
  <2> QED BY <1>1, <2>1, <2>4, <2>5, <2>6 DEF GhostOK
<1> QED BY <1>1, <1>4, <1>5 DEF Fresh

\* Plane 0 is staged in the first buffer.
LEMMA SourceZero == Source(0) = "cur"
BY DEF Source, Phase

-----------------------------------------------------------------------------
(* Every step keeps the invariant.                                          *)

\* What a step of core p leaves alone: everything another core sets itself,
\* and the links p is at neither end of.
Same(q) ==
  /\ op'[q] = op[q] /\ dir'[q] = dir[q] /\ step'[q] = step[q]
  /\ own'[q] = own[q] /\ cols'[q] = cols[q] /\ l3'[q] = l3[q]
  /\ putn'[q] = putn[q] /\ getn'[q] = getn[q]

SameLink(q, d) ==
  /\ full'[PutPeer(q, d)][d] = full[PutPeer(q, d)][d]
  /\ empty'[q][d] = empty[q][d]
  /\ \A b \in Buf : ghost'[PutPeer(q, d)][b][d] = ghost[PutPeer(q, d)][b][d]

LEMMA OthersSame ==
  ASSUME TypeOK, NEW p \in PE, CtlOK(p), Core(p), NEW q \in PE, q # p
  PROVE  /\ Same(q)
         /\ op[p] # "write" => ghost'[q] = ghost[q]
<1> USE DEF Same, TypeOK, Goto, sems, strips
<1>1. CASE Fill(p)
  BY <1>1 DEF Fill
<1>2. CASE Copy(p)
  BY <1>2 DEF Copy, EnterTrip
<1>3. CASE WaitEmpty(p)
  BY <1>3 DEF WaitEmpty
<1>4. CASE Write(p)
  BY <1>4 DEF Write
<1>5. CASE Signal(p)
  BY <1>5 DEF Signal, AfterPut
<1>6. CASE SkipPut(p)
  BY <1>6 DEF SkipPut, AfterPut
<1>7. CASE Release(p)
  BY <1>7 DEF Release
<1>8. CASE WaitFull(p)
  BY <1>8 DEF WaitFull, AfterGet
<1>9. CASE SkipGet(p)
  BY <1>9 DEF SkipGet, AfterGet
<1>10. CASE Update(p)
  BY <1>10 DEF Update
<1>11. CASE Drain(p)
  BY <1>11 DEF Drain, EnterTrip
<1> QED BY <1>1, <1>2, <1>3, <1>4, <1>5, <1>6, <1>7, <1>8, <1>9, <1>10, <1>11
        DEF Core, Put, Get

LEMMA OtherLinksSame ==
  ASSUME TypeOK, NEW p \in PE, CtlOK(p), Core(p),
         NEW q \in PE, NEW d \in Dir, PutGuard(q, d), q # p, PutPeer(q, d) # p
  PROVE  SameLink(q, d)
<1>0. PutPeer(q, d) \in PE /\ GetPeer(PutPeer(q, d), d) = q
  BY LinkEnds
<1> USE DEF SameLink
<1>1. CASE Fill(p)
  BY <1>0, <1>1, OthersSame, FillStep
<1>2. CASE Copy(p)
  BY <1>0, <1>2, OthersSame, CopyStep
<1>3. CASE WaitEmpty(p)
  BY <1>3, WaitEmptyStep
<1>4. CASE Write(p)
  <2>1. /\ UNCHANGED <<full, empty>>
        /\ \A r \in PE, b \in Buf, e \in Dir :
             ghost'[r][b][e] = IF r = PutPeer(p, dir[p]) /\ b = Source(step[p]) /\ e = dir[p]
                               THEN own[p][Source(step[p])] ELSE ghost[r][b][e]
        /\ op[p] = "write"
    BY <1>4, WriteStep
  <2>2. PutGuard(p, dir[p])
    BY <2>1 DEF CtlOK
  <2>3. ~(PutPeer(q, d) = PutPeer(p, dir[p]) /\ d = dir[p])
    BY <1>0, <2>2, LinkEnds
  <2> QED BY <1>0, <2>1, <2>3
<1>5. CASE Signal(p)
  <2>1. /\ UNCHANGED <<ghost, empty>>
        /\ \A r \in PE, e \in Dir :
             full'[r][e] = IF r = PutPeer(p, dir[p]) /\ e = dir[p]
                           THEN full[r][e] + 1 ELSE full[r][e]
        /\ op[p] = "signal"
    BY <1>5, SignalStep
  <2>2. PutGuard(p, dir[p])
    BY <2>1 DEF CtlOK
  <2>3. ~(PutPeer(q, d) = PutPeer(p, dir[p]) /\ d = dir[p])
    BY <1>0, <2>2, LinkEnds
  <2> QED BY <1>0, <2>1, <2>3
<1>6. CASE SkipPut(p)
  BY <1>6, SkipPutStep
<1>7. CASE Release(p)
  <2>1. /\ UNCHANGED <<ghost, full>>
        /\ \A r \in PE, e \in Dir :
             empty'[r][e] = IF r = GetPeer(p, dir[p]) /\ e = dir[p] /\ getn[p][dir[p]] > 0
                            THEN empty[r][e] + 1 ELSE empty[r][e]
        /\ GetGuard(p, dir[p])
    BY <1>7, ReleaseStep
  <2>2. ~(q = GetPeer(p, dir[p]) /\ d = dir[p])
    BY <2>1, LinkEnds
  <2> QED BY <2>1, <2>2
<1>8. CASE WaitFull(p)
  BY <1>8, WaitFullStep
<1>9. CASE SkipGet(p)
  BY <1>9, SkipGetStep
<1>10. CASE Update(p)
  BY <1>10, UpdateStep
<1>11. CASE Drain(p)
  BY <1>11, DrainStep
<1> QED BY <1>1, <1>2, <1>3, <1>4, <1>5, <1>6, <1>7, <1>8, <1>9, <1>10, <1>11
        DEF Core, Put, Get

\* So a step of core p keeps the invariant if it keeps p's part of it, and that
\* of the links p is at one end of.
LEMMA StepKeeps ==
  ASSUME IInv, NEW p \in PE, Core(p),
         CtlOK(p)', \A d \in Dir : CountOK(p, d)', StripOK(p)', L3OK(p)',
         \A d \in Dir : PutGuard(p, d) => LinkOK(p, d)' /\ GhostOK(p, d)',
         \A d \in Dir : GetGuard(p, d) =>
           LinkOK(GetPeer(p, d), d)' /\ GhostOK(GetPeer(p, d), d)',
         op[p] = "write" => \A q \in PE : q # p => StripOK(q)'
  PROVE  IInv'
<1>1. /\ TypeOK
      /\ \A q \in PE : CtlOK(q) /\ StripOK(q) /\ L3OK(q)
      /\ \A q \in PE, d \in Dir : CountOK(q, d) /\ LinkOK(q, d) /\ GhostOK(q, d)
  BY DEF IInv
<1>2. TypeOK'
  BY TypeStep DEF Next
<1>3. ASSUME NEW q \in PE, q # p
      PROVE  /\ CtlOK(q)' /\ StripOK(q)' /\ L3OK(q)'
             /\ \A d \in Dir : CountOK(q, d)'
  <2>1. Same(q) /\ (op[p] # "write" => ghost'[q] = ghost[q])
    BY <1>1, <1>3, OthersSame
  <2>2. CtlOK(q)' /\ L3OK(q)'
    BY <1>1, <2>1 DEF Same, CtlOK, L3OK
  <2>3. \A d \in Dir : CountOK(q, d)'
    BY <1>1, <2>1 DEF Same, CountOK, PutOver, GetOver
  <2>4. CASE op[p] # "write"
    <3>1. StripOK(q) /\ Same(q) /\ ghost'[q] = ghost[q]
      BY <1>1, <2>1, <2>4
    <3>2. StripOK(q)'
      BY <3>1 DEF Same, StripOK
    <3> QED BY <2>2, <2>3, <3>2
  <2> QED BY <1>3, <2>2, <2>3, <2>4
<1>4. ASSUME NEW q \in PE, NEW d \in Dir PROVE LinkOK(q, d)' /\ GhostOK(q, d)'
  <2>1. CASE ~PutGuard(q, d)
    BY <2>1 DEF LinkOK, GhostOK
  <2>2. CASE PutGuard(q, d) /\ q = p
    BY <2>2
  <2>3. CASE PutGuard(q, d) /\ PutPeer(q, d) = p
    BY <2>3, LinkEnds
  <2>4. CASE PutGuard(q, d) /\ q # p /\ PutPeer(q, d) # p
    <3>1. LinkOK(q, d) /\ GhostOK(q, d) /\ PutPeer(q, d) \in PE
      BY <1>1, <2>4, LinkEnds
    <3>2. SameLink(q, d)
      BY <1>1, <2>4, OtherLinksSame
    <3>3. Same(q) /\ Same(PutPeer(q, d))
      BY <1>1, <2>4, <3>1, OthersSame
    <3>4. LinkOK(q, d)'
      BY <3>1, <3>2, <3>3 DEF LinkOK, Same, SameLink
    <3>5. ASSUME NEW n \in 0 .. T, Landed(q, d, n)', step'[PutPeer(q, d)] <= n
          PROVE  ghost'[PutPeer(q, d)][Source(n)][d] = n
      <4>1. Landed(q, d, n) /\ step[PutPeer(q, d)] <= n
        BY <3>3, <3>5 DEF Landed, Same
      <4>2. ghost[PutPeer(q, d)][Source(n)][d] = n
        BY <2>4, <3>1, <4>1 DEF GhostOK
      <4>3. Source(n) \in Buf
        BY BufType
      <4> QED BY <3>2, <4>2, <4>3 DEF SameLink
    <3>6. GhostOK(q, d)'
      BY <3>5 DEF GhostOK
    <3> QED BY <3>4, <3>6
  <2> QED BY <2>1, <2>2, <2>3, <2>4
<1> QED BY <1>2, <1>3, <1>4 DEF IInv

\* The parts of the invariant, and its types at one core and one link.
LEMMA Parts ==
  ASSUME IInv
  PROVE  /\ TypeOK
         /\ \A p \in PE : CtlOK(p) /\ StripOK(p) /\ L3OK(p)
         /\ \A p \in PE, d \in Dir : CountOK(p, d) /\ LinkOK(p, d) /\ GhostOK(p, d)
         /\ \A p \in PE : op[p] \in Op /\ dir[p] \in Dir /\ step[p] \in 0 .. T /\ step[p] \in Nat
         /\ \A p \in PE, d \in Dir : /\ full[p][d] \in Nat /\ empty[p][d] \in Nat
                                     /\ putn[p][d] \in Nat /\ getn[p][d] \in Nat
<1>1. TypeOK
  BY DEF IInv
<1>2. \A p \in PE : op[p] \in Op /\ dir[p] \in Dir /\ step[p] \in 0 .. T /\ step[p] \in Nat
  BY <1>1 DEF TypeOK
<1>3. \A p \in PE, d \in Dir : /\ full[p][d] \in Nat /\ empty[p][d] \in Nat
                               /\ putn[p][d] \in Nat /\ getn[p][d] \in Nat
  BY <1>1 DEF TypeOK
<1> QED BY <1>1, <1>2, <1>3 DEF IInv

\* Both ends of a link of p, seen from p.
LEMMA PeerParts ==
  ASSUME IInv, NEW p \in PE, NEW d \in Dir
  PROVE  /\ PutGuard(p, d) => PutPeer(p, d) \in PE /\ PutPeer(p, d) # p
         /\ GetGuard(p, d) => /\ GetPeer(p, d) \in PE /\ GetPeer(p, d) # p
                              /\ PutGuard(GetPeer(p, d), d) /\ PutPeer(GetPeer(p, d), d) = p
                              /\ LinkOK(GetPeer(p, d), d) /\ GhostOK(GetPeer(p, d), d)
BY LinkEnds, Parts

\* What a step leaves alone at the other end of one of p's links.
LEMMA PeerSame ==
  ASSUME IInv, NEW p \in PE, NEW d \in Dir, Core(p)
  PROVE  /\ PutGuard(p, d) => Same(PutPeer(p, d))
         /\ GetGuard(p, d) => Same(GetPeer(p, d))
BY PeerParts, Parts, OthersSame

LEMMA FillInv == ASSUME IInv, NEW p \in PE, Fill(p) PROVE IInv'
<1>1. /\ op[p] = "fill" /\ op'[p] = "copy" /\ step[p] = 0
      /\ UNCHANGED <<step, full, empty, putn, getn, l3>>
  BY Parts, FillStep DEF CtlOK, TypeOK
<1>2. Core(p)
  BY DEF Core
<1>3. \A q \in PE : l3[q][0] = 0
  <2>1. \A q \in PE : L3OK(q) /\ step[q] \in Nat
    BY Parts
  <2> QED BY <2>1, Members DEF L3OK
<1>4. /\ own'[p]["cur"] = 0 /\ cols'[p]["cur"] = 0
      /\ \A d \in Dir : ghost'[p]["cur"][d] = 0
      /\ \A d \in Dir : ghost'[p]["next"][d] \in {0, Junk}
  <2>1. \A d \in Dir : ghost'[p]["cur"][d] =
                         IF GetGuard(p, d) THEN l3[GetPeer(p, d)][0] ELSE 0
    BY FillStep, Parts, Members
  <2>2. own'[p]["cur"] = l3[p][0] /\ cols'[p]["cur"] = 0
    BY FillStep, Parts, Members
  <2>3. \A d \in Dir : GetGuard(p, d) => GetPeer(p, d) \in PE
    BY LinkEnds
  <2>4. \A d \in Dir : ghost'[p]["next"][d] = ghost[p]["next"][d]
    BY FillStep, Parts, Members
  <2>5. \A d \in Dir : ghost[p]["next"][d] \in {0, Junk}
    BY <1>1, Parts, Members DEF StripOK
  <2> QED BY <1>3, <2>1, <2>2, <2>3, <2>4, <2>5
<1>5. CtlOK(p)'
  BY <1>1 DEF CtlOK
<1>6. ASSUME NEW d \in Dir PROVE CountOK(p, d)'
  <2>1. CountOK(p, d)
    BY Parts
  <2> QED BY <1>1, <2>1 DEF CountOK, PutOver, GetOver
<1>7. StripOK(p)'
  BY <1>1, <1>4 DEF StripOK, Buf
<1>8. L3OK(p)'
  <2>1. L3OK(p)
    BY Parts
  <2> QED BY <1>1, <2>1 DEF L3OK
<1>9. ASSUME NEW d \in Dir, PutGuard(p, d) PROVE LinkOK(p, d)' /\ GhostOK(p, d)'
  <2>1. LinkOK(p, d) /\ Same(PutPeer(p, d)) /\ putn[p][d] = 0
    BY <1>1, <1>2, <1>9, Parts, PeerSame DEF CountOK, PutOver
  <2>2. LinkOK(p, d)'
    BY <1>1, <2>1 DEF LinkOK, Same
  <2>3. \A n \in 0 .. T : ~Landed(p, d, n)'
    BY <1>1, <2>1 DEF Landed
  <2> QED BY <2>2, <2>3 DEF GhostOK
<1>10. ASSUME NEW d \in Dir, GetGuard(p, d)
       PROVE  LinkOK(GetPeer(p, d), d)' /\ GhostOK(GetPeer(p, d), d)'
  <2> DEFINE q == GetPeer(p, d)
  <2>1. q \in PE /\ PutGuard(q, d) /\ PutPeer(q, d) = p /\ LinkOK(q, d) /\ Same(q)
    BY <1>2, <1>10, PeerParts, PeerSame
  <2> HIDE DEF q
  <2>2. LinkOK(q, d)'
    BY <1>1, <2>1 DEF LinkOK, Same
  <2>3. ASSUME NEW n \in 0 .. T, Landed(q, d, n)' PROVE ghost'[p][Source(n)][d] = n
    <3>1. Landed(q, d, n)
      BY <1>1, <2>1, <2>3 DEF Landed, Same
    <3>2. n = 0
      BY <1>1, <2>1, <3>1, EarlyStrip
    <3> QED BY <1>4, <3>2, SourceZero
  <2>4. GhostOK(q, d)'
    BY <2>1, <2>3 DEF GhostOK
  <2> QED BY <2>2, <2>4 DEF q
<1> QED BY <1>1, <1>2, <1>5, <1>6, <1>7, <1>8, <1>9, <1>10, StepKeeps

LEMMA CopyInv == ASSUME IInv, NEW p \in PE, Copy(p) PROVE IInv'
<1>1. /\ op[p] = "copy" /\ op'[p] = (IF 0 < T THEN "wait_empty" ELSE "done")
      /\ dir'[p] = "ToNorth" /\ step[p] = 0 /\ step'[p] = 0
      /\ UNCHANGED <<full, empty, putn, getn, l3>>
  BY Parts, CopyStep DEF CtlOK, TypeOK
<1>2. Core(p)
  BY DEF Core
<1>3. /\ \A b \in Buf : cols'[p][b] = 0 /\ \A d \in Dir : ghost'[p][b][d] = 0
      /\ own'[p]["cur"] = 0
  <2>1. /\ own[p]["cur"] = 0 /\ cols[p]["cur"] = 0
        /\ \A d \in Dir : ghost[p]["cur"][d] = 0
    BY <1>1, Parts DEF StripOK
  <2>2. \A b \in Buf : b = "cur" \/ b = "next"
    BY DEF Buf
  <2>3. \A b \in Buf :
           /\ own'[p][b] = IF b = "next" THEN own[p]["cur"] ELSE own[p][b]
           /\ cols'[p][b] = IF b = "next" THEN cols[p]["cur"] ELSE cols[p][b]
           /\ ghost'[p][b] = IF b = "next" THEN ghost[p]["cur"] ELSE ghost[p][b]
    BY CopyStep, Parts
  <2> QED BY <2>1, <2>2, <2>3, Members
<1>4. CtlOK(p)'
  BY <1>1 DEF CtlOK
<1>5. ASSUME NEW d \in Dir PROVE CountOK(p, d)'
  <2>1. CountOK(p, d)
    BY Parts
  <2> QED BY <1>1, <2>1 DEF CountOK, PutOver, GetOver
<1>6. StripOK(p)'
  BY <1>1, <1>3, SourceZero DEF StripOK
<1>7. L3OK(p)'
  <2>1. L3OK(p)
    BY Parts
  <2> QED BY <1>1, <2>1 DEF L3OK
<1>8. ASSUME NEW d \in Dir, PutGuard(p, d) PROVE LinkOK(p, d)' /\ GhostOK(p, d)'
  <2>1. LinkOK(p, d) /\ Same(PutPeer(p, d)) /\ putn[p][d] = 0
    BY <1>1, <1>2, <1>8, Parts, PeerSame DEF CountOK, PutOver
  <2>2. LinkOK(p, d)'
    BY <1>1, <2>1 DEF LinkOK, Same
  <2>3. \A n \in 0 .. T : ~Landed(p, d, n)'
    BY <1>1, <2>1 DEF Landed
  <2> QED BY <2>2, <2>3 DEF GhostOK
<1>9. ASSUME NEW d \in Dir, GetGuard(p, d)
      PROVE  LinkOK(GetPeer(p, d), d)' /\ GhostOK(GetPeer(p, d), d)'
  <2> DEFINE q == GetPeer(p, d)
  <2>1. q \in PE /\ PutGuard(q, d) /\ PutPeer(q, d) = p /\ LinkOK(q, d) /\ Same(q)
    BY <1>2, <1>9, PeerParts, PeerSame
  <2> HIDE DEF q
  <2>2. LinkOK(q, d)'
    BY <1>1, <2>1 DEF LinkOK, Same
  <2>3. ASSUME NEW n \in 0 .. T, Landed(q, d, n)' PROVE ghost'[p][Source(n)][d] = n
    <3>1. Landed(q, d, n)
      BY <1>1, <2>1, <2>3 DEF Landed, Same
    <3>2. n = 0
      BY <1>1, <2>1, <3>1, EarlyStrip
    <3> QED BY <1>3, <3>2, SourceZero, Members
  <2>4. GhostOK(q, d)'
    BY <2>1, <2>3 DEF GhostOK
  <2> QED BY <2>2, <2>4 DEF q
<1> QED BY <1>1, <1>2, <1>4, <1>5, <1>6, <1>7, <1>8, <1>9, StepKeeps

\* A step that moves no strip and no counter leaves both ends' links alone.
LEMMA QuietLinks ==
  ASSUME IInv, NEW p \in PE, Core(p), UNCHANGED <<ghost, full, empty>>,
         putn'[p] = putn[p], getn'[p] = getn[p], step[p] <= step'[p], step'[p] \in Nat,
         op[p] \notin {"signal", "wait_full"}, op'[p] \notin {"signal", "wait_full"}
  PROVE  /\ \A d \in Dir : PutGuard(p, d) => LinkOK(p, d)' /\ GhostOK(p, d)'
         /\ \A d \in Dir : GetGuard(p, d) =>
              LinkOK(GetPeer(p, d), d)' /\ GhostOK(GetPeer(p, d), d)'
<1>1. ASSUME NEW d \in Dir, PutGuard(p, d) PROVE LinkOK(p, d)' /\ GhostOK(p, d)'
  <2>1. LinkOK(p, d) /\ GhostOK(p, d) /\ Same(PutPeer(p, d))
    BY <1>1, Parts, PeerSame
  <2>2. LinkOK(p, d)'
    BY <2>1 DEF LinkOK, Same
  <2>3. \A n \in 0 .. T : Landed(p, d, n)' => Landed(p, d, n)
    BY DEF Landed
  <2>4. GhostOK(p, d)'
    BY <2>1, <2>3 DEF GhostOK, Same
  <2> QED BY <2>2, <2>4
<1>2. ASSUME NEW d \in Dir, GetGuard(p, d)
      PROVE  LinkOK(GetPeer(p, d), d)' /\ GhostOK(GetPeer(p, d), d)'
  <2> DEFINE q == GetPeer(p, d)
  <2>1. q \in PE /\ PutGuard(q, d) /\ PutPeer(q, d) = p /\ LinkOK(q, d) /\ GhostOK(q, d) /\ Same(q)
    BY <1>2, PeerParts, PeerSame
  <2> HIDE DEF q
  <2>2. LinkOK(q, d)'
    BY <2>1 DEF LinkOK, Same
  <2>3. \A n \in 0 .. T : Landed(q, d, n)' => Landed(q, d, n)
    BY <2>1 DEF Landed, Same
  <2>4. \A n \in 0 .. T : step'[p] <= n => step[p] <= n
    BY Parts
  <2>5. GhostOK(q, d)'
    BY <2>1, <2>3, <2>4 DEF GhostOK
  <2> QED BY <2>2, <2>5 DEF q
<1> QED BY <1>1, <1>2

LEMMA WaitEmptyInv == ASSUME IInv, NEW p \in PE, WaitEmpty(p) PROVE IInv'
<1>1. /\ op[p] = "wait_empty" /\ op'[p] = "write" /\ dir' = dir /\ PutGuard(p, dir[p])
      /\ UNCHANGED <<step, own, ghost, cols, full, empty, putn, getn, l3>>
  BY Parts, WaitEmptyStep DEF TypeOK
<1>2. Core(p)
  BY DEF Core, Put
<1>3. CtlOK(p)' /\ StripOK(p)' /\ L3OK(p)'
  <2>1. CtlOK(p) /\ StripOK(p) /\ L3OK(p)
    BY Parts
  <2> QED BY <1>1, <2>1 DEF CtlOK, StripOK, L3OK
<1>4. ASSUME NEW d \in Dir PROVE CountOK(p, d)'
  <2>1. CountOK(p, d)
    BY Parts
  <2> QED BY <1>1, <2>1 DEF CountOK, PutOver, GetOver
<1>5. step[p] <= step'[p] /\ step'[p] \in Nat
  BY <1>1, Parts
<1> QED BY <1>1, <1>2, <1>3, <1>4, <1>5, QuietLinks, StepKeeps

LEMMA SkipPutInv == ASSUME IInv, NEW p \in PE, SkipPut(p) PROVE IInv'
<1>1. /\ op[p] = "wait_empty" /\ ~PutGuard(p, dir[p])
      /\ op'[p] = (IF dir[p] = "ToNorth" THEN "wait_empty" ELSE "release")
      /\ dir'[p] = (IF dir[p] = "ToNorth" THEN "ToSouth" ELSE "ToNorth")
      /\ UNCHANGED <<step, own, ghost, cols, full, empty, putn, getn, l3>>
  BY Parts, SkipPutStep, AfterPutStep DEF TypeOK
<1>2. Core(p)
  BY DEF Core, Put
<1>3. CtlOK(p)' /\ StripOK(p)' /\ L3OK(p)'
  <2>1. CtlOK(p) /\ StripOK(p) /\ L3OK(p)
    BY Parts
  <2> QED BY <1>1, <2>1 DEF CtlOK, StripOK, L3OK
<1>4. ASSUME NEW d \in Dir PROVE CountOK(p, d)'
  <2>1. CountOK(p, d) /\ (d = "ToNorth" \/ d = "ToSouth") /\ (dir[p] = "ToNorth" \/ dir[p] = "ToSouth")
    BY Parts DEF Dir
  <2> QED BY <1>1, <2>1 DEF CountOK, PutOver, GetOver
<1>5. step[p] <= step'[p] /\ step'[p] \in Nat
  BY <1>1, Parts
<1> QED BY <1>1, <1>2, <1>3, <1>4, <1>5, QuietLinks, StepKeeps

LEMMA SkipGetInv == ASSUME IInv, NEW p \in PE, SkipGet(p) PROVE IInv'
<1>1. /\ op[p] = "release" /\ ~GetGuard(p, dir[p])
      /\ op'[p] = (IF dir[p] = "ToNorth" THEN "release" ELSE "update")
      /\ dir'[p] = (IF dir[p] = "ToNorth" THEN "ToSouth" ELSE "ToNorth")
      /\ UNCHANGED <<step, own, ghost, cols, full, empty, putn, getn, l3>>
  BY Parts, SkipGetStep, AfterGetStep DEF TypeOK
<1>2. Core(p)
  BY DEF Core, Get
<1>3. CtlOK(p)' /\ StripOK(p)' /\ L3OK(p)'
  <2>1. CtlOK(p) /\ StripOK(p) /\ L3OK(p)
    BY Parts
  <2> QED BY <1>1, <2>1 DEF CtlOK, StripOK, L3OK
<1>4. ASSUME NEW d \in Dir PROVE CountOK(p, d)'
  <2>1. CountOK(p, d) /\ (d = "ToNorth" \/ d = "ToSouth") /\ (dir[p] = "ToNorth" \/ dir[p] = "ToSouth")
    BY Parts DEF Dir
  <2> QED BY <1>1, <2>1 DEF CountOK, PutOver, GetOver
<1>5. step[p] <= step'[p] /\ step'[p] \in Nat
  BY <1>1, Parts
<1> QED BY <1>1, <1>2, <1>3, <1>4, <1>5, QuietLinks, StepKeeps

LEMMA UpdateInv == ASSUME IInv, NEW p \in PE, Update(p) PROVE IInv'
<1> DEFINE s == Source(step[p])
           t == Destination(step[p])
<1>1. /\ op[p] = "update" /\ op'[p] = "drain"
      /\ UNCHANGED <<step, ghost, cols, full, empty, putn, getn, l3>>
  BY Parts, UpdateStep DEF TypeOK
<1>2. Core(p)
  BY DEF Core
<1>3. step[p] \in Nat /\ step[p] < T /\ s \in Buf /\ t \in Buf /\ s # t
  BY <1>1, FreshInv, BufType
<1>4. own'[p][t] = step[p] + 1 /\ own'[p][s] = own[p][s]
  <2>1. Updated(p, step[p], own[p][s], ghost[p][s], cols[p][s]) = step[p] + 1
    BY <1>1, FreshInv DEF Updated
  <2>2. \A b \in Buf : own'[p][b] =
          IF b = t THEN Updated(p, step[p], own[p][s], ghost[p][s], cols[p][s]) ELSE own[p][b]
    BY UpdateStep, Parts
  <2> QED BY <1>3, <2>1, <2>2
<1>5. StripOK(p)'
  <2>1. StripOK(p)
    BY Parts
  <2> QED BY <1>1, <1>3, <1>4, <2>1 DEF StripOK
<1>6. CtlOK(p)' /\ L3OK(p)'
  <2>1. CtlOK(p) /\ L3OK(p)
    BY Parts
  <2> QED BY <1>1, <2>1 DEF CtlOK, L3OK
<1>7. ASSUME NEW d \in Dir PROVE CountOK(p, d)'
  <2>1. CountOK(p, d)
    BY Parts
  <2> QED BY <1>1, <2>1 DEF CountOK, PutOver, GetOver
<1>8. step[p] <= step'[p] /\ step'[p] \in Nat
  BY <1>1, Parts
<1> QED BY <1>1, <1>2, <1>5, <1>6, <1>7, <1>8, QuietLinks, StepKeeps

LEMMA DrainInv == ASSUME IInv, NEW p \in PE, Drain(p) PROVE IInv'
<1> DEFINE n == step[p]
           t == Destination(step[p])
<1>1. /\ op[p] = "drain" /\ n < T /\ n \in Nat
      /\ op'[p] = (IF n + 1 < T THEN "wait_empty" ELSE "done")
      /\ dir'[p] = "ToNorth" /\ step'[p] = n + 1
      /\ UNCHANGED <<own, ghost, cols, full, empty, putn, getn>>
  BY Parts, DrainStep DEF TypeOK
<1>2. Core(p)
  BY DEF Core
<1>3. StripOK(p)
  BY Parts
<1>4. own[p][t] = n + 1 /\ cols[p][t] = 0
  BY <1>1, <1>3, BufType DEF StripOK
<1>5. StripOK(p)'
  <2>1. n + 1 < T => Source(n + 1) = t
    BY <1>1, SwapsEachTrip
  <2> QED BY <1>1, <1>3, <1>4, <2>1 DEF StripOK
<1>6. L3OK(p)'
  <2>1. L3OK(p)
    BY Parts
  <2>2. \A m \in 0 .. T : l3'[p][m] = IF m = n + 1 THEN n + 1 ELSE l3[p][m]
    BY <1>4, DrainStep, Parts
  <2> QED BY <1>1, <2>1, <2>2 DEF L3OK
<1>7. CtlOK(p)'
  BY <1>1 DEF CtlOK
<1>8. ASSUME NEW d \in Dir PROVE CountOK(p, d)'
  <2>1. CountOK(p, d)
    BY Parts
  <2> QED BY <1>1, <2>1 DEF CountOK, PutOver, GetOver
<1>9. step[p] <= step'[p] /\ step'[p] \in Nat
  BY <1>1
<1> QED BY <1>1, <1>2, <1>5, <1>6, <1>7, <1>8, <1>9, QuietLinks, StepKeeps

\* The remote write replaces the strip two trips back: the consumer is past it.
LEMMA WriteInv == ASSUME IInv, NEW p \in PE, Write(p) PROVE IInv'
<1> DEFINE e == dir[p]
           r == PutPeer(p, dir[p])
           n == step[p]
<1>1. /\ op[p] = "write" /\ op'[p] = "signal" /\ dir' = dir
      /\ UNCHANGED <<step, own, cols, full, empty, putn, getn, l3>>
  BY Parts, WriteStep DEF TypeOK
<1>2. Core(p)
  BY DEF Core, Put
<1>3. /\ e \in Dir /\ PutGuard(p, e) /\ r \in PE /\ r # p
      /\ n \in Nat /\ n < T /\ n \in 0 .. T /\ Source(n) \in Buf
  <2>1. CtlOK(p) /\ e \in Dir /\ n \in 0 .. T
    BY Parts
  <2>2. PutGuard(p, e) /\ n < T
    BY <1>1, <2>1 DEF CtlOK
  <2> QED BY <2>1, <2>2, LinkEnds, BufType
<1>4. own[p][Source(n)] = n
  <2>1. StripOK(p)
    BY Parts
  <2> QED BY <1>1, <1>3, <2>1 DEF StripOK
<1>5. \A q \in PE, b \in Buf, d \in Dir :
        ghost'[q][b][d] = IF q = r /\ b = Source(n) /\ d = e THEN n ELSE ghost[q][b][d]
  BY <1>4, WriteStep, Parts
<1> HIDE DEF e, r, n
<1>6. CtlOK(p)' /\ StripOK(p)' /\ L3OK(p)'
  <2>1. CtlOK(p) /\ StripOK(p) /\ L3OK(p)
    BY Parts
  <2>2. CtlOK(p)' /\ L3OK(p)'
    BY <1>1, <2>1 DEF CtlOK, L3OK
  <2>3. \A b \in Buf, d \in Dir : ghost'[p][b][d] = ghost[p][b][d]
    BY <1>3, <1>5
  <2>4. StripOK(p)'
    BY <1>1, <2>1, <2>3 DEF StripOK
  <2> QED BY <2>2, <2>4
<1>7. ASSUME NEW d \in Dir PROVE CountOK(p, d)'
  <2>1. CountOK(p, d)
    BY Parts
  <2> QED BY <1>1, <2>1 DEF CountOK, PutOver, GetOver
<1>8. ASSUME NEW d \in Dir, PutGuard(p, d) PROVE LinkOK(p, d)' /\ GhostOK(p, d)'
  <2> DEFINE q == PutPeer(p, d)
  <2>1. LinkOK(p, d) /\ GhostOK(p, d) /\ CountOK(p, d) /\ Same(q) /\ q \in PE
    BY <1>2, <1>8, Parts, PeerSame, LinkEnds
  <2>2. LinkOK(p, d)'
    BY <1>1, <2>1 DEF LinkOK, Same
  <2>3. ASSUME NEW m \in 0 .. T, Landed(p, d, m)', step'[q] <= m
        PROVE  ghost'[q][Source(m)][d] = m
    <3>0. Source(m) \in Buf /\ step[q] <= m /\ step[q] \in Nat
      BY <2>1, <2>3, BufType, Parts DEF Same
    <3>1. CASE d = e
      <4>1. putn[p][d] = n /\ q = r
        <5>1. ~PutOver(p, d)
          BY <1>1, <3>1 DEF PutOver, e
        <5>2. putn[p][d] = n + 0
          BY <1>8, <2>1, <5>1 DEF CountOK, n
        <5> QED BY <1>3, <3>1, <5>2 DEF e, r
      <4>2. m <= n
        BY <1>1, <1>3, <2>3, <4>1 DEF Landed
      <4>3. CASE m = n
        BY <1>3, <1>5, <3>0, <3>1, <4>1, <4>3
      <4>4. CASE m < n
        <5>1. n <= step[q] + 1
          BY <1>8, Skew DEF n
        <5>2. n = m + 1
          BY <1>3, <3>0, <4>4, <5>1
        <5>3. Source(m) # Source(n)
          BY <1>3, <5>2, SwapsEachTrip
        <5>4. ghost[q][Source(m)][d] = m
          BY <1>8, <2>1, <3>0, <4>1, <4>4 DEF GhostOK, Landed
        <5> QED BY <1>5, <2>1, <3>0, <5>3, <5>4
      <4> QED BY <1>3, <4>2, <4>3, <4>4
    <3>2. CASE d # e
      <4>1. Landed(p, d, m)
        BY <1>1, <2>3, <3>2 DEF Landed, e
      <4>2. ghost[q][Source(m)][d] = m
        BY <1>8, <2>1, <3>0, <4>1 DEF GhostOK
      <4> QED BY <1>5, <2>1, <3>0, <3>2, <4>2
    <3> QED BY <3>1, <3>2
  <2>4. GhostOK(p, d)'
    BY <2>3 DEF GhostOK
  <2> QED BY <2>2, <2>4
<1>9. ASSUME NEW d \in Dir, GetGuard(p, d)
      PROVE  LinkOK(GetPeer(p, d), d)' /\ GhostOK(GetPeer(p, d), d)'
  <2> DEFINE q == GetPeer(p, d)
  <2>1. q \in PE /\ PutGuard(q, d) /\ PutPeer(q, d) = p /\ LinkOK(q, d) /\ GhostOK(q, d) /\ Same(q)
    BY <1>2, <1>9, PeerParts, PeerSame
  <2> HIDE DEF q
  <2>2. LinkOK(q, d)'
    BY <1>1, <2>1 DEF LinkOK, Same
  <2>3. \A m \in 0 .. T : Landed(q, d, m)' => Landed(q, d, m)
    BY <2>1 DEF Landed, Same
  <2>4. \A b \in Buf : ghost'[p][b][d] = ghost[p][b][d]
    BY <1>3, <1>5
  <2>5. \A m \in 0 .. T : Source(m) \in Buf
    BY BufType
  <2>6. GhostOK(q, d)'
    BY <1>1, <2>1, <2>3, <2>4, <2>5 DEF GhostOK
  <2> QED BY <2>2, <2>6 DEF q
<1>10. ASSUME NEW q \in PE, q # p PROVE StripOK(q)'
  <2>1. StripOK(q) /\ Same(q)
    BY <1>2, <1>10, Parts, OthersSame
  <2>2. CASE q # r
    <3>1. \A b \in Buf, d \in Dir : ghost'[q][b][d] = ghost[q][b][d]
      BY <1>5, <2>2
    <3> QED BY <2>1, <3>1, Members DEF StripOK, Same
  <2>3. CASE q = r
    <3>1. GetGuard(q, e)
      BY <1>3, <2>3, LinkEnds DEF r, e
    <3>2. op[q] \in {"fill", "copy"} => n = 0
      BY <1>3, <2>3, Skew DEF r, e, n
    <3>3. \A b \in Buf, d \in Dir : ghost'[q][b][d] =
             IF b = Source(n) /\ d = e THEN n ELSE ghost[q][b][d]
      BY <1>5, <2>3
    <3> QED BY <2>1, <3>1, <3>2, <3>3, Members DEF StripOK, Same
  <2> QED BY <2>2, <2>3
<1> QED BY <1>1, <1>2, <1>6, <1>7, <1>8, <1>9, <1>10, StepKeeps

LEMMA SignalInv == ASSUME IInv, NEW p \in PE, Signal(p) PROVE IInv'
<1> DEFINE e == dir[p]
           r == PutPeer(p, dir[p])
<1>1. /\ op[p] = "signal"
      /\ op'[p] = (IF e = "ToNorth" THEN "wait_empty" ELSE "release")
      /\ dir'[p] = (IF e = "ToNorth" THEN "ToSouth" ELSE "ToNorth")
      /\ UNCHANGED <<step, own, ghost, cols, empty, getn, l3>>
  <2>1. op[p] = "signal" /\ AfterPut(p) /\ UNCHANGED <<step, own, ghost, cols, empty, getn, l3>>
    BY Parts, SignalStep
  <2>2. /\ op' = [op EXCEPT ![p] = IF e = "ToNorth" THEN "wait_empty" ELSE "release"]
        /\ dir' = [dir EXCEPT ![p] = IF e = "ToNorth" THEN "ToSouth" ELSE "ToNorth"]
    BY <2>1, Parts, AfterPutStep
  <2>3. op \in [PE -> Op] /\ dir \in [PE -> Dir]
    BY Parts DEF TypeOK
  <2> QED BY <2>1, <2>2, <2>3
<1>2. Core(p)
  BY DEF Core, Put
<1>3. e \in Dir /\ PutGuard(p, e) /\ r \in PE /\ r # p
  <2>1. CtlOK(p) /\ e \in Dir
    BY Parts
  <2>2. PutGuard(p, e)
    BY <1>1, <2>1 DEF CtlOK
  <2> QED BY <2>1, <2>2, LinkEnds
<1>4. \A q \in PE, d \in Dir :
        /\ full'[q][d] = IF q = r /\ d = e THEN full[q][d] + 1 ELSE full[q][d]
        /\ putn'[q][d] = IF q = p /\ d = e THEN putn[q][d] + 1 ELSE putn[q][d]
  BY Parts, SignalStep
<1>5. e = "ToNorth" \/ e = "ToSouth"
  BY <1>3 DEF Dir
<1> HIDE DEF e, r
<1>6. CtlOK(p)' /\ StripOK(p)' /\ L3OK(p)'
  <2>1. CtlOK(p) /\ StripOK(p) /\ L3OK(p)
    BY Parts
  <2> QED BY <1>1, <2>1 DEF CtlOK, StripOK, L3OK
<1>7. ASSUME NEW d \in Dir PROVE CountOK(p, d)'
  <2>1. CountOK(p, d) /\ (d = "ToNorth" \/ d = "ToSouth") /\ step[p] \in Nat
        /\ putn[p][d] \in Nat
    BY Parts DEF Dir
  <2>2. putn'[p][d] = IF d = e THEN putn[p][d] + 1 ELSE putn[p][d]
    BY <1>4
  <2>3. PutGuard(p, d) => putn'[p][d] = step'[p] + (IF PutOver(p, d)' THEN 1 ELSE 0)
    BY <1>1, <1>5, <2>1, <2>2 DEF CountOK, PutOver, e
  <2>4. GetOver(p, d)' <=> GetOver(p, d)
    BY <1>1, <1>5, <2>1 DEF GetOver
  <2> QED BY <1>1, <2>1, <2>3, <2>4 DEF CountOK
<1>8. ASSUME NEW d \in Dir, PutGuard(p, d) PROVE LinkOK(p, d)' /\ GhostOK(p, d)'
  <2> DEFINE q == PutPeer(p, d)
  <2>1. LinkOK(p, d) /\ GhostOK(p, d) /\ Same(q) /\ q \in PE /\ getn[q][d] \in Nat
        /\ putn[p][d] \in Nat /\ full[q][d] \in Nat
    BY <1>2, <1>8, Parts, PeerSame, LinkEnds
  <2>2. /\ full'[q][d] = IF d = e THEN full[q][d] + 1 ELSE full[q][d]
        /\ putn'[p][d] = IF d = e THEN putn[p][d] + 1 ELSE putn[p][d]
    BY <1>4, <2>1 DEF e, r
  <2>3. LinkOK(p, d)'
    BY <1>1, <2>1, <2>2 DEF LinkOK, Same
  <2>4. \A m \in 0 .. T : Landed(p, d, m)' => Landed(p, d, m)
    <3>1. d = e => \A m \in 0 .. T : m < putn'[p][d] => m <= putn[p][d]
      BY <2>1, <2>2
    <3>2. d # e => putn'[p][d] = putn[p][d]
      BY <2>2
    <3>3. ~(op'[p] = "signal")
      BY <1>1
    <3>4. \A m \in 0 .. T : Landed(p, d, m)' => m < putn'[p][d]
      BY <3>3 DEF Landed
    <3>5. \A m \in 0 .. T : m <= putn[p][d] => m < putn[p][d] \/ m = putn[p][d]
      BY <2>1
    <3> QED BY <1>1, <3>1, <3>2, <3>4, <3>5 DEF Landed, e
  <2>5. GhostOK(p, d)'
    BY <1>1, <2>1, <2>4 DEF GhostOK, Same
  <2> QED BY <2>3, <2>5
<1>9. ASSUME NEW d \in Dir, GetGuard(p, d)
      PROVE  LinkOK(GetPeer(p, d), d)' /\ GhostOK(GetPeer(p, d), d)'
  <2> DEFINE q == GetPeer(p, d)
  <2>1. q \in PE /\ PutGuard(q, d) /\ PutPeer(q, d) = p /\ LinkOK(q, d) /\ GhostOK(q, d) /\ Same(q)
    BY <1>2, <1>9, PeerParts, PeerSame
  <2> HIDE DEF q
  <2>2. full'[p][d] = full[p][d]
    BY <1>3, <1>4
  <2>3. LinkOK(q, d)'
    BY <1>1, <2>1, <2>2 DEF LinkOK, Same
  <2>4. \A m \in 0 .. T : Landed(q, d, m)' => Landed(q, d, m)
    BY <2>1 DEF Landed, Same
  <2>5. GhostOK(q, d)'
    BY <1>1, <2>1, <2>4 DEF GhostOK
  <2> QED BY <2>3, <2>5 DEF q
<1> QED BY <1>1, <1>2, <1>6, <1>7, <1>8, <1>9, StepKeeps

LEMMA ReleaseInv == ASSUME IInv, NEW p \in PE, Release(p) PROVE IInv'
<1> DEFINE e == dir[p]
           r == GetPeer(p, dir[p])
<1>1. /\ op[p] = "release" /\ op'[p] = "wait_full" /\ dir' = dir /\ GetGuard(p, e)
      /\ UNCHANGED <<step, own, ghost, cols, full, putn, getn, l3>>
  BY Parts, ReleaseStep DEF TypeOK
<1>2. Core(p)
  BY DEF Core, Get
<1>3. e \in Dir /\ r \in PE /\ r # p /\ PutGuard(r, e) /\ PutPeer(r, e) = p
  BY <1>1, Parts, LinkEnds
<1>4. \A q \in PE, d \in Dir :
        empty'[q][d] = IF q = r /\ d = e /\ getn[p][e] > 0 THEN empty[q][d] + 1 ELSE empty[q][d]
  BY Parts, ReleaseStep
<1> HIDE DEF e, r
<1>5. CtlOK(p)' /\ StripOK(p)' /\ L3OK(p)'
  <2>1. CtlOK(p) /\ StripOK(p) /\ L3OK(p)
    BY Parts
  <2> QED BY <1>1, <2>1 DEF CtlOK, StripOK, L3OK, e
<1>6. ASSUME NEW d \in Dir PROVE CountOK(p, d)'
  <2>1. CountOK(p, d)
    BY Parts
  <2> QED BY <1>1, <2>1 DEF CountOK, PutOver, GetOver
<1>7. ASSUME NEW d \in Dir, PutGuard(p, d) PROVE LinkOK(p, d)' /\ GhostOK(p, d)'
  <2>1. LinkOK(p, d) /\ GhostOK(p, d) /\ Same(PutPeer(p, d))
    BY <1>2, <1>7, Parts, PeerSame
  <2>2. empty'[p][d] = empty[p][d]
    BY <1>3, <1>4
  <2>3. LinkOK(p, d)'
    BY <1>1, <2>1, <2>2 DEF LinkOK, Same
  <2>4. \A m \in 0 .. T : Landed(p, d, m)' => Landed(p, d, m)
    BY <1>1 DEF Landed
  <2>5. GhostOK(p, d)'
    BY <1>1, <2>1, <2>4 DEF GhostOK
  <2> QED BY <2>3, <2>5
<1>8. ASSUME NEW d \in Dir, GetGuard(p, d)
      PROVE  LinkOK(GetPeer(p, d), d)' /\ GhostOK(GetPeer(p, d), d)'
  <2> DEFINE q == GetPeer(p, d)
  <2>1. q \in PE /\ PutGuard(q, d) /\ PutPeer(q, d) = p /\ LinkOK(q, d) /\ GhostOK(q, d)
        /\ Same(q) /\ getn[p][d] \in Nat
    BY <1>2, <1>8, PeerParts, PeerSame, Parts
  <2>2. empty'[q][d] = IF d = e /\ getn[p][d] > 0 THEN empty[q][d] + 1 ELSE empty[q][d]
    BY <1>4, <2>1 DEF r, e
  <2> HIDE DEF q
  <2>3. LinkOK(q, d)'
    BY <1>1, <2>1, <2>2 DEF LinkOK, Same, e
  <2>4. \A m \in 0 .. T : Landed(q, d, m)' => Landed(q, d, m)
    BY <2>1 DEF Landed, Same
  <2>5. GhostOK(q, d)'
    BY <1>1, <2>1, <2>4 DEF GhostOK
  <2> QED BY <2>3, <2>5 DEF q
<1> QED BY <1>1, <1>2, <1>5, <1>6, <1>7, <1>8, StepKeeps

LEMMA WaitFullInv == ASSUME IInv, NEW p \in PE, WaitFull(p) PROVE IInv'
<1> DEFINE e == dir[p]
<1>1. /\ op[p] = "wait_full" /\ full[p][e] >= getn[p][e] + 1
      /\ op'[p] = (IF e = "ToNorth" THEN "release" ELSE "update")
      /\ dir'[p] = (IF e = "ToNorth" THEN "ToSouth" ELSE "ToNorth")
      /\ UNCHANGED <<step, own, ghost, cols, full, empty, putn, l3>>
  <2>1. TypeOK /\ op \in [PE -> Op] /\ dir \in [PE -> Dir]
    BY Parts DEF TypeOK
  <2>2. /\ op[p] = "wait_full" /\ full[p][e] >= getn[p][e] + 1 /\ AfterGet(p)
        /\ UNCHANGED <<step, own, ghost, cols, full, empty, putn, l3>>
    BY <2>1, WaitFullStep
  <2>3. /\ op' = [op EXCEPT ![p] = IF e = "ToNorth" THEN "release" ELSE "update"]
        /\ dir' = [dir EXCEPT ![p] = IF e = "ToNorth" THEN "ToSouth" ELSE "ToNorth"]
    BY <2>1, <2>2, AfterGetStep
  <2> HIDE DEF e
  <2> QED BY <2>1, <2>2, <2>3
<1>2. Core(p)
  BY DEF Core, Get
<1>3. e \in Dir /\ GetGuard(p, e) /\ (e = "ToNorth" \/ e = "ToSouth")
  BY <1>1, Parts DEF CtlOK, Dir
<1>4. \A q \in PE, d \in Dir : getn'[q][d] = IF q = p /\ d = e THEN getn[q][d] + 1 ELSE getn[q][d]
  BY Parts, WaitFullStep
<1> HIDE DEF e
<1>5. CtlOK(p)' /\ StripOK(p)' /\ L3OK(p)'
  <2>1. CtlOK(p) /\ StripOK(p) /\ L3OK(p)
    BY Parts
  <2> QED BY <1>1, <2>1 DEF CtlOK, StripOK, L3OK
<1>6. ASSUME NEW d \in Dir PROVE CountOK(p, d)'
  <2>1. CountOK(p, d) /\ (d = "ToNorth" \/ d = "ToSouth") /\ step[p] \in Nat
        /\ getn[p][d] \in Nat
    BY Parts DEF Dir
  <2>2. getn'[p][d] = IF d = e THEN getn[p][d] + 1 ELSE getn[p][d]
    BY <1>4
  <2>3. GetGuard(p, d) => getn'[p][d] = step'[p] + (IF GetOver(p, d)' THEN 1 ELSE 0)
    BY <1>1, <1>3, <2>1, <2>2 DEF CountOK, GetOver, e
  <2>4. PutOver(p, d)' <=> PutOver(p, d)
    BY <1>1 DEF PutOver
  <2> QED BY <1>1, <2>1, <2>3, <2>4 DEF CountOK
<1>7. ASSUME NEW d \in Dir, PutGuard(p, d) PROVE LinkOK(p, d)' /\ GhostOK(p, d)'
  <2>1. LinkOK(p, d) /\ GhostOK(p, d) /\ Same(PutPeer(p, d))
    BY <1>2, <1>7, Parts, PeerSame
  <2>2. LinkOK(p, d)'
    BY <1>1, <2>1 DEF LinkOK, Same
  <2>3. \A m \in 0 .. T : Landed(p, d, m)' => Landed(p, d, m)
    BY <1>1 DEF Landed
  <2>4. GhostOK(p, d)'
    BY <1>1, <2>1, <2>3 DEF GhostOK, Same
  <2> QED BY <2>2, <2>4
<1>8. ASSUME NEW d \in Dir, GetGuard(p, d)
      PROVE  LinkOK(GetPeer(p, d), d)' /\ GhostOK(GetPeer(p, d), d)'
  <2> DEFINE q == GetPeer(p, d)
  <2>1. q \in PE /\ PutGuard(q, d) /\ PutPeer(q, d) = p /\ LinkOK(q, d) /\ GhostOK(q, d)
        /\ Same(q) /\ getn[p][d] \in Nat /\ putn[q][d] \in Nat
    BY <1>2, <1>8, PeerParts, PeerSame, Parts
  <2>2. getn'[p][d] = IF d = e THEN getn[p][d] + 1 ELSE getn[p][d]
    BY <1>4
  <2> HIDE DEF q
  <2>3. LinkOK(q, d)'
    <3>1. CASE d = e
      <4>1. getn[p][d] + 1 <= putn[q][d] /\ full'[p][d] = putn'[q][d]
        BY <1>1, <2>1, <3>1 DEF LinkOK, Same
      <4>2. empty'[q][d] = getn[p][d]
        BY <1>1, <2>1, <3>1 DEF LinkOK, e
      <4> QED BY <1>1, <2>1, <2>2, <3>1, <4>1, <4>2 DEF LinkOK, Same
    <3>2. CASE d # e
      BY <1>1, <2>1, <2>2, <3>2 DEF LinkOK, Same, e
    <3> QED BY <3>1, <3>2
  <2>4. \A m \in 0 .. T : Landed(q, d, m)' => Landed(q, d, m)
    BY <2>1 DEF Landed, Same
  <2>5. GhostOK(q, d)'
    BY <1>1, <2>1, <2>4 DEF GhostOK
  <2> QED BY <2>3, <2>5 DEF q
<1> QED BY <1>1, <1>2, <1>5, <1>6, <1>7, <1>8, StepKeeps

\* The invariant is inductive.
LEMMA StepInv == IInv /\ [Next]_vars => IInv'
<1> SUFFICES ASSUME IInv, [Next]_vars PROVE IInv'
  OBVIOUS
<1>1. ASSUME NEW p \in PE, Core(p) PROVE IInv'
  BY <1>1, FillInv, CopyInv, WaitEmptyInv, WriteInv, SignalInv, SkipPutInv, ReleaseInv,
     WaitFullInv, SkipGetInv, UpdateInv, DrainInv DEF Core, Put, Get
<1>2. CASE UNCHANGED vars
  BY <1>2 DEF vars, ctl, strips, sems, IInv, TypeOK, CtlOK, CountOK, PutOver, GetOver,
              LinkOK, StripOK, GhostOK, Landed, L3OK
<1> QED BY <1>1, <1>2 DEF Next, Return

-----------------------------------------------------------------------------
(* No circular wait.                                                        *)

\* A nonempty set of natural numbers has a least element.
LEMMA LeastNat == ASSUME NEW S, S \subseteq Nat, S # {} PROVE \E m \in S : \A n \in S : m <= n
<1> DEFINE R == {ss \in Nat \X Nat : ss[1] < ss[2]}
<1>1. IsWellFoundedOn(R, Nat)
  <2>1. OpToRel(<, Nat) = R
    BY Zenon DEF OpToRel
  <2> QED BY <2>1, NatLessThanWellFounded, Zenon
<1> HIDE DEF R
<1>2. PICK m \in S : \A n \in S : ~(<<n, m>> \in R)
  BY <1>1, WFMin
<1>3. ASSUME NEW n \in S, n < m PROVE FALSE
  <2>1. <<n, m>> \in Nat \X Nat /\ <<n, m>>[1] = n /\ <<n, m>>[2] = m
    OBVIOUS
  <2>2. <<n, m>> \in R
    BY <1>3, <2>1, Zenon DEF R
  <2> QED BY <1>2, <2>2
<1> QED BY <1>3

\* The credit R-TT-B finds is the ping-pong's: two, or the one put there is.
LEMMA CreditIsTwo == Credit = IF T >= 2 THEN 2 ELSE 1
<1>1. 1 \notin AliasGaps
  BY SwapsEachTrip DEF AliasGaps, Landing
<1>2. CASE T <= 2
  <2>1. AliasGaps = {}
    BY <1>1, <1>2 DEF AliasGaps
  <2> QED BY <1>2, <2>1 DEF Credit
<1>3. CASE T > 2
  <2>1. Source(0) = Source(2)
    <3>1. Phase(0) = 0 % 2 /\ Phase(2) = 2 % 2
      BY <1>3, PhaseIsParity
    <3> QED BY <3>1 DEF Source
  <2>2. 2 \in AliasGaps
    <3>1. 0 \in 0 .. T - 1 - 2 /\ 2 \in 1 .. T - 1 /\ Landing(0) = Landing(0 + 2)
      BY <1>3, <2>1 DEF Landing
    <3> QED BY <3>1 DEF AliasGaps
  <2>3. \A h \in AliasGaps : h \in Nat /\ 2 <= h
    BY <1>1 DEF AliasGaps
  <2>4. \A g \in AliasGaps : (\A h \in AliasGaps : g <= h) => g = 2
    BY <2>2, <2>3
  <2>5. (CHOOSE g \in AliasGaps : \A h \in AliasGaps : g <= h) = 2
    BY <2>2, <2>3, <2>4
  <2>6. Credit = CHOOSE g \in AliasGaps : \A h \in AliasGaps : g <= h
    <3>1. AliasGaps # {}
      BY <2>2
    <3> QED BY <3>1, Zenon DEF Credit
  <2> QED BY <1>3, <2>5, <2>6
<1> QED BY <1>2, <1>3

\* Of the cores that have not returned take one on the least trip n, one still
\* in its puts if there is one.  In its puts, its consumer has completed n
\* gets, so n - 1 regions are free and put n needs no more.  Past them, every
\* producer is past the puts of trip n too, and the strip it waits for is here.
LEMMA SomeCoreSteps == IInv => NoCircularWait
<1> SUFFICES ASSUME IInv, ~Finished PROVE \E p \in PE : CanStep(p)
  BY DEF NoCircularWait
<1> DEFINE Live == {p \in PE : op[p] # "done"}
           Putting(p) == op[p] \in {"fill", "copy", "wait_empty", "write", "signal"}
<1>1. PICK n \in Nat : /\ \E p \in Live : step[p] = n
                       /\ \A p \in Live : n <= step[p]
  <2> DEFINE S == {step[p] : p \in Live}
  <2>1. S # {} /\ S \subseteq Nat
    BY Parts DEF Finished
  <2>2. PICK m \in S : \A k \in S : m <= k
    BY <2>1, LeastNat
  <2> QED BY <2>1, <2>2
<1>2. \A p \in PE : n <= step[p]
  <2>1. \A p \in PE : CtlOK(p) /\ step[p] \in Nat /\ step[p] <= T
    BY Parts
  <2>2. \A p \in PE : op[p] = "done" => step[p] = T
    BY <2>1 DEF CtlOK
  <2> QED BY <1>1, <2>1, <2>2
<1>3. CASE \E p \in Live : step[p] = n /\ Putting(p)
  <2>1. PICK p \in PE : op[p] # "done" /\ step[p] = n /\ Putting(p)
    BY <1>3
  <2> DEFINE d == dir[p]
             q == PutPeer(p, dir[p])
  <2>2. CASE op[p] = "wait_empty" /\ PutGuard(p, d)
    <3>1. d \in Dir /\ q \in PE /\ LinkOK(p, d) /\ CountOK(p, d) /\ CountOK(q, d) /\ GetGuard(q, d)
      BY <2>2, Parts, LinkEnds
    <3>2. putn[p][d] = n
      BY <2>1, <2>2, <3>1 DEF CountOK, PutOver
    <3>3. getn[q][d] \in Nat /\ n <= getn[q][d]
      BY <1>2, <3>1, Parts DEF CountOK
    <3>4. n - 1 <= empty[p][d] /\ empty[p][d] \in Nat
      <4>1. \/ empty[p][d] = getn[q][d]
            \/ empty[p][d] = getn[q][d] - 1
            \/ getn[q][d] = 0
        BY <2>2, <3>1 DEF LinkOK
      <4>2. empty[p][d] \in Nat
        BY <3>1, Parts
      <4> QED BY <3>3, <4>1, <4>2
    <3>5. EmptyNeeded(n) <= empty[p][d]
      <4>1. CASE T >= 2
        BY <3>4, <4>1, CreditIsTwo DEF EmptyNeeded
      <4>2. CASE T < 2
        <5>1. n = 0
          <6>1. CtlOK(p)
            BY Parts
          <6> QED BY <2>1, <2>2, <4>2, <6>1 DEF CtlOK
        <5> QED BY <3>4, <4>2, <5>1, CreditIsTwo DEF EmptyNeeded
      <4> QED BY <4>1, <4>2
    <3>6. empty[p][d] >= EmptyNeeded(putn[p][d])
      <4>1. EmptyNeeded(n) \in Int
        BY CreditIsTwo DEF EmptyNeeded
      <4> QED BY <3>2, <3>4, <3>5, <4>1
    <3> QED BY <2>2, <3>6 DEF CanStep
  <2>3. CASE ~(op[p] = "wait_empty" /\ PutGuard(p, d))
    BY <2>1, <2>3 DEF CanStep
  <2> QED BY <2>2, <2>3
<1>4. CASE ~\E p \in Live : step[p] = n /\ Putting(p)
  <2>1. PICK p \in PE : op[p] # "done" /\ step[p] = n /\ ~Putting(p)
    BY <1>1, <1>4
  <2> DEFINE d == dir[p]
             q == GetPeer(p, dir[p])
  <2>2. CASE op[p] = "wait_full"
    <3>1. d \in Dir /\ GetGuard(p, d) /\ CtlOK(p)
      BY <2>2, Parts DEF CtlOK
    <3>2. q \in PE /\ PutGuard(q, d) /\ PutPeer(q, d) = p /\ LinkOK(q, d)
          /\ CountOK(q, d) /\ CountOK(p, d) /\ CtlOK(q) /\ op[q] \in Op
      BY <3>1, LinkEnds, Parts
    <3>3. getn[p][d] = n
      BY <2>1, <2>2, <3>1, <3>2 DEF CountOK, GetOver
    <3>4. putn[q][d] \in Nat /\ n + 1 <= putn[q][d]
      <4>1. step[q] \in Nat /\ n <= step[q] /\ putn[q][d] \in Nat
        BY <1>2, <3>1, <3>2, Parts
      <4>2. putn[q][d] = step[q] + (IF PutOver(q, d) THEN 1 ELSE 0)
        BY <3>2 DEF CountOK
      <4>3. step[q] = n => PutOver(q, d)
        <5>1. step[p] < T
          BY <2>2, <3>1 DEF CtlOK
        <5>2. step[q] = n => op[q] # "done" /\ ~Putting(q)
          BY <1>4, <2>1, <3>2, <5>1 DEF CtlOK
        <5>3. ~Putting(q) /\ op[q] # "done" => op[q] \in {"release", "wait_full", "update", "drain"}
          BY <3>2 DEF Op
        <5> QED BY <5>2, <5>3 DEF PutOver
      <4> QED BY <4>1, <4>2, <4>3
    <3>5. full[p][d] = putn[q][d]
      BY <3>2 DEF LinkOK
    <3> QED BY <2>2, <3>3, <3>4, <3>5 DEF CanStep
  <2>3. CASE op[p] # "wait_full"
    BY <2>1, <2>3 DEF CanStep
  <2> QED BY <2>2, <2>3
<1> QED BY <1>3, <1>4

-----------------------------------------------------------------------------
(* The refinement mapping.                                                  *)

LEMMA InitLatest == Init => Latest
BY DEF Init, Latest, LatestOK, Computed, Junk

LEMMA StepLatest == IInv /\ IInv' /\ Latest /\ [Next]_vars => Latest'
<1> SUFFICES ASSUME IInv, IInv', Latest, [Next]_vars, NEW q \in PE PROVE LatestOK(q)'
  BY DEF Latest
<1>1. LatestOK(q) /\ StripOK(q) /\ StripOK(q)' /\ CtlOK(q) /\ L3OK(q)
  BY Parts DEF IInv, Latest
<1>2. CASE UNCHANGED vars
  BY <1>1, <1>2 DEF vars, ctl, strips, LatestOK, Computed
<1>3. ASSUME NEW p \in PE, Core(p), p # q PROVE LatestOK(q)'
  BY <1>1, <1>3, Parts, OthersSame DEF Same, LatestOK, Computed
<1>4. TypeOK /\ op \in [PE -> Op] /\ step \in [PE -> 0 .. T] /\ step[q] \in Nat
      /\ own \in [PE -> [Buf -> Tag]]
  BY Parts DEF TypeOK
<1>5. \A b \in Buf : own[q][b] \in Int
  BY <1>4 DEF Tag, Junk
<1>6. CASE Fill(q)
  <2>1. op[q] = "fill" /\ op'[q] = "copy" /\ step' = step
        /\ \A b \in Buf : own'[q][b] = IF b = "cur" THEN l3[q][0] ELSE own[q][b]
    BY <1>4, <1>6, FillStep
  <2>2. l3[q][0] = 0 /\ step[q] = 0
    BY <1>1, <1>4, <2>1, Members DEF L3OK, CtlOK
  <2> QED BY <1>1, <2>1, <2>2, Members DEF LatestOK, Computed
<1>7. CASE Copy(q)
  <2>1. op[q] = "copy" /\ op'[q] # "drain" /\ step'[q] = 0 /\ step[q] = 0
        /\ own' = [own EXCEPT ![q]["next"] = own[q]["cur"]]
    BY <1>1, <1>4, <1>7 DEF Copy, EnterTrip, Goto, CtlOK
  <2>2. own[q]["cur"] = 0
    BY <1>1, <2>1 DEF StripOK
  <2>3. own'[q]["cur"] = 0 /\ own'[q]["next"] = 0
    BY <1>4, <2>1, <2>2, Members
  <2> QED BY <2>1, <2>3 DEF LatestOK, Computed, Buf
<1>8. CASE Update(q)
  <2>1. op[q] = "update" /\ op'[q] = "drain" /\ step' = step
        /\ \A b \in Buf : b # Destination(step[q]) => own'[q][b] = own[q][b]
    BY <1>1, <1>4, <1>8, UpdateStep
  <2>2. own'[q][Destination(step[q])] = step[q] + 1 /\ Destination(step[q]) \in Buf
    BY <1>1, <1>4, <2>1, BufType DEF StripOK
  <2>3. \A b \in Buf : own[q][b] <= step[q]
    BY <1>1, <1>4, <1>5, <2>1 DEF LatestOK, Computed
  <2> QED BY <1>4, <1>5, <2>1, <2>2, <2>3 DEF LatestOK, Computed
<1>9. CASE Drain(q)
  <2>1. op[q] = "drain" /\ op'[q] \notin {"drain", "fill"} /\ step'[q] = step[q] + 1 /\ own' = own
    BY <1>1, <1>4, <1>9, DrainStep
  <2> QED BY <1>1, <1>4, <2>1 DEF LatestOK, Computed
<1>10. CASE Put(q) \/ Get(q)
  <2>1. step' = step /\ own' = own
    BY <1>10 DEF Put, Get, WaitEmpty, Write, Signal, SkipPut, Release, WaitFull, SkipGet, strips
  <2>2. op[q] \notin {"drain", "fill"} /\ op'[q] \notin {"drain", "fill"}
    BY <1>4, <1>10 DEF Put, Get, WaitEmpty, Write, Signal, SkipPut, Release, WaitFull, SkipGet,
                        AfterPut, AfterGet, Goto
  <2> QED BY <1>1, <2>1, <2>2 DEF LatestOK, Computed
<1> QED BY <1>2, <1>3, <1>6, <1>7, <1>8, <1>9, <1>10 DEF Next, Core, Return

\* L3 holds the planes 0 .. n of core p's rows, and not plane n + 1.
PlanesInL3(p, n) == /\ \A m \in 0 .. n : l3[p][m] = m
                    /\ n < T => l3[p][n + 1] # n + 1

\* What the strips and L3 hold is what the trip and the operation of a core say.
LEMMA Mapping ==
  IInv /\ Latest => /\ planesDone = [p \in PE |-> Computed(p)]
                    /\ planesInL3 = [p \in PE |-> step[p]]
<1> SUFFICES ASSUME IInv, Latest PROVE /\ planesDone = [p \in PE |-> Computed(p)]
                                       /\ planesInL3 = [p \in PE |-> step[p]]
  OBVIOUS
<1>1. ASSUME NEW p \in PE PROVE Largest(0, Largest(own[p]["cur"], own[p]["next"])) = Computed(p)
  <2>1. LatestOK(p) /\ CtlOK(p) /\ step[p] \in Nat
    BY Parts DEF Latest
  <2>2. own[p]["cur"] \in Int /\ own[p]["next"] \in Int
    BY Members, Parts DEF TypeOK, Tag, Junk
  <2>3. own[p]["cur"] <= Computed(p) /\ own[p]["next"] <= Computed(p)
    BY <2>1, Members DEF LatestOK
  <2>4. Computed(p) = 0 \/ own[p]["cur"] = Computed(p) \/ own[p]["next"] = Computed(p)
    <3>1. op[p] = "fill" => Computed(p) = 0
      BY <2>1 DEF CtlOK, Computed
    <3> QED BY <2>1, <3>1 DEF LatestOK, Buf
  <2>5. Computed(p) \in Nat
    BY <2>1 DEF Computed
  <2> QED BY <2>2, <2>3, <2>4, <2>5 DEF Largest
<1>2. ASSUME NEW p \in PE PROVE (CHOOSE n \in -1 .. T : PlanesInL3(p, n)) = step[p]
  <2>1. L3OK(p) /\ step[p] \in Nat /\ step[p] <= T
    BY Parts
  <2>2. step[p] \in -1 .. T /\ PlanesInL3(p, step[p])
    BY <2>1 DEF L3OK, PlanesInL3, Junk
  <2>3. ASSUME NEW n \in -1 .. T, PlanesInL3(p, n) PROVE n = step[p]
    <3>1. CASE n < step[p]
      <4>1. n + 1 \in 0 .. T /\ n + 1 <= step[p] /\ n < T
        BY <2>1, <3>1
      <4> QED BY <2>1, <2>3, <4>1 DEF L3OK, PlanesInL3
    <3>2. CASE step[p] < n
      <4>1. step[p] + 1 \in 0 .. T /\ step[p] + 1 \in 0 .. n /\ ~(step[p] + 1 <= step[p])
        BY <2>1, <3>2
      <4> QED BY <2>1, <2>3, <4>1 DEF L3OK, PlanesInL3, Junk
    <3> QED BY <2>1, <3>1, <3>2
  <2> QED BY <2>2, <2>3
<1>3. planesDone = [p \in PE |-> Computed(p)]
  BY <1>1 DEF planesDone
<1>4. planesInL3 = [p \in PE |-> step[p]]
  <2>1. planesInL3 = [p \in PE |-> CHOOSE n \in -1 .. T : PlanesInL3(p, n)]
    BY DEF planesInL3, PlanesInL3
  <2> QED BY <1>2, <2>1, Zenon
<1> QED BY <1>3, <1>4

\* A core updates plane n only when its neighbours have computed plane n.
LEMMA NeighboursAreReady ==
  ASSUME IInv, NEW p \in PE, op[p] = "update", NEW q \in Abstract!Neighbours(p)
  PROVE  q \in PE /\ step[p] <= Computed(q)
<1>1. ASSUME NEW d \in Dir, GetGuard(p, d), q = GetPeer(p, d) PROVE q \in PE /\ step[p] <= Computed(q)
  <2>1. q \in PE /\ PutGuard(q, d) /\ PutPeer(q, d) = p /\ LinkOK(q, d)
    BY <1>1, PeerParts
  <2>2. CountOK(p, d) /\ CountOK(q, d) /\ step[q] \in Nat /\ step[p] \in Nat
        /\ putn[q][d] \in Nat /\ getn[p][d] \in Nat
    BY <2>1, Parts
  <2>3. getn[p][d] = step[p] + 1 /\ getn[p][d] <= putn[q][d] /\ putn[q][d] <= step[q] + 1
    BY <1>1, <2>1, <2>2 DEF CountOK, GetOver, LinkOK
  <2> QED BY <2>1, <2>2, <2>3 DEF Computed
<1>2. \E d \in Dir : GetGuard(p, d) /\ q = GetPeer(p, d)
  <2>1. q \in PE /\ (q = p - 1 \/ q = p + 1)
    BY DEF Abstract!Neighbours, Abstract!PE, PE
  <2>2. CASE q = p - 1
    <3>1. GetGuard(p, "ToSouth") /\ q = GetPeer(p, "ToSouth")
      BY <2>1, <2>2 DEF GetGuard, GetPeer, PE
    <3> QED BY <3>1, Members
  <2>3. CASE q = p + 1
    <3>1. GetGuard(p, "ToNorth") /\ q = GetPeer(p, "ToNorth")
      BY <2>1, <2>3 DEF GetGuard, GetPeer, PE
    <3> QED BY <3>1, Members
  <2> QED BY <2>1, <2>2, <2>3
<1> QED BY <1>1, <1>2

\* Every step of a core computes a plane, stores one, or leaves both counts.
LEMMA StepRefines ==
  IInv /\ IInv' /\ Latest /\ Latest' /\ [Next]_vars => [Abstract!Next]_(Abstract!jvars)
<1> SUFFICES ASSUME IInv, IInv', Latest, Latest', [Next]_vars
             PROVE  [Abstract!Next]_(Abstract!jvars)
  OBVIOUS
<1>1. /\ planesDone = [p \in PE |-> Computed(p)] /\ planesDone' = [p \in PE |-> Computed(p)']
      /\ planesInL3 = [p \in PE |-> step[p]] /\ planesInL3' = [p \in PE |-> step'[p]]
  <2>1. IInv' /\ Latest' =>
          (planesDone = [p \in PE |-> Computed(p)] /\ planesInL3 = [p \in PE |-> step[p]])'
    BY Mapping, PTL
  <2> QED BY <2>1, Mapping
<1>2. PE = Abstract!PE
  BY DEF PE, Abstract!PE
<1>3. CASE UNCHANGED vars
  BY <1>1, <1>3 DEF vars, ctl, Computed, Abstract!jvars
<1>4. ASSUME NEW p \in PE, Core(p) PROVE [Abstract!Next]_(Abstract!jvars)
  <2>1. \A q \in PE : q # p => Computed(q)' = Computed(q) /\ step'[q] = step[q]
    BY <1>4, Parts, OthersSame DEF Same, Computed
  <2>2. CtlOK(p) /\ step[p] \in Nat /\ TypeOK
    BY Parts
  <2>3. op \in [PE -> Op] /\ step \in [PE -> 0 .. T]
    BY <2>2 DEF TypeOK
  <2>4. CASE Update(p)
    <3>1. op[p] = "update" /\ step' = step /\ op'[p] = "drain"
      BY <2>2, <2>3, <2>4, UpdateStep
    <3>2. Computed(p) = step[p] /\ Computed(p)' = step[p] + 1 /\ step[p] < T
      BY <2>2, <3>1 DEF Computed, CtlOK
    <3>3. planesDone' = [planesDone EXCEPT ![p] = @ + 1] /\ planesInL3' = planesInL3
      BY <1>1, <2>1, <3>1, <3>2
    <3>4. ASSUME NEW q \in Abstract!Neighbours(p) PROVE planesDone[q] >= planesDone[p]
      <4>1. q \in PE /\ step[p] <= Computed(q) /\ Computed(q) \in Nat
        BY <3>1, NeighboursAreReady, Parts DEF Computed
      <4> QED BY <1>1, <2>2, <3>2, <4>1
    <3>5. planesDone[p] < T
      BY <1>1, <3>2
    <3> QED BY <1>2, <3>3, <3>4, <3>5 DEF Abstract!Next, Abstract!Compute
  <2>5. CASE Drain(p)
    <3>1. op[p] = "drain" /\ op'[p] # "drain" /\ step'[p] = step[p] + 1
      BY <2>2, <2>3, <2>5, DrainStep
    <3>2. Computed(p) = step[p] + 1 /\ Computed(p)' = Computed(p)
      BY <2>2, <3>1 DEF Computed
    <3>3. planesInL3' = [planesInL3 EXCEPT ![p] = @ + 1] /\ planesDone' = planesDone
      BY <1>1, <2>1, <3>1, <3>2
    <3>4. planesInL3[p] < planesDone[p]
      BY <1>1, <2>2, <3>2
    <3> QED BY <1>2, <3>3, <3>4 DEF Abstract!Next, Abstract!Store
  <2>6. CASE ~Update(p) /\ ~Drain(p)
    <3>1. Computed(p)' = Computed(p) /\ step'[p] = step[p]
      <4>1. CASE Fill(p)
        BY <2>2, <2>3, <4>1, FillStep DEF Computed
      <4>2. CASE Copy(p)
        BY <2>2, <2>3, <4>2 DEF Copy, EnterTrip, Goto, CtlOK, Computed
      <4>3. CASE Put(p) \/ Get(p)
        <5>1. step' = step
          BY <4>3 DEF Put, Get, WaitEmpty, Write, Signal, SkipPut, Release, WaitFull, SkipGet
        <5>2. op[p] # "drain" /\ op'[p] # "drain"
          BY <2>3, <4>3 DEF Put, Get, WaitEmpty, Write, Signal, SkipPut, Release, WaitFull,
                            SkipGet, AfterPut, AfterGet, Goto
        <5> QED BY <5>1, <5>2 DEF Computed
      <4> QED BY <1>4, <2>6, <4>1, <4>2, <4>3 DEF Core
    <3> QED BY <1>1, <2>1, <3>1 DEF Abstract!jvars
  <2> QED BY <2>4, <2>5, <2>6
<1> QED BY <1>3, <1>4 DEF Next, Return

-----------------------------------------------------------------------------
(* The theorems.                                                            *)

\* In every reachable state the invariant holds.
THEOREM Inductive == Spec => []IInv
<1> QED BY InitInv, StepInv, PTL DEF Spec

\* The emitted kernels keep their counters natural and their loops in range.
THEOREM TypeCorrect == Spec => []TypeOK
<1>1. IInv => TypeOK
  BY DEF IInv
<1> QED BY Inductive, <1>1, PTL

\* Every update of every core reads its rows and both ghost bands at the plane
\* it advances, for any herd and any trip count.
THEOREM UpdatesAreFresh == Spec => []FreshAtUpdate
<1>1. IInv => FreshAtUpdate
  BY FreshInv DEF FreshAtUpdate
<1> QED BY Inductive, <1>1, PTL

\* Writes that beat the consumer's staging carry the plane it stages.
THEOREM EarlyStripsAreHarmless == Spec => []EarlyStripHarmless
<1>1. IInv => EarlyStripHarmless
  <2> SUFFICES ASSUME IInv, NEW p \in PE, NEW d \in Dir, PutGuard(p, d),
                      op[PutPeer(p, d)] \in {"fill", "copy"}
               PROVE  /\ step[p] = 0
                      /\ putn[p][d] <= 1
                      /\ \A b \in Buf : ghost[PutPeer(p, d)][b][d] \in {0, Junk}
    BY DEF EarlyStripHarmless
  <2>1. step[p] = 0 /\ CountOK(p, d)
    BY Skew, Parts
  <2>2. PutPeer(p, d) \in PE
    BY LinkEnds
  <2>3. StripOK(PutPeer(p, d))
    BY <2>2, Parts
  <2> QED BY <2>1, <2>3 DEF CountOK, StripOK
<1> QED BY Inductive, <1>1, PTL

\* Neighbours are never more than one plane apart.
THEOREM SkewIsOne == Spec => []NeighbourSkew
<1>1. IInv => NeighbourSkew
  <2> SUFFICES ASSUME IInv, NEW p \in PE, NEW d \in Dir, PutGuard(p, d)
               PROVE  step[p] - step[PutPeer(p, d)] \in -1 .. 1
    BY DEF NeighbourSkew
  <2>1. step[p] <= step[PutPeer(p, d)] + 1
    BY Skew
  <2>2. PutPeer(p, d) \in PE
    BY LinkEnds
  <2>3. step[PutPeer(p, d)] <= step[p] + 1
    BY <2>2, LinkBack, Skew
  <2> QED BY <2>1, <2>2, <2>3, Parts
<1> QED BY Inductive, <1>1, PTL

\* A put never lands on a strip whose trip is not over: the data dependence
\* between neighbours alone orders them two trips apart.
NoOverwrite ==
  \A p \in PE : \A m \in 0 .. T :
    op[p] \in {"write", "signal"} =>
      LET n == putn[p][dir[p]] IN
      m < n /\ Landing(m) = Landing(n) => step[PutPeer(p, dir[p])] > m

THEOREM StripsAreNotOverwritten == Spec => []NoOverwrite
<1>1. IInv => NoOverwrite
  <2> SUFFICES ASSUME IInv, NEW p \in PE, NEW m \in 0 .. T, op[p] \in {"write", "signal"},
                      m < putn[p][dir[p]], Landing(m) = Landing(putn[p][dir[p]])
               PROVE  step[PutPeer(p, dir[p])] > m
    BY DEF NoOverwrite
  <2> DEFINE d == dir[p]
             n == step[p]
             q == PutPeer(p, dir[p])
  <2>1. d \in Dir /\ CtlOK(p) /\ n \in Nat
    BY Parts
  <2>2. PutGuard(p, d) /\ n < T
    BY <2>1 DEF CtlOK
  <2>3. putn[p][d] = n
    <3>1. CountOK(p, d) /\ ~PutOver(p, d)
      BY <2>1, Parts DEF PutOver
    <3> QED BY <2>1, <2>2, <3>1 DEF CountOK
  <2>4. n <= step[q] + 1 /\ step[q] \in Nat
    BY <2>1, <2>2, Skew, LinkEnds, Parts
  <2>5. n # m + 1
    BY <2>2, <2>3, SwapsEachTrip DEF Landing
  <2> QED BY <2>1, <2>3, <2>4, <2>5
<1> QED BY Inductive, <1>1, PTL

\* When every kernel has returned, `full` counted every strip and `empty` ends
\* one short of it.
THEOREM CountsAtTheEnd == Spec => []FinalCounts
<1>1. IInv => FinalCounts
  <2> SUFFICES ASSUME IInv, Finished, NEW p \in PE, NEW d \in Dir, PutGuard(p, d)
               PROVE  /\ full[PutPeer(p, d)][d] = T
                      /\ empty[p][d] = IF T > 0 THEN T - 1 ELSE 0
    BY DEF FinalCounts
  <2> DEFINE q == PutPeer(p, d)
  <2>1. q \in PE /\ GetGuard(q, d) /\ op[p] = "done" /\ op[q] = "done"
    BY LinkEnds DEF Finished
  <2>2. step[p] = T /\ step[q] = T
    BY <2>1, Parts DEF CtlOK
  <2>3. putn[p][d] = T /\ getn[q][d] = T
    <3>1. CountOK(p, d) /\ CountOK(q, d)
      BY <2>1, Parts
    <3>2. ~PutOver(p, d) /\ ~GetOver(q, d)
      BY <2>1 DEF PutOver, GetOver
    <3> QED BY <2>1, <2>2, <3>1, <3>2 DEF CountOK
  <2>4. LinkOK(p, d)
    BY Parts
  <2> QED BY <2>1, <2>3, <2>4 DEF LinkOK
<1> QED BY Inductive, <1>1, PTL

\* No herd of any size deadlocks, over any number of trips.
THEOREM NoDeadlock == Spec => []NoCircularWait
<1> QED BY Inductive, SomeCoreSteps, PTL

\* L3 receives each plane once, after the one before it.
THEOREM PlanesDrainInOrder == Spec => DrainedInOrder
<1>1. IInv /\ IInv' /\ [Next]_vars =>
        [\A p \in PE : \A n \in 1 .. T :
           l3'[p][n] # l3[p][n] => /\ l3[p][n] = Junk
                                   /\ l3[p][n - 1] = n - 1
                                   /\ l3'[p][n] = n]_vars
  <2> SUFFICES ASSUME IInv, IInv', Next, NEW p \in PE, NEW n \in 1 .. T, l3'[p][n] # l3[p][n]
               PROVE  l3[p][n] = Junk /\ l3[p][n - 1] = n - 1 /\ l3'[p][n] = n
    OBVIOUS
  <2>1. L3OK(p) /\ L3OK(p)' /\ step[p] \in Nat
    BY Parts DEF IInv
  <2>2. step[p] <= step'[p] /\ step'[p] <= step[p] + 1
    <3>1. CASE UNCHANGED vars
      BY <2>1, <3>1 DEF vars, ctl
    <3>2. ASSUME NEW q \in PE, Core(q) PROVE step[p] <= step'[p] /\ step'[p] <= step[p] + 1
      <4>1. CASE p # q
        BY <2>1, <3>2, <4>1, Parts, OthersSame DEF Same
      <4>2. CASE Copy(p) /\ p = q
        BY <2>1, <4>2, Parts, CopyStep DEF TypeOK, CtlOK
      <4>3. CASE Drain(p) /\ p = q
        BY <2>1, <4>3, Parts, DrainStep DEF TypeOK
      <4>4. CASE p = q /\ ~Copy(p) /\ ~Drain(p)
        BY <2>1, <3>2, <4>4, Parts, FillStep, WaitEmptyStep, WriteStep, SignalStep, SkipPutStep,
           ReleaseStep, WaitFullStep, SkipGetStep, UpdateStep DEF Core, Put, Get
      <4> QED BY <4>1, <4>2, <4>3, <4>4
    <3> QED BY <3>1, <3>2 DEF Next, Return
  <2>3. n \in 0 .. T /\ n - 1 \in 0 .. T
    OBVIOUS
  <2>4. l3[p][n] = (IF n <= step[p] THEN n ELSE Junk)
        /\ l3'[p][n] = (IF n <= step'[p] THEN n ELSE Junk)
        /\ l3[p][n - 1] = (IF n - 1 <= step[p] THEN n - 1 ELSE Junk)
    BY <2>1, <2>3 DEF L3OK
  <2>5. step'[p] \in Nat
    BY DEF IInv, TypeOK
  <2>6. ~(n <= step[p]) /\ n <= step'[p]
    BY <2>1, <2>2, <2>4, <2>5
  <2>7. n - 1 <= step[p]
    BY <2>1, <2>2, <2>5, <2>6
  <2> QED BY <2>4, <2>6, <2>7
<1> QED BY Inductive, StepInv, <1>1, PTL DEF Spec, DrainedInOrder

\* No buffer of a strip is ahead of the planes its core has computed, and one
\* of the two holds the last.
THEOREM LatestIsHeld == Spec => []Latest
<1> QED BY Inductive, InitLatest, StepLatest, PTL DEF Spec

\* The safety part of ImplementsJacobi: every step of the cores computes a plane
\* whose neighbours have the one before, stores the next plane, or is invisible.
THEOREM RefinesJacobi == Spec => Abstract!Init /\ [][Abstract!Next]_(Abstract!jvars)
<1>1. Init => Abstract!Init
  <2> SUFFICES ASSUME Init PROVE Abstract!Init
    OBVIOUS
  <2>1. IInv /\ Latest /\ \A p \in PE : Computed(p) = 0 /\ step[p] = 0
    BY InitInv, InitLatest DEF Init, Computed
  <2> QED BY <2>1, Mapping DEF Abstract!Init, Abstract!PE, PE
<1> QED BY <1>1, Inductive, LatestIsHeld, StepRefines, PTL DEF Spec

=============================================================================
