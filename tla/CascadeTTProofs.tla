--------------------------- MODULE CascadeTTProofs ---------------------------
(***************************************************************************)
(* Proofs about CascadeTT, for every number of cores, of trips, and both    *)
(* directions of the chain.                                                 *)
(***************************************************************************)
EXTENDS CascadeTTInv, WellFoundedInduction, TLAPS

USE PESAssumption, TAssumption

-----------------------------------------------------------------------------
(* Partial sums.                                                            *)

LEMMA SumTypes ==
  /\ Zero \in Sum /\ Unwritten \in Sum
  /\ \A p \in PE, n \in Trip \union {Junk} : Share(p, n) \in Sum
  /\ \A one, two \in Sum : Plus(one, two) \in Sum
<1>1. Zero \in Sum /\ Unwritten \in Sum
  BY DEF Zero, Unwritten, Sum
<1>2. ASSUME NEW p \in PE, NEW n \in Trip \union {Junk} PROVE Share(p, n) \in Sum
  BY DEF Share, Sum
<1>3. ASSUME NEW one \in Sum, NEW two \in Sum PROVE Plus(one, two) \in Sum
  BY DEF Plus, Sum
<1> QED BY <1>1, <1>2, <1>3

\* A share added to a zeroed accumulator is the share.
LEMMA PlusZero ==
  ASSUME NEW p \in PE, NEW n \in Trip
  PROVE  Plus(Zero, Share(p, n)) = Share(p, n)
BY DEF Plus, Zero, Share, Absent

\* The share of a core added to the sum of others is the sum of them all.
LEMMA PlusShare ==
  ASSUME NEW S, NEW p \in PE, p \notin S, NEW n \in Trip
  PROVE  Plus(Share(p, n), SumOver(S, n)) = SumOver(S \union {p}, n)
BY DEF Plus, Share, SumOver, Absent, Trip

LEMMA ShareIsSum ==
  ASSUME NEW p \in PE, NEW n \in Trip
  PROVE  Share(p, n) = SumOver({} \union {p}, n)
BY DEF Share, SumOver

\* A whole sum is not what DRAM holds before.
LEMMA SumIsWritten == ASSUME NEW n \in Trip PROVE SumOver(PE, n) # Unwritten
<1>1. SumOver(PE, n)[0] = n /\ Unwritten[0] = Junk
  BY DEF SumOver, Unwritten, PE
<1> QED BY <1>1 DEF Trip, Junk

-----------------------------------------------------------------------------
(* The chain, in either direction.                                          *)

\* The two ends of a link name each other, and Receiver is the core after.
LEMMA LinkEnds ==
  ASSUME chain \in Direction, NEW p \in PE, ~IsTail(p)
  PROVE  /\ Succ(p) \in PE /\ Succ(p) # p /\ ~IsHead(Succ(p)) /\ Pred(Succ(p)) = p
         /\ PutIndex(chain, p) \in Link
         /\ GetIndex(chain, Succ(p)) = PutIndex(chain, p)
         /\ Receiver(chain, p) = Succ(p)
         /\ Before(chain, Succ(p)) = Before(chain, p) \union {p}
<1> USE DEF IsTail, Tail, Succ, Direction, PE
<1>1. /\ Succ(p) \in PE /\ Succ(p) # p /\ ~IsHead(Succ(p)) /\ Pred(Succ(p)) = p
      /\ PutIndex(chain, p) \in Link
      /\ GetIndex(chain, Succ(p)) = PutIndex(chain, p)
  BY DEF IsHead, Head, Pred, PutIndex, GetIndex, Link
<1>2. \A q \in PE : GetIndex(chain, q) = PutIndex(chain, p) => q = Succ(p)
  BY DEF GetIndex, PutIndex
<1>3. Receiver(chain, p) = Succ(p)
  <2>1. Succ(p) \in PE \ {Head(chain)}
    BY <1>1 DEF IsHead
  <2> HIDE DEF Succ, PE
  <2> QED BY <1>1, <1>2, <2>1 DEF Receiver
<1>4. Before(chain, Succ(p)) = Before(chain, p) \union {p}
  BY DEF Before
<1> QED BY <1>1, <1>3, <1>4

\* The same seen from the consumer.
LEMMA LinkBack ==
  ASSUME chain \in Direction, NEW p \in PE, ~IsHead(p)
  PROVE  /\ Pred(p) \in PE /\ Pred(p) # p /\ ~IsTail(Pred(p)) /\ Succ(Pred(p)) = p
         /\ GetIndex(chain, p) = PutIndex(chain, Pred(p))
BY DEF IsHead, Head, IsTail, Tail, Pred, Succ, PutIndex, GetIndex, Direction, PE

\* Different producers have different links and consumers.
LEMMA LinksDiffer ==
  ASSUME chain \in Direction, NEW p \in PE, NEW q \in PE, p # q
  PROVE  PutIndex(chain, p) # PutIndex(chain, q) /\ Succ(p) # Succ(q)
BY DEF PutIndex, Succ, PE, Direction

\* No core is before itself; none is before the head; all are, up to the tail.
LEMMA BeforeEnds ==
  ASSUME chain \in Direction
  PROVE  /\ Head(chain) \in PE /\ Tail(chain) \in PE /\ Head(chain) # Tail(chain)
         /\ \A p \in PE : p \notin Before(chain, p)
         /\ \A p \in PE : IsHead(p) => Before(chain, p) = {}
         /\ \A p \in PE : IsTail(p) => Before(chain, p) \union {p} = PE
BY DEF Before, IsHead, Head, IsTail, Tail, PE, Direction

\* R-TT-B finds one landing place per link: one sum in flight, and put n waits
\* for n of them given back.
LEMMA CreditIsOne == Credit = 1 /\ \A n \in Nat : EmptyNeeded(n) = n
<1>1. CASE T > 1
  <2>1. 1 \in AliasGaps /\ \A g \in AliasGaps : 1 <= g
    BY <1>1 DEF AliasGaps
  <2>2. \A g \in AliasGaps : (\A h \in AliasGaps : g <= h) => g = 1
    BY <1>1, <2>1 DEF AliasGaps
  <2>3. Credit = CHOOSE g \in AliasGaps : \A h \in AliasGaps : g <= h
    <3>1. AliasGaps # {}
      BY <2>1
    <3> QED BY <3>1, Zenon DEF Credit
  <2>4. Credit = 1
    BY <2>1, <2>2, <2>3
  <2> QED BY <2>4 DEF EmptyNeeded
<1>2. CASE ~(T > 1)
  <2>1. Credit = 1
    BY <1>2 DEF Credit, AliasGaps
  <2> QED BY <2>1 DEF EmptyNeeded
<1> QED BY <1>1, <1>2

-----------------------------------------------------------------------------
(* What each step does: the types it keeps, and the state it leaves.         *)

LEMMA StageStep ==
  ASSUME TypeOK, NEW p \in PE, Stage(p)
  PROVE  /\ TypeOK'
         /\ op[p] = "stage" /\ step' = [step EXCEPT ![p] = 0]
         /\ op' = [op EXCEPT ![p] = IF 0 < T THEN "load" ELSE "done"]
         /\ UNCHANGED <<chain, tile, acc, recv, full, empty, putn, getn, drainn, l3>>
<1>1. /\ op[p] = "stage" /\ step' = [step EXCEPT ![p] = 0]
      /\ op' = [op EXCEPT ![p] = IF 0 < T THEN "load" ELSE "done"]
      /\ UNCHANGED <<chain, tile, acc, recv, full, empty, putn, getn, drainn, l3>>
  BY DEF Stage, EnterTrip, Goto, data, sems, out
<1> QED BY <1>1 DEF TypeOK, Op

LEMMA LoadStep ==
  ASSUME TypeOK, NEW p \in PE, CtlOK(p), Load(p)
  PROVE  /\ TypeOK'
         /\ op[p] = "load" /\ op' = [op EXCEPT ![p] = "compute"]
         /\ tile' = [tile EXCEPT ![p] = step[p]]
         /\ UNCHANGED <<chain, step, acc, recv, full, empty, putn, getn, drainn, l3>>
<1>1. /\ op[p] = "load" /\ op' = [op EXCEPT ![p] = "compute"]
      /\ tile' = [tile EXCEPT ![p] = step[p]]
      /\ UNCHANGED <<chain, step, acc, recv, full, empty, putn, getn, drainn, l3>>
  BY DEF Load, Goto, sems, out
<1>2. step[p] \in Trip
  BY <1>1 DEF TypeOK, CtlOK, Trip
<1> QED BY <1>1, <1>2 DEF TypeOK, Op

LEMMA ComputeStep ==
  ASSUME TypeOK, NEW p \in PE, Compute(p)
  PROVE  /\ TypeOK'
         /\ op[p] = "compute"
         /\ op' = [op EXCEPT ![p] = IF IsHead(p) THEN "wait_empty" ELSE "release"]
         /\ acc' = [acc EXCEPT ![p] = Plus(Zero, Share(p, tile[p]))]
         /\ UNCHANGED <<chain, step, tile, recv, full, empty, putn, getn, drainn, l3>>
<1>1. /\ op[p] = "compute"
      /\ op' = [op EXCEPT ![p] = IF IsHead(p) THEN "wait_empty" ELSE "release"]
      /\ acc' = [acc EXCEPT ![p] = Plus(Zero, Share(p, tile[p]))]
      /\ UNCHANGED <<chain, step, tile, recv, full, empty, putn, getn, drainn, l3>>
  BY DEF Compute, AfterCompute, Goto, sems, out
<1>2. Plus(Zero, Share(p, tile[p])) \in Sum
  BY SumTypes DEF TypeOK
<1> QED BY <1>1, <1>2 DEF TypeOK, Op

LEMMA ReleaseStep ==
  ASSUME TypeOK, NEW p \in PE, CtlOK(p), Release(p)
  PROVE  /\ TypeOK'
         /\ op[p] = "release" /\ op' = [op EXCEPT ![p] = "wait_full"]
         /\ \A k \in Link : empty'[k] = IF getn[p] > 0 /\ k = GetIndex(chain, p)
                                        THEN empty[k] + 1 ELSE empty[k]
         /\ UNCHANGED <<chain, step, tile, acc, recv, full, putn, getn, drainn, l3>>
<1>1. /\ op[p] = "release" /\ op' = [op EXCEPT ![p] = "wait_full"]
      /\ empty' = IF getn[p] > 0
                  THEN [empty EXCEPT ![GetIndex(chain, p)] = empty[GetIndex(chain, p)] + 1]
                  ELSE empty
      /\ UNCHANGED <<chain, step, tile, acc, recv, full, putn, getn, drainn, l3>>
  BY DEF Release, Goto, data, out
<1>2. GetIndex(chain, p) \in Link
  BY <1>1, LinkBack, LinkEnds DEF CtlOK, TypeOK
<1>3. empty \in [Link -> Nat] /\ getn[p] \in Nat
  BY DEF TypeOK
<1>4. /\ empty' \in [Link -> Nat]
      /\ \A k \in Link : empty'[k] = IF getn[p] > 0 /\ k = GetIndex(chain, p)
                                     THEN empty[k] + 1 ELSE empty[k]
  BY <1>1, <1>2, <1>3
<1>5. TypeOK'
  BY <1>1, <1>4 DEF TypeOK, Op
<1> QED BY <1>1, <1>4, <1>5

LEMMA WaitFullStep ==
  ASSUME TypeOK, NEW p \in PE, WaitFull(p)
  PROVE  /\ TypeOK'
         /\ op[p] = "wait_full" /\ op' = [op EXCEPT ![p] = "accumulate"]
         /\ full[GetIndex(chain, p)] >= getn[p] + 1 /\ getn' = [getn EXCEPT ![p] = getn[p] + 1]
         /\ UNCHANGED <<chain, step, tile, acc, recv, full, empty, putn, drainn, l3>>
<1>1. /\ op[p] = "wait_full" /\ op' = [op EXCEPT ![p] = "accumulate"]
      /\ full[GetIndex(chain, p)] >= getn[p] + 1 /\ getn' = [getn EXCEPT ![p] = getn[p] + 1]
      /\ UNCHANGED <<chain, step, tile, acc, recv, full, empty, putn, drainn, l3>>
  BY DEF WaitFull, Goto, data, out
<1> QED BY <1>1 DEF TypeOK, Op

LEMMA AccumulateStep ==
  ASSUME TypeOK, NEW p \in PE, Accumulate(p)
  PROVE  /\ TypeOK'
         /\ op[p] = "accumulate"
         /\ op' = [op EXCEPT ![p] = IF IsTail(p) THEN "drain" ELSE "wait_empty"]
         /\ acc' = [acc EXCEPT ![p] = Plus(acc[p], recv[p])]
         /\ UNCHANGED <<chain, step, tile, recv, full, empty, putn, getn, drainn, l3>>
<1>1. /\ op[p] = "accumulate"
      /\ op' = [op EXCEPT ![p] = IF IsTail(p) THEN "drain" ELSE "wait_empty"]
      /\ acc' = [acc EXCEPT ![p] = Plus(acc[p], recv[p])]
      /\ UNCHANGED <<chain, step, tile, recv, full, empty, putn, getn, drainn, l3>>
  BY DEF Accumulate, Goto, sems, out
<1>2. Plus(acc[p], recv[p]) \in Sum
  BY SumTypes DEF TypeOK
<1> QED BY <1>1, <1>2 DEF TypeOK, Op

LEMMA WaitEmptyStep ==
  ASSUME TypeOK, NEW p \in PE, WaitEmpty(p)
  PROVE  /\ TypeOK'
         /\ op[p] = "wait_empty" /\ op' = [op EXCEPT ![p] = "write"]
         /\ empty[PutIndex(chain, p)] >= putn[p]
         /\ UNCHANGED <<chain, step, tile, acc, recv, full, empty, putn, getn, drainn, l3>>
<1>1. /\ op[p] = "wait_empty" /\ op' = [op EXCEPT ![p] = "write"]
      /\ empty[PutIndex(chain, p)] >= EmptyNeeded(putn[p])
      /\ UNCHANGED <<chain, step, tile, acc, recv, full, empty, putn, getn, drainn, l3>>
  BY DEF WaitEmpty, Goto, data, sems, out
<1>2. putn[p] \in Nat
  BY DEF TypeOK
<1> QED BY <1>1, <1>2, CreditIsOne DEF TypeOK, Op

LEMMA WriteStep ==
  ASSUME TypeOK, NEW p \in PE, CtlOK(p), Write(p)
  PROVE  /\ TypeOK'
         /\ op[p] = "write" /\ op' = [op EXCEPT ![p] = "signal"]
         /\ recv' = [recv EXCEPT ![Succ(p)] = acc[p]]
         /\ UNCHANGED <<chain, step, tile, acc, full, empty, putn, getn, drainn, l3>>
<1>1. /\ op[p] = "write" /\ op' = [op EXCEPT ![p] = "signal"]
      /\ recv' = [recv EXCEPT ![Receiver(chain, p)] = acc[p]]
      /\ UNCHANGED <<chain, step, tile, acc, full, empty, putn, getn, drainn, l3>>
  BY DEF Write, Goto, sems, out
<1>2. Receiver(chain, p) = Succ(p) /\ Succ(p) \in PE /\ acc[p] \in Sum
  BY <1>1, LinkEnds DEF CtlOK, TypeOK
<1> QED BY <1>1, <1>2 DEF TypeOK, Op

LEMMA SignalStep ==
  ASSUME TypeOK, NEW p \in PE, CtlOK(p), Signal(p)
  PROVE  /\ TypeOK'
         /\ op[p] = "signal" /\ step' = [step EXCEPT ![p] = step[p] + 1]
         /\ op' = [op EXCEPT ![p] = IF step[p] + 1 < T THEN "load" ELSE "done"]
         /\ full' = [full EXCEPT ![PutIndex(chain, p)] = full[PutIndex(chain, p)] + 1]
         /\ putn' = [putn EXCEPT ![p] = putn[p] + 1]
         /\ UNCHANGED <<chain, tile, acc, recv, empty, getn, drainn, l3>>
<1>1. /\ op[p] = "signal" /\ step' = [step EXCEPT ![p] = step[p] + 1]
      /\ op' = [op EXCEPT ![p] = IF step[p] + 1 < T THEN "load" ELSE "done"]
      /\ full' = [full EXCEPT ![PutIndex(chain, p)] = full[PutIndex(chain, p)] + 1]
      /\ putn' = [putn EXCEPT ![p] = putn[p] + 1]
      /\ UNCHANGED <<chain, tile, acc, recv, empty, getn, drainn, l3>>
  BY DEF Signal, EnterTrip, Goto, data, out
<1>2. /\ PutIndex(chain, p) \in Link /\ full \in [Link -> Nat] /\ putn \in [PE -> Nat]
      /\ step[p] + 1 \in 0 .. T
  BY <1>1, LinkEnds DEF CtlOK, TypeOK
<1>3. full[PutIndex(chain, p)] + 1 \in Nat /\ putn[p] + 1 \in Nat
  BY <1>2
<1>4. full' \in [Link -> Nat] /\ putn' \in [PE -> Nat]
  BY <1>1, <1>2, <1>3
<1> QED BY <1>1, <1>2, <1>4 DEF TypeOK, Op

LEMMA DrainStep ==
  ASSUME TypeOK, NEW p \in PE, CtlOK(p), Drain(p)
  PROVE  /\ TypeOK'
         /\ op[p] = "drain" /\ step' = [step EXCEPT ![p] = step[p] + 1]
         /\ op' = [op EXCEPT ![p] = IF step[p] + 1 < T THEN "load" ELSE "done"]
         /\ l3' = [l3 EXCEPT ![drainn] = acc[p]] /\ drainn' = drainn + 1
         /\ UNCHANGED <<chain, tile, acc, recv, full, empty, putn, getn>>
<1>1. /\ op[p] = "drain" /\ step' = [step EXCEPT ![p] = step[p] + 1]
      /\ op' = [op EXCEPT ![p] = IF step[p] + 1 < T THEN "load" ELSE "done"]
      /\ l3' = [l3 EXCEPT ![drainn] = acc[p]] /\ drainn' = drainn + 1
      /\ UNCHANGED <<chain, tile, acc, recv, full, empty, putn, getn>>
  BY DEF Drain, EnterTrip, Goto, data, sems
<1>2. step[p] + 1 \in 0 .. T /\ acc[p] \in Sum /\ l3 \in [Trip -> Sum]
  BY <1>1 DEF TypeOK, CtlOK
<1>3. l3' \in [Trip -> Sum]
  BY <1>1, <1>2
<1> QED BY <1>1, <1>2, <1>3 DEF TypeOK, Op

-----------------------------------------------------------------------------
(* The invariant holds initially.                                           *)

LEMMA InitInv == Init => IInv
<1> SUFFICES ASSUME Init PROVE IInv
  OBVIOUS
<1> USE DEF Init
<1>1. TypeOK
  BY SumTypes DEF TypeOK, Op
<1>2. \A p \in PE : CtlOK(p) /\ CountOK(p)
  BY DEF CtlOK, CountOK, Taken, AfterGet, AfterSum
<1>3. \A p \in PE : AheadOK(p)
  BY DEF AheadOK, Before, Taken, AfterGet, AfterSum
<1>4. \A p \in PE : LinkOK(p) /\ RecvOK(p)
  BY LinkEnds DEF LinkOK, RecvOK, Written
<1>5. \A p \in PE : AccOK(p)
  BY DEF AccOK, AfterSum
<1>6. OutOK
  BY BeforeEnds DEF OutOK, Trip
<1> QED BY <1>1, <1>2, <1>3, <1>4, <1>5, <1>6 DEF IInv

-----------------------------------------------------------------------------
(* A step of core p keeps the invariant if it keeps p's part of it, and that *)
(* of the links p is at one end of.                                          *)

\* What every core keeps while another one steps.
Same(q) ==
  /\ op'[q] = op[q] /\ step'[q] = step[q] /\ putn'[q] = putn[q] /\ getn'[q] = getn[q]
  /\ tile'[q] = tile[q] /\ acc'[q] = acc[q]

\* The semaphores and the landing place of the link from q.
SameLink(q) ==
  /\ full'[PutIndex(chain, q)] = full[PutIndex(chain, q)]
  /\ empty'[PutIndex(chain, q)] = empty[PutIndex(chain, q)]
  /\ recv'[Succ(q)] = recv[Succ(q)]

\* No step turns the chain.
LEMMA ChainStays ==
  ASSUME chain' = chain
  PROVE  /\ Tail(chain)' = Tail(chain)
         /\ \A p \in PE : /\ IsHead(p)' = IsHead(p) /\ IsTail(p)' = IsTail(p)
                          /\ Succ(p)' = Succ(p) /\ Pred(p)' = Pred(p)
                          /\ Before(chain, p)' = Before(chain, p)
                          /\ PutIndex(chain, p)' = PutIndex(chain, p)
BY DEF IsHead, IsTail, Succ, Pred

\* A step of p changes no variable of another core, and no link that p is not
\* at one end of.
LEMMA Frame ==
  ASSUME TypeOK, NEW p \in PE, CtlOK(p), Core(p)
  PROVE  /\ TypeOK' /\ chain' = chain
         /\ \A q \in PE : q # p => Same(q)
         /\ \A q \in PE : ~IsTail(q) /\ q # p /\ Succ(q) # p => SameLink(q)
<1> USE DEF Same, SameLink
<1>t. /\ op \in [PE -> Op] /\ step \in [PE -> 0 .. T] /\ putn \in [PE -> Nat]
      /\ getn \in [PE -> Nat] /\ full \in [Link -> Nat] /\ empty \in [Link -> Nat]
      /\ acc \in [PE -> Sum] /\ recv \in [PE -> Sum] /\ chain \in Direction
      /\ tile \in [PE -> Trip \union {Junk}]
  BY DEF TypeOK
<1>1. CASE Stage(p)
  BY <1>1, <1>t, StageStep
<1>2. CASE Load(p)
  BY <1>2, <1>t, LoadStep
<1>3. CASE Compute(p)
  BY <1>3, <1>t, ComputeStep
<1>4. CASE Release(p)
  <2>1. /\ TypeOK' /\ op[p] = "release" /\ op' = [op EXCEPT ![p] = "wait_full"]
        /\ \A k \in Link : empty'[k] = IF getn[p] > 0 /\ k = GetIndex(chain, p)
                                       THEN empty[k] + 1 ELSE empty[k]
        /\ UNCHANGED <<chain, step, tile, acc, recv, full, putn, getn, drainn, l3>>
    BY <1>4, ReleaseStep
  <2>2. \A q \in PE : q # p => Same(q)
    BY <1>t, <2>1
  <2>3. ASSUME NEW q \in PE, ~IsTail(q), Succ(q) # p PROVE SameLink(q)
    <3>1. ~IsHead(p)
      BY <2>1 DEF CtlOK
    <3>2. Pred(p) \in PE /\ GetIndex(chain, p) = PutIndex(chain, Pred(p)) /\ q # Pred(p)
      BY <1>t, <2>3, <3>1, LinkBack
    <3>3. PutIndex(chain, q) \in Link /\ PutIndex(chain, q) # GetIndex(chain, p)
      BY <1>t, <2>3, <3>2, LinkEnds, LinksDiffer
    <3> QED BY <2>1, <3>3
  <2> QED BY <2>1, <2>2, <2>3
<1>5. CASE WaitFull(p)
  BY <1>5, <1>t, WaitFullStep
<1>6. CASE Accumulate(p)
  BY <1>6, <1>t, AccumulateStep
<1>7. CASE WaitEmpty(p)
  BY <1>7, <1>t, WaitEmptyStep
<1>8. CASE Write(p)
  <2>1. \A q \in PE : q # p => Succ(q) # Succ(p)
    BY <1>t, LinksDiffer
  <2> QED BY <1>8, <1>t, <2>1, WriteStep, LinkEnds
<1>9. CASE Signal(p)
  <2>1. \A q \in PE : q # p => PutIndex(chain, q) # PutIndex(chain, p)
    BY <1>t, LinksDiffer
  <2>2. \A q \in PE : ~IsTail(q) => PutIndex(chain, q) \in Link
    BY <1>t, LinkEnds
  <2> QED BY <1>9, <1>t, <2>1, <2>2, SignalStep
<1>10. CASE Drain(p)
  BY <1>10, <1>t, DrainStep
<1> QED BY <1>1, <1>2, <1>3, <1>4, <1>5, <1>6, <1>7, <1>8, <1>9, <1>10 DEF Core, Get, Put

LEMMA StepKeeps ==
  ASSUME IInv, NEW p \in PE, Core(p),
         CtlOK(p)', CountOK(p)', AheadOK(p)', AccOK(p)', OutOK',
         step[p] <= step'[p], LinkOK(p)', RecvOK(p)',
         \A q \in PE : ~IsTail(q) /\ Succ(q) = p => LinkOK(q)' /\ RecvOK(q)'
  PROVE  IInv'
<1>1. /\ TypeOK /\ chain \in Direction
      /\ \A q \in PE : /\ CtlOK(q) /\ CountOK(q) /\ AheadOK(q)
                       /\ LinkOK(q) /\ RecvOK(q) /\ AccOK(q)
      /\ \A q \in PE : step[q] \in Nat /\ Taken(q) \in Nat
  BY DEF IInv, TypeOK, Taken
<1>2. /\ TypeOK' /\ chain' = chain
      /\ \A q \in PE : q # p => Same(q)
      /\ \A q \in PE : ~IsTail(q) /\ q # p /\ Succ(q) # p => SameLink(q)
  BY <1>1, Frame
<1>3. \A q \in PE : step[q] <= step'[q] /\ step'[q] \in Nat
  <2>1. \A q \in PE : step'[q] \in Nat
    BY <1>2 DEF TypeOK
  <2> QED BY <1>1, <1>2, <2>1 DEF Same
<1>4. ASSUME NEW q \in PE, q # p
      PROVE  CtlOK(q)' /\ CountOK(q)' /\ AheadOK(q)' /\ AccOK(q)'
  <2>1. /\ Same(q) /\ CtlOK(q) /\ CountOK(q) /\ AheadOK(q) /\ AccOK(q)
        /\ IsHead(q)' = IsHead(q) /\ IsTail(q)' = IsTail(q)
        /\ Before(chain, q)' = Before(chain, q)
    BY <1>1, <1>2, <1>4, ChainStays
  <2>2. AfterSum(q)' = AfterSum(q) /\ AfterGet(q)' = AfterGet(q) /\ Taken(q)' = Taken(q)
    BY <2>1 DEF Same, Taken, AfterGet, AfterSum
  <2>3. CtlOK(q)' /\ CountOK(q)' /\ AccOK(q)'
    BY <2>1, <2>2 DEF Same, CtlOK, CountOK, AccOK
  <2>4. AheadOK(q)'
    <3>1. Before(chain, q) \subseteq PE
      BY DEF Before
    <3> QED BY <1>1, <1>3, <2>1, <2>2, <3>1 DEF AheadOK
  <2> QED BY <2>3, <2>4
<1>5. ASSUME NEW q \in PE, q # p PROVE LinkOK(q)' /\ RecvOK(q)'
  <2>1. /\ Same(q) /\ LinkOK(q) /\ RecvOK(q) /\ IsTail(q)' = IsTail(q) /\ Succ(q)' = Succ(q)
        /\ PutIndex(chain, q)' = PutIndex(chain, q)
        /\ (Succ(q) \in PE => Before(chain, Succ(q))' = Before(chain, Succ(q)))
    BY <1>1, <1>2, <1>5, ChainStays
  <2>2. CASE IsTail(q)
    BY <2>1, <2>2 DEF LinkOK, RecvOK
  <2>3. CASE ~IsTail(q) /\ Succ(q) = p
    BY <2>3
  <2>4. CASE ~IsTail(q) /\ Succ(q) # p
    <3>1. SameLink(q) /\ Succ(q) \in PE /\ Same(Succ(q))
      BY <1>1, <1>2, <1>5, <2>4, LinkEnds
    <3> QED BY <2>1, <3>1 DEF LinkOK, RecvOK, Written, Same, SameLink
  <2> QED BY <2>2, <2>3, <2>4
<1>6. \A q \in PE : /\ CtlOK(q)' /\ CountOK(q)' /\ AheadOK(q)'
                    /\ LinkOK(q)' /\ RecvOK(q)' /\ AccOK(q)'
  BY <1>4, <1>5
<1> QED BY <1>2, <1>6 DEF IInv

\* The parts of the invariant, and the types of a core's state.
LEMMA Parts ==
  ASSUME IInv
  PROVE  /\ TypeOK /\ OutOK /\ chain \in Direction /\ drainn \in Nat
         /\ \A p \in PE : /\ CtlOK(p) /\ CountOK(p) /\ AheadOK(p)
                          /\ LinkOK(p) /\ RecvOK(p) /\ AccOK(p)
         /\ \A p \in PE : /\ op[p] \in Op /\ step[p] \in Nat /\ step[p] \in 0 .. T
                          /\ putn[p] \in Nat /\ getn[p] \in Nat
         /\ \A k \in Link : full[k] \in Nat /\ empty[k] \in Nat
<1>1. TypeOK
  BY DEF IInv
<1>2. /\ chain \in Direction /\ drainn \in Nat
      /\ \A p \in PE : /\ op[p] \in Op /\ step[p] \in Nat /\ step[p] \in 0 .. T
                       /\ putn[p] \in Nat /\ getn[p] \in Nat
      /\ \A k \in Link : full[k] \in Nat /\ empty[k] \in Nat
  BY <1>1 DEF TypeOK
<1> QED BY <1>1, <1>2 DEF IInv

\* The link from p, and what its far end keeps while p steps.
LEMMA Ahead ==
  ASSUME IInv, NEW p \in PE, Core(p), ~IsTail(p)
  PROVE  LET q == Succ(p) IN
         /\ q \in PE /\ q # p /\ Same(q) /\ PutIndex(chain, p) \in Link
         /\ chain' = chain /\ ~IsTail(p)' /\ Succ(p)' = q
         /\ PutIndex(chain, p)' = PutIndex(chain, p)
         /\ Before(chain, q)' = Before(chain, q)
<1>1. chain' = chain /\ Succ(p) \in PE /\ Succ(p) # p /\ PutIndex(chain, p) \in Link /\ Same(Succ(p))
  BY Parts, LinkEnds, Frame
<1> QED BY <1>1, ChainStays

\* The link to p, and what its near end keeps while p steps.
LEMMA Behind ==
  ASSUME IInv, NEW p \in PE, Core(p), NEW q \in PE, ~IsTail(q), Succ(q) = p
  PROVE  /\ q # p /\ Same(q) /\ ~IsHead(p)
         /\ PutIndex(chain, q) \in Link /\ GetIndex(chain, p) = PutIndex(chain, q)
         /\ LinkOK(q) /\ RecvOK(q) /\ putn[q] \in Nat
         /\ chain' = chain /\ ~IsTail(q)' /\ Succ(q)' = p
         /\ PutIndex(chain, q)' = PutIndex(chain, q)
         /\ Before(chain, p)' = Before(chain, p)
<1>1. /\ chain' = chain /\ Same(q) /\ q # p /\ ~IsHead(p) /\ PutIndex(chain, q) \in Link
      /\ GetIndex(chain, p) = PutIndex(chain, q)
  BY Parts, LinkEnds, Frame
<1> QED BY <1>1, Parts, ChainStays

\* A step that moves no sum, counter or semaphore leaves both links alone.
LEMMA QuietLinks ==
  ASSUME IInv, NEW p \in PE, Core(p), UNCHANGED <<full, empty, recv>>,
         putn'[p] = putn[p], getn'[p] = getn[p],
         op[p] \notin {"signal", "wait_full"}, op'[p] \notin {"write", "signal", "wait_full"}
  PROVE  /\ LinkOK(p)' /\ RecvOK(p)'
         /\ \A q \in PE : ~IsTail(q) /\ Succ(q) = p => LinkOK(q)' /\ RecvOK(q)'
<1>1. LinkOK(p)' /\ RecvOK(p)'
  <2>1. LinkOK(p) /\ RecvOK(p)
    BY Parts
  <2>2. CASE IsTail(p)
    <3>1. IsTail(p)'
      BY <2>2, Parts, Frame, ChainStays
    <3> QED BY <3>1 DEF LinkOK, RecvOK
  <2>3. CASE ~IsTail(p)
    BY <2>1, <2>3, Ahead DEF LinkOK, RecvOK, Written, Same
  <2> QED BY <2>2, <2>3
<1>2. ASSUME NEW q \in PE, ~IsTail(q), Succ(q) = p PROVE LinkOK(q)' /\ RecvOK(q)'
  BY <1>2, Behind DEF LinkOK, RecvOK, Written, Same
<1> QED BY <1>1, <1>2

\* A core other than the tail leaves DRAM alone, and so does a step of the tail
\* that does not end a trip.
LEMMA QuietOut ==
  ASSUME IInv, NEW p \in PE, Core(p), UNCHANGED <<drainn, l3>>,
         IsTail(p) => step'[p] = step[p]
  PROVE  OutOK'
<1>1. OutOK /\ chain' = chain /\ Tail(chain)' = Tail(chain) /\ Tail(chain) \in PE
  BY Parts, Frame, ChainStays, BeforeEnds
<1>2. step'[Tail(chain)] = step[Tail(chain)]
  BY <1>1, Parts, Frame DEF IsTail, Same
<1> QED BY <1>1, <1>2 DEF OutOK

\* What the place of p in the chain says stays so.
LEMMA Fixed ==
  ASSUME IInv, NEW p \in PE, Core(p)
  PROVE  /\ chain' = chain /\ TypeOK' /\ Tail(chain)' = Tail(chain)
         /\ IsHead(p)' = IsHead(p) /\ IsTail(p)' = IsTail(p)
         /\ Before(chain, p)' = Before(chain, p)
         /\ \A q \in Before(chain, p) : q \in PE /\ Same(q)
<1>1. chain' = chain /\ TypeOK' /\ \A q \in PE : q # p => Same(q)
  BY Parts, Frame
<1>2. \A q \in Before(chain, p) : q \in PE /\ q # p
  BY Parts, BeforeEnds DEF Before
<1> QED BY <1>1, <1>2, ChainStays

\* A step that keeps the trips taken by p keeps AheadOK of p.
LEMMA QuietAhead ==
  ASSUME IInv, NEW p \in PE, Core(p), Taken(p)' = Taken(p)
  PROVE  AheadOK(p)'
<1>1. AheadOK(p) /\ IsHead(p)' = IsHead(p) /\ Before(chain, p)' = Before(chain, p)
      /\ \A q \in Before(chain, p) : step'[q] = step[q]
  BY Parts, Fixed DEF Same
<1> QED BY <1>1 DEF AheadOK

LEMMA StageInv == ASSUME IInv, NEW p \in PE, Stage(p) PROVE IInv'
<1>1. /\ op[p] = "stage" /\ op'[p] = (IF 0 < T THEN "load" ELSE "done")
      /\ step[p] = 0 /\ step'[p] = 0
      /\ UNCHANGED <<chain, tile, acc, recv, full, empty, putn, getn, drainn, l3>>
  BY Parts, StageStep DEF CtlOK, TypeOK
<1>2. Core(p)
  BY DEF Core
<1>3. CtlOK(p)' /\ CountOK(p)' /\ AccOK(p)' /\ Taken(p)' = Taken(p)
  <2>1. CtlOK(p) /\ CountOK(p) /\ IsHead(p)' = IsHead(p) /\ IsTail(p)' = IsTail(p)
    BY <1>2, Parts, Fixed
  <2> QED BY <1>1, <2>1 DEF CtlOK, CountOK, AccOK, Taken, AfterGet, AfterSum
<1>4. AheadOK(p)' /\ OutOK'
  BY <1>1, <1>2, <1>3, QuietAhead, QuietOut
<1> QED BY <1>1, <1>2, <1>3, <1>4, QuietLinks, StepKeeps

LEMMA LoadInv == ASSUME IInv, NEW p \in PE, Load(p) PROVE IInv'
<1>1. /\ op[p] = "load" /\ op'[p] = "compute" /\ tile'[p] = step[p]
      /\ UNCHANGED <<chain, step, acc, recv, full, empty, putn, getn, drainn, l3>>
  BY Parts, LoadStep DEF TypeOK
<1>2. Core(p)
  BY DEF Core
<1>3. CtlOK(p)' /\ CountOK(p)' /\ AccOK(p)' /\ Taken(p)' = Taken(p) /\ step[p] <= step'[p]
  <2>1. /\ CtlOK(p) /\ CountOK(p) /\ IsHead(p)' = IsHead(p) /\ IsTail(p)' = IsTail(p)
        /\ step[p] \in Nat
    BY <1>2, Parts, Fixed
  <2> QED BY <1>1, <2>1 DEF CtlOK, CountOK, AccOK, Taken, AfterGet, AfterSum
<1>4. AheadOK(p)' /\ OutOK'
  BY <1>1, <1>2, <1>3, QuietAhead, QuietOut
<1> QED BY <1>1, <1>2, <1>3, <1>4, QuietLinks, StepKeeps

\* The accumulator is this core's share, which for the head is all there is.
LEMMA ComputeInv == ASSUME IInv, NEW p \in PE, Compute(p) PROVE IInv'
<1>1. /\ op[p] = "compute" /\ op'[p] = (IF IsHead(p) THEN "wait_empty" ELSE "release")
      /\ acc'[p] = Plus(Zero, Share(p, tile[p]))
      /\ UNCHANGED <<chain, step, tile, recv, full, empty, putn, getn, drainn, l3>>
  BY Parts, ComputeStep DEF TypeOK
<1>2. Core(p)
  BY DEF Core
<1>3. /\ CtlOK(p) /\ CountOK(p) /\ AccOK(p) /\ step[p] \in Nat /\ step[p] \in Trip
      /\ IsHead(p)' = IsHead(p) /\ IsTail(p)' = IsTail(p)
      /\ Before(chain, p)' = Before(chain, p)
  BY <1>1, <1>2, Parts, Fixed DEF CtlOK, Trip
<1>4. acc'[p] = Share(p, step[p])
  BY <1>1, <1>3, PlusZero DEF AccOK
<1>5. IsHead(p) => ~IsTail(p) /\ Before(chain, p) = {}
  BY Parts, BeforeEnds DEF IsHead, IsTail
<1>6. CtlOK(p)' /\ CountOK(p)'
  <2>1. ~IsHead(p) => Taken(p)' = Taken(p)
    BY <1>1 DEF Taken, AfterGet, AfterSum
  <2> QED BY <1>1, <1>3, <1>5, <2>1 DEF CtlOK, CountOK
<1>7. AccOK(p)'
  <2>1. CASE IsHead(p)
    <3>1. acc'[p] = SumOver(Before(chain, p) \union {p}, step[p])
      BY <1>3, <1>4, <1>5, <2>1, ShareIsSum
    <3> QED BY <1>1, <1>3, <2>1, <3>1 DEF AccOK, AfterSum
  <2>2. CASE ~IsHead(p)
    BY <1>1, <1>4, <2>2 DEF AccOK, AfterSum
  <2> QED BY <2>1, <2>2
<1>8. AheadOK(p)'
  <2>1. CASE IsHead(p)
    BY <1>3, <2>1 DEF AheadOK
  <2>2. CASE ~IsHead(p)
    <3>1. Taken(p)' = Taken(p)
      BY <1>1, <2>2 DEF Taken, AfterGet, AfterSum
    <3> QED BY <1>2, <3>1, QuietAhead
  <2> QED BY <2>1, <2>2
<1>9. OutOK' /\ step[p] <= step'[p]
  BY <1>1, <1>2, <1>3, QuietOut
<1> QED BY <1>1, <1>2, <1>6, <1>7, <1>8, <1>9, QuietLinks, StepKeeps

LEMMA ReleaseInv == ASSUME IInv, NEW p \in PE, Release(p) PROVE IInv'
<1>1. /\ op[p] = "release" /\ op'[p] = "wait_full"
      /\ UNCHANGED <<chain, step, tile, acc, recv, full, putn, getn, drainn, l3>>
  BY Parts, ReleaseStep DEF TypeOK
<1>2. \A k \in Link : empty'[k] = IF getn[p] > 0 /\ k = GetIndex(chain, p)
                                  THEN empty[k] + 1 ELSE empty[k]
  BY Parts, ReleaseStep
<1>3. Core(p)
  BY DEF Core, Get
<1>4. CtlOK(p)' /\ CountOK(p)' /\ AccOK(p)' /\ Taken(p)' = Taken(p) /\ step[p] <= step'[p]
  <2>1. /\ CtlOK(p) /\ CountOK(p) /\ AccOK(p) /\ IsHead(p)' = IsHead(p) /\ IsTail(p)' = IsTail(p)
        /\ step[p] \in Nat
    BY <1>3, Parts, Fixed
  <2> QED BY <1>1, <2>1 DEF CtlOK, CountOK, AccOK, Taken, AfterGet, AfterSum
<1>5. AheadOK(p)' /\ OutOK'
  BY <1>1, <1>3, <1>4, QuietAhead, QuietOut
<1>6. LinkOK(p)' /\ RecvOK(p)'
  <2>1. CASE IsTail(p)
    BY <1>3, <2>1, Fixed DEF LinkOK, RecvOK
  <2>2. CASE ~IsTail(p)
    <3>1. PutIndex(chain, p) # GetIndex(chain, p)
      BY <2>2 DEF PutIndex, GetIndex, PE
    <3>2. empty'[PutIndex(chain, p)] = empty[PutIndex(chain, p)] /\ LinkOK(p) /\ RecvOK(p)
      BY <1>2, <1>3, <2>2, <3>1, Ahead, Parts
    <3> QED BY <1>1, <1>3, <2>2, <3>2, Ahead DEF LinkOK, RecvOK, Written, Same
  <2> QED BY <2>1, <2>2
<1>7. ASSUME NEW q \in PE, ~IsTail(q), Succ(q) = p PROVE LinkOK(q)' /\ RecvOK(q)'
  <2> DEFINE k == PutIndex(chain, q)
  <2>1. /\ Same(q) /\ k \in Link /\ GetIndex(chain, p) = k /\ LinkOK(q) /\ RecvOK(q)
        /\ ~IsTail(q)' /\ Succ(q)' = p /\ PutIndex(chain, q)' = k
        /\ Before(chain, p)' = Before(chain, p)
        /\ getn[p] \in Nat /\ empty[k] \in Nat /\ putn[q] \in Nat
    BY <1>3, <1>7, Behind, Parts
  <2>2. empty'[k] = IF getn[p] > 0 THEN empty[k] + 1 ELSE empty[k]
    BY <1>2, <2>1
  <2>3. LinkOK(q)'
    BY <1>1, <1>7, <2>1, <2>2 DEF LinkOK, Same
  <2>4. RecvOK(q)'
    BY <1>1, <1>7, <2>1 DEF RecvOK, Written, Same
  <2> QED BY <2>3, <2>4
<1> QED BY <1>3, <1>4, <1>5, <1>6, <1>7, StepKeeps

\* The core before has put the sum of this trip, so all before it have too.
LEMMA WaitFullInv == ASSUME IInv, NEW p \in PE, WaitFull(p) PROVE IInv'
<1>1. /\ op[p] = "wait_full" /\ op'[p] = "accumulate"
      /\ full[GetIndex(chain, p)] >= getn[p] + 1 /\ getn'[p] = getn[p] + 1
      /\ UNCHANGED <<chain, step, tile, acc, recv, full, empty, putn, drainn, l3>>
  BY Parts, WaitFullStep DEF TypeOK
<1>2. Core(p)
  BY DEF Core, Get
<1>3. /\ CtlOK(p) /\ CountOK(p) /\ AccOK(p) /\ step[p] \in Nat /\ getn[p] \in Nat
      /\ IsHead(p)' = IsHead(p) /\ IsTail(p)' = IsTail(p) /\ ~IsHead(p)
      /\ Before(chain, p)' = Before(chain, p)
  BY <1>1, <1>2, Parts, Fixed DEF CtlOK
<1>4. getn[p] = step[p] /\ Taken(p) = step[p] /\ Taken(p)' = step[p] + 1
  BY <1>1, <1>3 DEF CountOK, Taken, AfterGet, AfterSum
<1>5. CtlOK(p)' /\ CountOK(p)' /\ AccOK(p)' /\ step[p] <= step'[p]
  BY <1>1, <1>3, <1>4 DEF CtlOK, CountOK, AccOK, AfterSum
<1>6. OutOK'
  BY <1>1, <1>2, QuietOut
<1>7. LinkOK(p)' /\ RecvOK(p)'
  <2>1. CASE IsTail(p)
    BY <1>3, <2>1 DEF LinkOK, RecvOK
  <2>2. CASE ~IsTail(p)
    <3>1. LinkOK(p) /\ RecvOK(p)
      BY Parts
    <3> QED BY <1>1, <1>2, <2>2, <3>1, Ahead DEF LinkOK, RecvOK, Written, Same
  <2> QED BY <2>1, <2>2
<1>8. ASSUME NEW q \in PE, ~IsTail(q), Succ(q) = p
      PROVE  LinkOK(q)' /\ RecvOK(q)' /\ step[p] + 1 <= step[q]
  <2> DEFINE k == PutIndex(chain, q)
  <2>1. /\ Same(q) /\ k \in Link /\ GetIndex(chain, p) = k /\ LinkOK(q) /\ RecvOK(q)
        /\ ~IsTail(q)' /\ Succ(q)' = p /\ PutIndex(chain, q)' = k
        /\ Before(chain, p)' = Before(chain, p)
        /\ empty[k] \in Nat /\ putn[q] \in Nat /\ CountOK(q)
    BY <1>2, <1>8, Behind, Parts
  <2>2. full[k] = putn[q] /\ putn[q] = step[q]
    BY <1>8, <2>1 DEF LinkOK, CountOK
  <2>3. LinkOK(q)'
    BY <1>1, <1>3, <1>8, <2>1, <2>2 DEF LinkOK, Same
  <2>4. RecvOK(q)'
    BY <1>1, <1>8, <2>1 DEF RecvOK, Written, Same
  <2> QED BY <1>1, <1>4, <2>1, <2>2, <2>3, <2>4
<1>9. AheadOK(p)'
  <2> SUFFICES ASSUME NEW r \in Before(chain, p) PROVE step[p] + 1 <= step'[r]
    BY <1>3, <1>4 DEF AheadOK
  <2> DEFINE q == Pred(p)
  <2>1. q \in PE /\ ~IsTail(q) /\ Succ(q) = p /\ AheadOK(q) /\ step[q] \in Nat
    BY <1>3, LinkBack, Parts
  <2>2. step[p] + 1 <= step[q]
    BY <1>8, <2>1
  <2>3. r = q \/ r \in Before(chain, q)
    <3>1. Before(chain, p) = Before(chain, q) \union {q}
      BY <2>1, LinkEnds, Parts
    <3> QED BY <3>1
  <2>4. r \in PE /\ step'[r] = step[r] /\ step[r] \in Nat
    BY <1>2, Fixed, Parts DEF Same
  <2>5. CASE r \in Before(chain, q)
    <3>1. ~IsHead(q)
      BY <2>1, <2>5, BeforeEnds, Parts
    <3>2. Taken(q) <= step[r] /\ Taken(q) >= step[q] /\ Taken(q) \in Nat
      BY <2>1, <2>5, <3>1 DEF AheadOK, Taken
    <3> QED BY <1>3, <2>1, <2>2, <2>4, <3>2
  <2> QED BY <2>2, <2>3, <2>4, <2>5
<1> QED BY <1>2, <1>5, <1>6, <1>7, <1>8, <1>9, StepKeeps

\* What a core is about to add is the sum of the shares of all cores before it,
\* for this trip: the core before it has put that sum and may not put another.
LEMMA SumIsThere ==
  ASSUME IInv, NEW p \in PE, op[p] = "accumulate"
  PROVE  recv[p] = SumOver(Before(chain, p), step[p])
<1>1. ~IsHead(p) /\ getn[p] = step[p] + 1 /\ step[p] \in Nat
  BY Parts DEF CtlOK, CountOK, Taken, AfterGet
<1>2. ASSUME NEW q \in PE, ~IsTail(q), Succ(q) = p
      PROVE  recv[p] = SumOver(Before(chain, p), step[p])
  <2> DEFINE k == PutIndex(chain, q)
  <2>1. LinkOK(q) /\ RecvOK(q) /\ k \in Link /\ empty[k] \in Nat /\ putn[q] \in Nat
    BY <1>2, Parts, LinkEnds
  <2>2. /\ getn[p] <= putn[q] /\ empty[k] = getn[p] - 1 /\ putn[q] <= empty[k] + 1
        /\ op[q] = "signal" => putn[q] <= empty[k]
    BY <1>1, <1>2, <2>1 DEF LinkOK
  <2>3. Written(q) = step[p] + 1
    BY <1>1, <2>1, <2>2 DEF Written
  <2>4. step[p] + 1 > 0 /\ (step[p] + 1) - 1 = step[p]
    BY <1>1
  <2>5. recv[p] = SumOver(Before(chain, p), Written(q) - 1)
    BY <1>2, <2>1, <2>3, <2>4 DEF RecvOK
  <2> QED BY <2>3, <2>4, <2>5
<1> QED BY <1>1, <1>2, LinkBack, Parts

LEMMA AccumulateInv == ASSUME IInv, NEW p \in PE, Accumulate(p) PROVE IInv'
<1>1. /\ op[p] = "accumulate" /\ op'[p] = (IF IsTail(p) THEN "drain" ELSE "wait_empty")
      /\ acc'[p] = Plus(acc[p], recv[p])
      /\ UNCHANGED <<chain, step, tile, recv, full, empty, putn, getn, drainn, l3>>
  BY Parts, AccumulateStep DEF TypeOK
<1>2. Core(p)
  BY DEF Core, Get
<1>3. /\ CtlOK(p) /\ CountOK(p) /\ AccOK(p) /\ step[p] \in Nat /\ step[p] \in Trip
      /\ IsHead(p)' = IsHead(p) /\ IsTail(p)' = IsTail(p)
      /\ Before(chain, p)' = Before(chain, p)
  BY <1>1, <1>2, Parts, Fixed DEF CtlOK, Trip
<1>4. Taken(p)' = Taken(p)
  BY <1>1 DEF Taken, AfterGet, AfterSum
<1>5. CtlOK(p)' /\ CountOK(p)' /\ step[p] <= step'[p]
  BY <1>1, <1>3, <1>4 DEF CtlOK, CountOK
<1>6. AheadOK(p)' /\ OutOK'
  BY <1>1, <1>2, <1>4, QuietAhead, QuietOut
<1>7. AccOK(p)'
  <2>1. acc[p] = Share(p, step[p]) /\ recv[p] = SumOver(Before(chain, p), step[p])
    BY <1>1, <1>3, SumIsThere DEF AccOK
  <2>2. acc'[p] = SumOver(Before(chain, p) \union {p}, step[p])
    <3>1. p \notin Before(chain, p)
      BY Parts, BeforeEnds
    <3> QED BY <1>1, <1>3, <2>1, <3>1, PlusShare
  <2> QED BY <1>1, <1>3, <2>2 DEF AccOK, AfterSum
<1> QED BY <1>1, <1>2, <1>5, <1>6, <1>7, QuietLinks, StepKeeps

\* The put waits for every sum put before it to be given back.
LEMMA WaitEmptyInv == ASSUME IInv, NEW p \in PE, WaitEmpty(p) PROVE IInv'
<1>1. /\ op[p] = "wait_empty" /\ op'[p] = "write" /\ empty[PutIndex(chain, p)] >= putn[p]
      /\ UNCHANGED <<chain, step, tile, acc, recv, full, empty, putn, getn, drainn, l3>>
  BY Parts, WaitEmptyStep DEF TypeOK
<1>2. Core(p)
  BY DEF Core, Put
<1>3. /\ CtlOK(p) /\ CountOK(p) /\ AccOK(p) /\ LinkOK(p) /\ RecvOK(p) /\ step[p] \in Nat
      /\ IsHead(p)' = IsHead(p) /\ IsTail(p)' = IsTail(p) /\ ~IsTail(p)
      /\ Before(chain, p)' = Before(chain, p)
  BY <1>1, <1>2, Parts, Fixed DEF CtlOK
<1>4. Taken(p)' = Taken(p)
  BY <1>1 DEF Taken, AfterGet, AfterSum
<1>5. CtlOK(p)' /\ CountOK(p)' /\ AccOK(p)' /\ step[p] <= step'[p]
  BY <1>1, <1>3, <1>4 DEF CtlOK, CountOK, AccOK, AfterSum
<1>6. AheadOK(p)' /\ OutOK'
  BY <1>1, <1>2, <1>4, QuietAhead, QuietOut
<1>7. LinkOK(p)' /\ RecvOK(p)'
  <2>1. PutIndex(chain, p) \in Link /\ empty[PutIndex(chain, p)] \in Nat /\ putn[p] \in Nat
    BY <1>2, <1>3, Ahead, Parts
  <2>2. putn[p] <= empty[PutIndex(chain, p)]
    BY <1>1, <2>1
  <2> QED BY <1>1, <1>2, <1>3, <2>2, Ahead DEF LinkOK, RecvOK, Written, Same
<1>8. ASSUME NEW q \in PE, ~IsTail(q), Succ(q) = p PROVE LinkOK(q)' /\ RecvOK(q)'
  BY <1>1, <1>2, <1>8, Behind DEF LinkOK, RecvOK, Written, Same
<1> QED BY <1>2, <1>5, <1>6, <1>7, <1>8, StepKeeps

\* The sum up to p is the sum the next core is to find.
LEMMA WriteInv == ASSUME IInv, NEW p \in PE, Write(p) PROVE IInv'
<1>1. /\ op[p] = "write" /\ op'[p] = "signal"
      /\ recv' = [recv EXCEPT ![Succ(p)] = acc[p]]
      /\ UNCHANGED <<chain, step, tile, acc, full, empty, putn, getn, drainn, l3>>
  BY Parts, WriteStep DEF TypeOK
<1>2. Core(p)
  BY DEF Core, Put
<1>3. /\ CtlOK(p) /\ CountOK(p) /\ AccOK(p) /\ LinkOK(p) /\ step[p] \in Nat /\ putn[p] \in Nat
      /\ IsHead(p)' = IsHead(p) /\ IsTail(p)' = IsTail(p) /\ ~IsTail(p)
      /\ Before(chain, p)' = Before(chain, p) /\ recv \in [PE -> Sum]
  BY <1>1, <1>2, Parts, Fixed DEF CtlOK, TypeOK
<1>4. Taken(p)' = Taken(p)
  BY <1>1 DEF Taken, AfterGet, AfterSum
<1>5. CtlOK(p)' /\ CountOK(p)' /\ AccOK(p)' /\ step[p] <= step'[p]
  BY <1>1, <1>3, <1>4 DEF CtlOK, CountOK, AccOK, AfterSum
<1>6. AheadOK(p)' /\ OutOK'
  BY <1>1, <1>2, <1>4, QuietAhead, QuietOut
<1>7. LinkOK(p)'
  BY <1>1, <1>2, <1>3, Ahead DEF LinkOK, Same
<1>8. RecvOK(p)'
  <2>1. /\ Succ(p) \in PE /\ Succ(p)' = Succ(p)
        /\ Before(chain, Succ(p))' = Before(chain, p) \union {p}
    BY <1>2, <1>3, Ahead, LinkEnds, Parts
  <2>2. acc[p] = SumOver(Before(chain, p) \union {p}, putn[p])
    BY <1>1, <1>3 DEF AccOK, AfterSum, CountOK
  <2>3. Written(p)' = putn[p] + 1 /\ (putn[p] + 1) - 1 = putn[p]
    BY <1>1, <1>3 DEF Written
  <2>4. recv'[Succ(p)] = acc[p]
    BY <1>1, <1>3, <2>1
  <2> QED BY <2>1, <2>2, <2>3, <2>4 DEF RecvOK
<1>9. ASSUME NEW q \in PE, ~IsTail(q), Succ(q) = p PROVE LinkOK(q)' /\ RecvOK(q)'
  <2>1. Succ(p) # p
    BY <1>2, <1>3, Ahead
  <2>2. recv'[p] = recv[p]
    BY <1>1, <1>3, <2>1
  <2> QED BY <1>1, <1>2, <1>9, <2>2, Behind DEF LinkOK, RecvOK, Written, Same
<1> QED BY <1>2, <1>5, <1>6, <1>7, <1>8, <1>9, StepKeeps

\* The sum is on its way only when its semaphore says so, and the trip ends.
LEMMA SignalInv == ASSUME IInv, NEW p \in PE, Signal(p) PROVE IInv'
<1>1. /\ op[p] = "signal" /\ op'[p] = (IF step[p] + 1 < T THEN "load" ELSE "done")
      /\ step'[p] = step[p] + 1 /\ putn'[p] = putn[p] + 1
      /\ full' = [full EXCEPT ![PutIndex(chain, p)] = full[PutIndex(chain, p)] + 1]
      /\ UNCHANGED <<chain, tile, acc, recv, empty, getn, drainn, l3>>
  BY Parts, SignalStep DEF TypeOK
<1>2. Core(p)
  BY DEF Core, Put
<1>3. /\ CtlOK(p) /\ CountOK(p) /\ LinkOK(p) /\ RecvOK(p)
      /\ step[p] \in Nat /\ step[p] < T /\ putn[p] \in Nat
      /\ IsHead(p)' = IsHead(p) /\ IsTail(p)' = IsTail(p) /\ ~IsTail(p)
      /\ full \in [Link -> Nat]
  BY <1>1, <1>2, Parts, Fixed DEF CtlOK, TypeOK
<1>4. Taken(p)' = Taken(p)
  BY <1>1, <1>3 DEF Taken, AfterGet, AfterSum
<1>5. CtlOK(p)' /\ CountOK(p)' /\ AccOK(p)' /\ step[p] <= step'[p]
  <2>1. CtlOK(p)'
    BY <1>1, <1>3 DEF CtlOK
  <2>2. CountOK(p)'
    BY <1>1, <1>3, <1>4 DEF CountOK
  <2>3. AccOK(p)'
    BY <1>1 DEF AccOK, AfterSum
  <2> QED BY <1>1, <1>3, <2>1, <2>2, <2>3
<1>6. AheadOK(p)' /\ OutOK'
  BY <1>1, <1>2, <1>3, <1>4, QuietAhead, QuietOut
<1>7. LinkOK(p)' /\ RecvOK(p)'
  <2> DEFINE k == PutIndex(chain, p)
  <2>1. /\ k \in Link /\ k' = k /\ Same(Succ(p)) /\ Succ(p)' = Succ(p) /\ Succ(p) \in PE
        /\ Before(chain, Succ(p))' = Before(chain, Succ(p))
    BY <1>2, <1>3, Ahead
  <2>2. full'[k] = putn[p] + 1 /\ empty[k] \in Nat /\ getn[Succ(p)] \in Nat
    BY <1>1, <1>3, <2>1, Parts DEF LinkOK
  <2>3. LinkOK(p)'
    BY <1>1, <1>3, <2>1, <2>2 DEF LinkOK, Same
  <2>4. Written(p)' = Written(p)
    BY <1>1, <1>3 DEF Written
  <2>5. RecvOK(p)'
    BY <1>1, <1>3, <2>1, <2>4 DEF RecvOK
  <2> QED BY <2>3, <2>5
<1>8. ASSUME NEW q \in PE, ~IsTail(q), Succ(q) = p PROVE LinkOK(q)' /\ RecvOK(q)'
  <2>1. PutIndex(chain, q) # PutIndex(chain, p) /\ PutIndex(chain, q) \in Link
    BY <1>2, <1>8, Behind, LinksDiffer, Parts
  <2>2. full'[PutIndex(chain, q)] = full[PutIndex(chain, q)]
    BY <1>1, <1>3, <2>1
  <2> QED BY <1>1, <1>2, <1>8, <2>2, Behind DEF LinkOK, RecvOK, Written, Same
<1> QED BY <1>2, <1>5, <1>6, <1>7, <1>8, StepKeeps

\* What the tail writes to DRAM is the whole sum of the row tile it is due for.
LEMMA DrainInv == ASSUME IInv, NEW p \in PE, Drain(p) PROVE IInv'
<1>1. /\ op[p] = "drain" /\ op'[p] = (IF step[p] + 1 < T THEN "load" ELSE "done")
      /\ step'[p] = step[p] + 1
      /\ l3' = [l3 EXCEPT ![drainn] = acc[p]] /\ drainn' = drainn + 1
      /\ UNCHANGED <<chain, tile, acc, recv, full, empty, putn, getn>>
  BY Parts, DrainStep DEF TypeOK
<1>2. Core(p)
  BY DEF Core
<1>3. /\ CtlOK(p) /\ CountOK(p) /\ AccOK(p) /\ step[p] \in Nat /\ step[p] < T
      /\ IsHead(p)' = IsHead(p) /\ IsTail(p)' = IsTail(p) /\ IsTail(p)
      /\ Tail(chain)' = Tail(chain) /\ p = Tail(chain) /\ l3 \in [Trip -> Sum]
  BY <1>1, <1>2, Parts, Fixed DEF CtlOK, TypeOK, IsTail
<1>4. Taken(p)' = Taken(p)
  BY <1>1, <1>3 DEF Taken, AfterGet, AfterSum
<1>5. CtlOK(p)' /\ CountOK(p)' /\ AccOK(p)' /\ step[p] <= step'[p]
  <2>1. CtlOK(p)'
    BY <1>1, <1>3 DEF CtlOK
  <2>2. CountOK(p)'
    BY <1>1, <1>3, <1>4 DEF CountOK
  <2>3. AccOK(p)'
    BY <1>1 DEF AccOK, AfterSum
  <2> QED BY <1>1, <1>3, <2>1, <2>2, <2>3
<1>6. AheadOK(p)'
  BY <1>2, <1>4, QuietAhead
<1>7. OutOK'
  <2>1. OutOK /\ drainn = step[p] /\ drainn \in Trip
    BY <1>3, Parts DEF OutOK, Trip
  <2>2. acc[p] = SumOver(PE, drainn)
    <3>1. Before(chain, p) \union {p} = PE
      BY <1>3, Parts, BeforeEnds
    <3> QED BY <1>1, <1>3, <2>1, <3>1 DEF AccOK, AfterSum
  <2>3. ASSUME NEW n \in Trip
        PROVE  l3'[n] = IF n < drainn' THEN SumOver(PE, n) ELSE Unwritten
    <3>1. l3'[n] = IF n = drainn THEN acc[p] ELSE l3[n]
      BY <1>1, <1>3, <2>1
    <3>2. l3[n] = IF n < drainn THEN SumOver(PE, n) ELSE Unwritten
      BY <2>1 DEF OutOK
    <3>3. drainn \in Nat /\ n \in Nat /\ drainn' = drainn + 1
      BY <1>1, <2>1 DEF Trip
    <3>4. CASE n = drainn
      BY <2>2, <3>1, <3>3, <3>4
    <3>5. CASE n # drainn
      BY <3>1, <3>2, <3>3, <3>5
    <3> QED BY <3>4, <3>5
  <2>4. drainn' = step'[p]
    BY <1>1, <2>1
  <2> QED BY <1>3, <2>3, <2>4 DEF OutOK
<1>8. LinkOK(p)' /\ RecvOK(p)'
  BY <1>3 DEF LinkOK, RecvOK
<1>9. ASSUME NEW q \in PE, ~IsTail(q), Succ(q) = p PROVE LinkOK(q)' /\ RecvOK(q)'
  BY <1>1, <1>2, <1>9, Behind DEF LinkOK, RecvOK, Written, Same
<1> QED BY <1>2, <1>5, <1>6, <1>7, <1>8, <1>9, StepKeeps

LEMMA StepInv == ASSUME IInv, [Next]_vars PROVE IInv'
<1>1. CASE UNCHANGED vars
  <2> USE <1>1 DEF vars, ctl, data, sems, out
  <2>1. TypeOK' /\ OutOK'
    BY Parts DEF TypeOK, OutOK
  <2>2. ASSUME NEW q \in PE
        PROVE  CtlOK(q)' /\ CountOK(q)' /\ AheadOK(q)' /\ LinkOK(q)' /\ RecvOK(q)' /\ AccOK(q)'
    BY Parts DEF CtlOK, CountOK, AheadOK, LinkOK, RecvOK, AccOK, Taken, Written, AfterGet,
                 AfterSum, IsHead, IsTail, Succ
  <2> QED BY <2>1, <2>2 DEF IInv
<1>2. ASSUME NEW p \in PE, Core(p) PROVE IInv'
  BY <1>2, StageInv, LoadInv, ComputeInv, ReleaseInv, WaitFullInv, AccumulateInv,
     WaitEmptyInv, WriteInv, SignalInv, DrainInv DEF Core, Get, Put
<1> QED BY <1>1, <1>2 DEF Next, Return

-----------------------------------------------------------------------------
(* No circular wait.                                                        *)

LEMMA LeastNat == ASSUME NEW S, S \subseteq Nat, S # {} PROVE \E m \in S : \A n \in S : m <= n
<1> DEFINE R == {ss \in Nat \X Nat : ss[1] < ss[2]}
<1>1. IsWellFoundedOn(R, Nat)
  <2>1. OpToRel(<, Nat) = R
    BY Zenon DEF OpToRel
  <2> QED BY <2>1, NatLessThanWellFounded, Zenon
<1> HIDE DEF R
<1>2. PICK m \in S : \A n \in S : ~(<<n, m>> \in R)
  BY <1>1, WFMin
<1>3. ASSUME NEW n \in S, n < m PROVE FALSE
  <2>1. <<n, m>> \in Nat \X Nat /\ <<n, m>>[1] = n /\ <<n, m>>[2] = m
    OBVIOUS
  <2>2. <<n, m>> \in R
    BY <1>3, <2>1, Zenon DEF R
  <2> QED BY <1>2, <2>2
<1> QED BY <1>3

\* How many links separate core p from the head.
Depth(p) == IF chain = "ascending" THEN p ELSE PES - 1 - p

\* Of the cores that have not returned take one on the least trip n and, of
\* those, the nearest to the head, p.  If p waits for a sum, the core before it is
\* past trip n, so the sum is here.  If p waits for the slot, the core after it has
\* not taken the sum of trip n yet: it stands at its get of it and has given the
\* one before back, or it can step itself.
LEMMA SomeCoreSteps == IInv => NoCircularWait
<1> SUFFICES ASSUME IInv, ~Finished PROVE \E p \in PE : CanStep(p)
  BY DEF NoCircularWait
<1> DEFINE Live == {p \in PE : op[p] # "done"}
<1>1. PICK n \in Nat : (\E p \in Live : step[p] = n) /\ \A p \in Live : n <= step[p]
  <2> DEFINE S == {step[p] : p \in Live}
  <2>1. S # {} /\ S \subseteq Nat
    BY Parts DEF Finished
  <2>2. PICK m \in S : \A k \in S : m <= k
    BY <2>1, LeastNat
  <2> QED BY <2>1, <2>2
<1>2. PICK p \in Live : step[p] = n /\ \A q \in Live : step[q] = n => Depth(p) <= Depth(q)
  <2> DEFINE S == {Depth(q) : q \in {r \in Live : step[r] = n}}
  <2>1. S # {} /\ S \subseteq Nat
    BY <1>1 DEF Depth, PE
  <2>2. PICK m \in S : \A k \in S : m <= k
    BY <2>1, LeastNat
  <2> QED BY <2>2
<1>3. \A q \in PE : n <= step[q]
  <2>1. \A q \in PE : CtlOK(q) /\ step[q] \in Nat /\ step[q] <= T
    BY Parts
  <2> QED BY <1>1, <2>1 DEF CtlOK
<1>4. p \in PE /\ CtlOK(p) /\ CountOK(p) /\ LinkOK(p)
  BY Parts
<1>5. CASE op[p] = "wait_full"
  <2>1. ~IsHead(p) /\ n < T /\ getn[p] = n
    BY <1>2, <1>4, <1>5 DEF CtlOK, CountOK, Taken, AfterGet, AfterSum
  <2>2. ASSUME NEW q \in PE, ~IsTail(q), Succ(q) = p PROVE CanStep(p)
    <3>1. /\ CtlOK(q) /\ CountOK(q) /\ LinkOK(q) /\ step[q] \in Nat
          /\ GetIndex(chain, p) = PutIndex(chain, q) /\ n <= step[q]
      BY <1>3, <2>2, Parts, LinkEnds
    <3>2. Depth(q) < Depth(p)
      BY <2>2 DEF Succ, Depth, PE
    <3>3. n # step[q]
      <4>1. op[q] = "done" => step[q] = T
        BY <3>1 DEF CtlOK
      <4>2. Depth(p) \in Int /\ Depth(q) \in Int
        BY DEF Depth, PE
      <4> QED BY <1>2, <2>1, <3>2, <4>1, <4>2
    <3>4. full[GetIndex(chain, p)] = step[q]
      BY <2>2, <3>1 DEF LinkOK, CountOK
    <3> QED BY <1>5, <2>1, <3>1, <3>3, <3>4 DEF CanStep
  <2>3. PICK q \in PE : ~IsTail(q) /\ Succ(q) = p
    BY <2>1, LinkBack, Parts
  <2> QED BY <2>2, <2>3
<1>6. CASE op[p] = "wait_empty"
  <2> DEFINE q == Succ(p)
             k == PutIndex(chain, p)
  <2>1. ~IsTail(p) /\ n < T /\ putn[p] = n
    BY <1>2, <1>4, <1>6 DEF CtlOK, CountOK
  <2>2. q \in PE /\ ~IsHead(q)
    BY <2>1, Parts, LinkEnds
  <2>3. /\ CtlOK(q) /\ CountOK(q) /\ step[q] \in Nat /\ getn[q] \in Nat
        /\ n <= step[q] /\ op[q] \in Op
    BY <1>3, <2>2, Parts
  <2>4. getn[q] <= n /\ empty[k] = IF getn[q] = 0 THEN 0
                                   ELSE IF op[q] = "wait_full" THEN getn[q]
                                   ELSE getn[q] - 1
    BY <1>4, <2>1 DEF LinkOK
  <2> HIDE DEF q, k
  <2>5. getn[q] = n /\ step[q] = n /\ ~AfterGet(q)
    BY <2>2, <2>3, <2>4 DEF CountOK, Taken
  <2>6. op[q] \in {"stage", "load", "compute", "release", "wait_full"}
    BY <2>1, <2>3, <2>5 DEF CtlOK, AfterGet, AfterSum, Op
  <2>7. CASE op[q] = "wait_full"
    <3>1. empty[k] = n
      BY <2>4, <2>5, <2>7
    <3> QED BY <1>4, <1>6, <2>1, <3>1, CreditIsOne DEF CanStep, k
  <2>8. CASE op[q] # "wait_full"
    BY <2>2, <2>6, <2>8 DEF CanStep
  <2> QED BY <2>7, <2>8
<1>7. CASE op[p] \notin {"wait_full", "wait_empty"}
  BY <1>4, <1>7 DEF CanStep
<1> QED BY <1>5, <1>6, <1>7

-----------------------------------------------------------------------------
(* The refinement mapping.                                                  *)

\* DRAM holds the whole sums of the first n tiles, and not the next one.
SumsInL3(n) == /\ \A m \in 0 .. n - 1 : l3[m] = SumOver(PE, m)
               /\ n < T => l3[n] # SumOver(PE, n)

Computed(p) == step[p] + (IF op[p] \in Past THEN 1 ELSE 0)

\* The sums DRAM holds are the trips the tail has ended.
LEMMA Mapping ==
  IInv => computed = [p \in PE |-> Computed(p)] /\ whole = drainn
<1> SUFFICES ASSUME IInv PROVE whole = drainn
  BY DEF computed, Computed
<1>1. OutOK /\ drainn \in 0 .. T /\ drainn \in Nat
  <2>1. OutOK /\ Tail(chain) \in PE
    BY Parts, BeforeEnds
  <2> QED BY <2>1, Parts DEF OutOK
<1>2. SumsInL3(drainn)
  <2>1. ASSUME drainn < T PROVE l3[drainn] # SumOver(PE, drainn)
    BY <1>1, <2>1, SumIsWritten DEF OutOK, Trip
  <2>2. ASSUME NEW m \in 0 .. drainn - 1 PROVE l3[m] = SumOver(PE, m)
    <3>1. m \in Trip /\ m < drainn
      BY <1>1 DEF Trip
    <3> QED BY <1>1, <3>1 DEF OutOK
  <2> QED BY <2>1, <2>2 DEF SumsInL3
<1>3. ASSUME NEW n \in 0 .. T, SumsInL3(n) PROVE n = drainn
  <2>1. CASE n < drainn
    <3>1. n \in Trip /\ n < T
      BY <1>1, <2>1 DEF Trip
    <3>2. l3[n] = SumOver(PE, n)
      BY <1>1, <2>1, <3>1 DEF OutOK
    <3> QED BY <1>3, <3>1, <3>2 DEF SumsInL3
  <2>2. CASE drainn < n
    <3>1. drainn \in Trip /\ drainn \in 0 .. n - 1
      BY <1>1, <2>2 DEF Trip
    <3>2. l3[drainn] = Unwritten
      BY <1>1, <3>1 DEF OutOK
    <3>3. l3[drainn] = SumOver(PE, drainn)
      BY <1>3, <3>1 DEF SumsInL3
    <3> QED BY <3>1, <3>2, <3>3, SumIsWritten
  <2> QED BY <1>1, <2>1, <2>2
<1>4. whole = CHOOSE n \in 0 .. T : SumsInL3(n)
  BY DEF whole, SumsInL3
<1> QED BY <1>1, <1>2, <1>3, <1>4

\* Every step of a core multiplies its share of a tile, stores a whole sum, or
\* leaves both counts.
LEMMA StepRefines ==
  IInv /\ IInv' /\ [Next]_vars => [Abstract!Next]_(Abstract!rvars)
<1> SUFFICES ASSUME IInv, IInv', [Next]_vars PROVE [Abstract!Next]_(Abstract!rvars)
  OBVIOUS
<1>1. /\ computed = [p \in PE |-> Computed(p)] /\ computed' = [p \in PE |-> Computed(p)']
      /\ whole = drainn /\ whole' = drainn'
  <2>1. IInv' => (computed = [p \in PE |-> Computed(p)] /\ whole = drainn)'
    BY Mapping, PTL
  <2> QED BY <2>1, Mapping
<1>2. PE = Abstract!PE
  BY DEF PE, Abstract!PE
<1>3. CASE UNCHANGED vars
  BY <1>1, <1>3 DEF vars, ctl, out, Computed, Abstract!rvars
<1>4. ASSUME NEW p \in PE, Core(p) PROVE [Abstract!Next]_(Abstract!rvars)
  <2>1. \A q \in PE : q # p => Computed(q)' = Computed(q)
    BY <1>4, Parts, Frame DEF Same, Computed
  <2>2. CtlOK(p) /\ step[p] \in Nat /\ TypeOK /\ op[p] \in Op
    BY Parts
  <2>3. op \in [PE -> Op] /\ step \in [PE -> 0 .. T]
    BY <2>2 DEF TypeOK
  <2>4. CASE Compute(p)
    <3>1. /\ op[p] = "compute" /\ step' = step /\ drainn' = drainn
          /\ op'[p] = IF IsHead(p) THEN "wait_empty" ELSE "release"
      BY <2>2, <2>3, <2>4, ComputeStep
    <3>2. Computed(p) = step[p] /\ Computed(p)' = step[p] + 1 /\ step[p] < T
      BY <2>2, <3>1 DEF Computed, Past, CtlOK
    <3>3. computed' = [computed EXCEPT ![p] = @ + 1] /\ computed[p] < T
      BY <1>1, <2>1, <3>2
    <3> QED BY <1>1, <1>2, <3>1, <3>3 DEF Abstract!Next, Abstract!Multiply
  <2>5. CASE Drain(p)
    <3>1. /\ op[p] = "drain" /\ step'[p] = step[p] + 1 /\ drainn' = drainn + 1
          /\ op'[p] = IF step[p] + 1 < T THEN "load" ELSE "done"
      BY <2>2, <2>3, <2>5, DrainStep
    <3>2. Computed(p)' = Computed(p) /\ Computed(p) = step[p] + 1
      BY <2>2, <3>1 DEF Computed, Past
    <3>3. computed' = computed
      BY <1>1, <2>1, <3>2
    <3>4. drainn = step[p] /\ drainn < T
      BY <2>2, <3>1, Parts DEF OutOK, CtlOK, IsTail
    <3>5. ASSUME NEW q \in PE PROVE Computed(q) > drainn
      <4>1. CASE q = p
        BY <2>2, <3>2, <3>4, <4>1
      <4>2. CASE q # p
        <5>1. IsTail(p) /\ ~IsHead(p) /\ Before(chain, p) \union {p} = PE
          BY <2>2, <3>1, Parts, BeforeEnds DEF CtlOK, IsTail, IsHead
        <5>2. Taken(p) <= step[q] /\ Taken(p) = step[p] + 1
          BY <3>1, <4>2, <5>1, Parts DEF AheadOK, Taken, AfterGet, AfterSum
        <5> QED BY <2>2, <3>4, <5>2, Parts DEF Computed
      <4> QED BY <4>1, <4>2
    <3> QED BY <1>1, <1>2, <3>1, <3>3, <3>4, <3>5 DEF Abstract!Next, Abstract!Store
  <2>6. CASE ~Compute(p) /\ ~Drain(p)
    <3>1. drainn' = drainn
      BY <1>4, <2>2, <2>6, StageStep, LoadStep, ReleaseStep, WaitFullStep, AccumulateStep,
         WaitEmptyStep, WriteStep, SignalStep DEF Core, Get, Put
    <3>2. Computed(p)' = Computed(p)
      BY <1>4, <2>2, <2>3, <2>6, StageStep, LoadStep, ReleaseStep, WaitFullStep, AccumulateStep,
         WaitEmptyStep, WriteStep, SignalStep DEF Core, Get, Put, Computed, Past, CtlOK
    <3> QED BY <1>1, <2>1, <3>1, <3>2 DEF Abstract!rvars
  <2> QED BY <2>4, <2>5, <2>6
<1> QED BY <1>3, <1>4 DEF Next, Return

-----------------------------------------------------------------------------
(* The theorems.                                                            *)

\* The invariant is inductive: it holds in every reachable state.
THEOREM Inductive == Spec => []IInv
<1>1. Init => IInv
  BY InitInv
<1>2. IInv /\ [Next]_vars => IInv'
  BY StepInv
<1> QED BY <1>1, <1>2, PTL DEF Spec

\* No core leaves its kernel's trips, for any number of cores and trips.
THEOREM TypeCorrect == Spec => []TypeOK
<1>1. IInv => TypeOK
  BY Parts
<1> QED BY <1>1, Inductive, PTL

\* What the chain delivers to a core (the Cascade get of m5tt_emit.py) is the
\* sum of the shares of all cores before it, all of the trip it is in: one
\* landing place and one credit never mix two row tiles, in either direction.
THEOREM SumsArePrefixes == Spec => []ReceivesPrefix
<1>1. IInv => ReceivesPrefix
  BY SumIsThere DEF ReceivesPrefix
<1> QED BY <1>1, Inductive, PTL

\* The landing place is written only when its owner has taken and added all
\* that was put there: the remote write never lands on a sum still in use.
THEOREM SlotsAreNotOverwritten == Spec => []SlotIsFree
<1>1. IInv => SlotIsFree
  <2> SUFFICES ASSUME IInv, NEW p \in PE, op[p] \in {"write", "signal"}
               PROVE  LET q == Receiver(chain, p) IN getn[q] = putn[p] /\ op[q] # "accumulate"
    BY DEF SlotIsFree
  <2>1. ~IsTail(p) /\ LinkOK(p)
    BY Parts DEF CtlOK
  <2> DEFINE k == PutIndex(chain, p)
             q == Succ(p)
  <2>2. q \in PE /\ k \in Link /\ ~IsHead(q) /\ Receiver(chain, p) = q
    BY <2>1, Parts, LinkEnds
  <2>3. /\ getn[q] <= putn[p] /\ putn[p] <= empty[k]
        /\ empty[k] = IF getn[q] = 0 THEN 0
                      ELSE IF op[q] = "wait_full" THEN getn[q] ELSE getn[q] - 1
    BY <2>1 DEF LinkOK
  <2>4. getn[q] \in Nat /\ putn[p] \in Nat /\ empty[k] \in Nat
    BY <2>2, Parts
  <2>5. op[q] = "accumulate" => getn[q] # 0
    BY <2>2, Parts DEF CountOK, Taken, AfterGet
  <2> QED BY <2>2, <2>3, <2>4, <2>5
<1> QED BY <1>1, Inductive, PTL

\* No chain of any length deadlocks, in either direction, over any number of
\* row tiles.
THEOREM NoDeadlock == Spec => []NoCircularWait
<1> QED BY Inductive, SomeCoreSteps, PTL

\* The safety part of ImplementsReduction: every step of the cores multiplies a
\* share, stores the next sum, with the share of every core in it, or is
\* invisible.
THEOREM RefinesReduction == Spec => Abstract!Init /\ [][Abstract!Next]_(Abstract!rvars)
<1>1. Init => Abstract!Init
  <2> SUFFICES ASSUME Init PROVE Abstract!Init
    OBVIOUS
  <2>1. IInv /\ drainn = 0 /\ \A p \in PE : Computed(p) = 0
    BY InitInv DEF Init, Computed, Past
  <2> QED BY <2>1, Mapping DEF Abstract!Init, Abstract!PE, PE
<1> QED BY <1>1, Inductive, StepRefines, PTL DEF Spec

=============================================================================
