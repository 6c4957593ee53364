-------------------------- MODULE HaloInterpProofs --------------------------
(***************************************************************************)
(* Proofs about HaloInterp, for every number of PEs and of trips.           *)
(***************************************************************************)
EXTENDS HaloInterpInv, WellFoundedInduction, TLAPS

USE PESAssumption, TAssumption

-----------------------------------------------------------------------------
(* The plan and its FIFOs.                                                  *)

\* Source and destination are the two buffers.
LEMMA BufType == \A n \in Nat : /\ Source(n) \in Buf
                                /\ Destination(n) \in Buf
                                /\ Source(n) # Destination(n)
BY DEF Source, Destination, Buf

\* Consecutive trips swap the buffers, across the unrolled body, its back edge
\* and the peeled trip.
LEMMA SwapsEachTrip ==
  ASSUME NEW n \in Nat, n + 1 < T
  PROVE  Source(n + 1) = Destination(n)
<1>1. Phase(n) = n % 2 /\ Phase(n + 1) = (n + 1) % 2
  BY DEF Phase, LoopHi
<1>2. (n + 1) % 2 # n % 2 /\ n % 2 \in {0, 1} /\ (n + 1) % 2 \in {0, 1}
  OBVIOUS
<1> QED BY <1>1, <1>2 DEF Source, Destination

\* The two ends of a link name each other.
LEMMA LinkEnds ==
  /\ \A p \in PE, d \in Dir : PutGuard(p, d) =>
       /\ PutPeer(p, d) \in PE /\ PutPeer(p, d) # p
       /\ GetGuard(PutPeer(p, d), d) /\ GetPeer(PutPeer(p, d), d) = p
  /\ \A q \in PE, d \in Dir : GetGuard(q, d) =>
       /\ GetPeer(q, d) \in PE /\ GetPeer(q, d) # q
       /\ PutGuard(GetPeer(q, d), d) /\ PutPeer(GetPeer(q, d), d) = q
BY DEF PE, Dir, PutGuard, GetGuard, PutPeer, GetPeer

\* A consumer is also a producer: the other channel leads back.
Other(d) == IF d = "ToNorth" THEN "ToSouth" ELSE "ToNorth"

LEMMA LinkBack ==
  \A p \in PE, d \in Dir : GetGuard(p, d) =>
    /\ Other(d) \in Dir
    /\ GetGuard(GetPeer(p, d), Other(d))
    /\ GetPeer(GetPeer(p, d), Other(d)) = p
BY DEF PE, Dir, GetGuard, GetPeer, Other

\* The neighbours are the far ends of the links.
LEMMA NeighbourLinks ==
  \A p \in PE : \A q \in {p - 1, p + 1} \intersect PE :
    \E d \in Dir : GetGuard(p, d) /\ GetPeer(p, d) = q
<1> SUFFICES ASSUME NEW p \in PE, NEW q \in {p - 1, p + 1} \intersect PE
             PROVE  \E d \in Dir : GetGuard(p, d) /\ GetPeer(p, d) = q
  OBVIOUS
<1>1. CASE q = p - 1
  <2>1. GetGuard(p, "ToSouth") /\ GetPeer(p, "ToSouth") = q
    BY <1>1 DEF PE, GetGuard, GetPeer
  <2> QED BY <2>1 DEF Dir
<1>2. CASE q = p + 1
  <2>1. GetGuard(p, "ToNorth") /\ GetPeer(p, "ToNorth") = q
    BY <1>2 DEF PE, GetGuard, GetPeer
  <2> QED BY <2>1 DEF Dir
<1> QED BY <1>1, <1>2

LEMMA Members ==
  /\ "ToNorth" \in Dir /\ "ToSouth" \in Dir /\ "cur" \in Buf /\ "next" \in Buf
  /\ Junk \in Tag /\ 0 \in Tag /\ Junk = -1
  /\ \A n \in 0 .. T : n \in Tag
  /\ \A n \in Tag : n \in Int /\ n >= -1 /\ n <= T
BY DEF Dir, Buf, Junk, Tag

LEMMA Places == /\ 0 \in PE
                /\ \A p \in PE : p \in Nat /\ p < PES /\ ~(p < 0) /\ (p + 1 < PES => p + 1 \in PE)
BY DEF PE

\* The next plane put into a FIFO joins the run of planes it holds.
LEMMA HoldsAppend ==
  ASSUME NEW q \in Seq(Tag), NEW a \in Int, NEW b \in Int, Holds(q, a, b), b \in Tag
  PROVE  Append(q, b) \in Seq(Tag) /\ Holds(Append(q, b), a, b + 1)
<1>1. Append(q, b) \in Seq(Tag) /\ Len(Append(q, b)) = Len(q) + 1
  OBVIOUS
<1>2. ASSUME NEW k \in 1 .. Len(q) + 1 PROVE Append(q, b)[k] = a + k - 1
  <2>1. CASE k \in 1 .. Len(q)
    BY <2>1 DEF Holds
  <2>2. CASE k = Len(q) + 1
    BY <2>2 DEF Holds
  <2> QED BY <2>1, <2>2
<1> QED BY <1>1, <1>2 DEF Holds

\* What is taken from a FIFO is the first plane of the run.
LEMMA HoldsTail ==
  ASSUME NEW q \in Seq(Tag), NEW a \in Int, NEW b \in Int, Holds(q, a, b), q # <<>>
  PROVE  /\ Head(q) = a /\ a \in Tag /\ a < b
         /\ Tail(q) \in Seq(Tag) /\ Holds(Tail(q), a + 1, b)
<1>1. Len(q) \in Nat /\ Len(q) >= 1 /\ Head(q) = q[1] /\ Head(q) \in Tag
  OBVIOUS
<1>2. /\ Tail(q) \in Seq(Tag) /\ Len(Tail(q)) = Len(q) - 1
      /\ \A k \in 1 .. Len(q) - 1 : Tail(q)[k] = q[k + 1]
  OBVIOUS
<1>3. q[1] = a /\ a < b
  BY <1>1 DEF Holds
<1> QED BY <1>1, <1>2, <1>3 DEF Holds

\* A run ends no earlier than it begins, and a FIFO with planes to give is not empty.
LEMMA HoldsSome ==
  ASSUME NEW q \in Seq(Tag), NEW a \in Int, NEW b \in Int, Holds(q, a, b)
  PROVE  a <= b /\ (a < b => q # <<>>)
BY DEF Holds

LEMMA HoldsPair ==
  ASSUME NEW q \in Seq(Tag), NEW a \in Int, NEW b \in Int, Holds(q, a, b), b - a <= 2
  PROVE  Len(q) <= 2 /\ (Len(q) = 2 => q[2] = q[1] + 1)
BY DEF Holds

-----------------------------------------------------------------------------
(* The parts of the invariant.                                              *)

LEMMA Parts ==
  ASSUME IInv
  PROVE  /\ TypeOK /\ SegOK
         /\ \A p \in PE : /\ CtlOK(p) /\ FillsOK(p) /\ DrainsOK(p) /\ StripOK(p) /\ L3OK(p)
                          /\ op[p] \in Op /\ dir[p] \in Dir /\ step[p] \in Nat /\ step[p] \in 0 .. T
                          /\ drains[p] \in Seq(Tag)
                          /\ \A b \in Buf : own[p][b] \in Tag /\ cols[p][b] \in Tag
                          /\ \A d \in Dir : LinkOK(p, d) /\ link[p][d] \in Seq(Tag)
         /\ seg.op \in SegOp /\ seg.pe \in PE /\ seg.plane \in Nat
BY DEF IInv, TypeOK

\* The ends of the runs are numbers.
LEMMA EndTypes ==
  ASSUME IInv
  PROVE  \A p \in PE : /\ Stored(p) \in 0 .. T /\ Computed(p) \in Nat
                       /\ \A d \in Dir : Puts(p, d) \in Nat /\ Gets(p, d) \in Nat
<1>1. \A p \in PE : Stored(p) \in 0 .. T
  BY Parts DEF Stored, SegOK
<1>2. \A p \in PE : Computed(p) \in Nat /\ \A d \in Dir : Puts(p, d) \in Nat /\ Gets(p, d) \in Nat
  BY Parts DEF Computed, Puts, Gets
<1> QED BY <1>1, <1>2

-----------------------------------------------------------------------------
(* What each step of a PE does: the types it keeps, and the state it leaves. *)

\* What every PE but the one that steps keeps, and what no PE changes.
Same(q) ==
  /\ op'[q] = op[q] /\ dir'[q] = dir[q] /\ step'[q] = step[q]
  /\ \A b \in Buf : own'[q][b] = own[q][b] /\ cols'[q][b] = cols[q][b]
  /\ \A b \in Buf, d \in Dir : ghost'[q][b][d] = ghost[q][b][d]
  /\ fills'[q] = fills[q] /\ drains'[q] = drains[q]
Others(p) == /\ TypeOK' /\ UNCHANGED <<seg, l3>>
             /\ \A q \in PE : q # p => Same(q)

\* The control part of a step.
LEMMA GotoStep ==
  ASSUME TypeOK, NEW p \in PE, NEW o \in Op, NEW d \in Dir, Goto(p, o, d)
  PROVE  /\ op' \in [PE -> Op] /\ dir' \in [PE -> Dir] /\ op'[p] = o /\ dir'[p] = d
         /\ \A q \in PE : q # p => op'[q] = op[q] /\ dir'[q] = dir[q]
BY DEF Goto, TypeOK

LEMMA EnterStep ==
  ASSUME TypeOK, NEW p \in PE, NEW n \in 0 .. T, EnterTrip(p, n)
  PROVE  /\ op' \in [PE -> Op] /\ dir' \in [PE -> Dir] /\ step' \in [PE -> 0 .. T]
         /\ op'[p] = (IF n < T THEN "put" ELSE "done") /\ dir'[p] = "ToNorth" /\ step'[p] = n
         /\ \A q \in PE : q # p => op'[q] = op[q] /\ dir'[q] = dir[q] /\ step'[q] = step[q]
<1>1. step' = [step EXCEPT ![p] = n] /\ step \in [PE -> 0 .. T]
  BY DEF EnterTrip, TypeOK
<1>2. Goto(p, IF n < T THEN "put" ELSE "done", "ToNorth")
  BY DEF EnterTrip
<1>3. (IF n < T THEN "put" ELSE "done") \in Op /\ "ToNorth" \in Dir
  BY DEF Op, Dir
<1> QED BY <1>1, <1>2, <1>3, GotoStep

LEMMA FillStep ==
  ASSUME TypeOK, NEW p \in PE, fills[p] # <<>> => fills[p] = <<FirstStrip>>, Fill(p)
  PROVE  /\ Others(p)
         /\ op[p] = "fill" /\ op'[p] = "copy" /\ fills'[p] = <<>>
         /\ \A b \in Buf : /\ own'[p][b] = IF b = "cur" THEN 0 ELSE own[p][b]
                           /\ cols'[p][b] = IF b = "cur" THEN 0 ELSE cols[p][b]
         /\ \A d \in Dir : ghost'[p]["cur"][d] = 0
         /\ UNCHANGED <<step, link, drains>>
<1>1. /\ op[p] = "fill" /\ fills[p] = <<FirstStrip>>
      /\ own' = [own EXCEPT ![p]["cur"] = Head(fills[p]).own]
      /\ ghost' = [ghost EXCEPT ![p]["cur"] = Head(fills[p]).ghost]
      /\ cols' = [cols EXCEPT ![p]["cur"] = Head(fills[p]).cols]
      /\ fills' = [fills EXCEPT ![p] = Tail(fills[p])]
      /\ Goto(p, "copy", "ToNorth")
      /\ UNCHANGED <<step, link, drains, seg, l3>>
  BY DEF Fill
<1>2. Head(fills[p]) = FirstStrip /\ Tail(fills[p]) = <<>>
  BY <1>1
<1>3. /\ own' = [own EXCEPT ![p]["cur"] = 0] /\ cols' = [cols EXCEPT ![p]["cur"] = 0]
      /\ ghost' = [ghost EXCEPT ![p]["cur"] = [d \in Dir |-> 0]]
      /\ fills' = [fills EXCEPT ![p] = <<>>]
  <2>1. FirstStrip.own = 0 /\ FirstStrip.ghost = [d \in Dir |-> 0] /\ FirstStrip.cols = 0
    BY DEF FirstStrip
  <2>2. /\ Head(fills[p]).own = 0 /\ Head(fills[p]).ghost = [d \in Dir |-> 0]
        /\ Head(fills[p]).cols = 0
    BY <1>2, <2>1
  <2> QED BY <1>1, <1>2, <2>2
<1>4. /\ own \in [PE -> [Buf -> Tag]] /\ cols \in [PE -> [Buf -> Tag]]
      /\ ghost \in [PE -> [Buf -> [Dir -> Tag]]] /\ fills \in [PE -> Seq(Strip)]
  BY DEF TypeOK
<1>5. /\ own' \in [PE -> [Buf -> Tag]] /\ cols' \in [PE -> [Buf -> Tag]]
      /\ \A q \in PE, b \in Buf : /\ own'[q][b] = IF q = p /\ b = "cur" THEN 0 ELSE own[q][b]
                                  /\ cols'[q][b] = IF q = p /\ b = "cur" THEN 0 ELSE cols[q][b]
  BY <1>3, <1>4, Members
<1>6. /\ ghost' \in [PE -> [Buf -> [Dir -> Tag]]]
      /\ \A d \in Dir : ghost'[p]["cur"][d] = 0
      /\ \A q \in PE : q # p => ghost'[q] = ghost[q]
  <2>1. [d \in Dir |-> 0] \in [Dir -> Tag]
    BY Members
  <2> QED BY <1>3, <1>4, <2>1, Members
<1>7. fills' \in [PE -> Seq(Strip)] /\ fills'[p] = <<>> /\ \A q \in PE : q # p => fills'[q] = fills[q]
  BY <1>3, <1>4
<1>8. /\ op' \in [PE -> Op] /\ dir' \in [PE -> Dir] /\ op'[p] = "copy"
      /\ \A q \in PE : q # p => op'[q] = op[q] /\ dir'[q] = dir[q]
  <2>1. "copy" \in Op
    BY DEF Op
  <2> QED BY <1>1, <2>1, GotoStep, Members
<1>9. TypeOK'
  BY <1>1, <1>5, <1>6, <1>7, <1>8 DEF TypeOK
<1> QED BY <1>1, <1>5, <1>6, <1>7, <1>8, <1>9 DEF Others, Same

LEMMA CopyStep ==
  ASSUME TypeOK, NEW p \in PE, Copy(p)
  PROVE  /\ Others(p)
         /\ op[p] = "copy" /\ op'[p] = (IF 0 < T THEN "put" ELSE "done") /\ dir'[p] = "ToNorth"
         /\ step'[p] = 0
         /\ \A b \in Buf : own'[p][b] = own[p]["cur"] /\ cols'[p][b] = cols[p]["cur"]
         /\ \A b \in Buf, d \in Dir : ghost'[p][b][d] = ghost[p]["cur"][d]
         /\ UNCHANGED fifos
<1>1. /\ op[p] = "copy" /\ EnterTrip(p, 0)
      /\ own' = [own EXCEPT ![p]["next"] = own[p]["cur"]]
      /\ ghost' = [ghost EXCEPT ![p]["next"] = ghost[p]["cur"]]
      /\ cols' = [cols EXCEPT ![p]["next"] = cols[p]["cur"]]
      /\ UNCHANGED <<fifos, seg, l3>>
  BY DEF Copy
<1>2. /\ own \in [PE -> [Buf -> Tag]] /\ cols \in [PE -> [Buf -> Tag]]
      /\ ghost \in [PE -> [Buf -> [Dir -> Tag]]]
  BY DEF TypeOK
<1>3. /\ own' \in [PE -> [Buf -> Tag]] /\ cols' \in [PE -> [Buf -> Tag]]
      /\ \A b \in Buf : own'[p][b] = own[p]["cur"] /\ cols'[p][b] = cols[p]["cur"]
      /\ \A q \in PE : q # p => own'[q] = own[q] /\ cols'[q] = cols[q]
  BY <1>1, <1>2, Members DEF Buf
<1>4. /\ ghost' \in [PE -> [Buf -> [Dir -> Tag]]]
      /\ \A b \in Buf : ghost'[p][b] = ghost[p]["cur"]
      /\ \A q \in PE : q # p => ghost'[q] = ghost[q]
  <2>1. ghost[p]["cur"] \in [Dir -> Tag]
    BY <1>2, Members
  <2> QED BY <1>1, <1>2, <2>1, Members DEF Buf
<1>5. 0 \in 0 .. T
  OBVIOUS
<1>6. /\ op' \in [PE -> Op] /\ dir' \in [PE -> Dir] /\ step' \in [PE -> 0 .. T]
      /\ op'[p] = (IF 0 < T THEN "put" ELSE "done") /\ dir'[p] = "ToNorth" /\ step'[p] = 0
      /\ \A q \in PE : q # p => op'[q] = op[q] /\ dir'[q] = dir[q] /\ step'[q] = step[q]
  BY <1>1, <1>5, EnterStep
<1>7. TypeOK'
  BY <1>1, <1>3, <1>4, <1>6 DEF TypeOK, fifos
<1> QED BY <1>1, <1>3, <1>4, <1>6, <1>7 DEF Others, Same, fifos

LEMMA PutStep ==
  ASSUME TypeOK, NEW p \in PE, Put(p),
         PutGuard(p, dir[p]) =>
           Append(link[PutPeer(p, dir[p])][dir[p]], own[p][Source(step[p])]) \in Seq(Tag)
  PROVE  /\ Others(p)
         /\ op[p] = "put"
         /\ IF dir[p] = "ToNorth" THEN op'[p] = "put" /\ dir'[p] = "ToSouth"
                                  ELSE op'[p] = "get" /\ dir'[p] = "ToNorth"
         /\ PutGuard(p, dir[p]) =>
              link'[PutPeer(p, dir[p])][dir[p]] =
                Append(link[PutPeer(p, dir[p])][dir[p]], own[p][Source(step[p])])
         /\ \A q \in PE, e \in Dir : ~(PutGuard(p, dir[p]) /\ q = PutPeer(p, dir[p]) /\ e = dir[p])
                                       => link'[q][e] = link[q][e]
         /\ UNCHANGED <<step, strips, fills, drains>>
<1> DEFINE d == dir[p]
           v == own[p][Source(step[p])]
<1>1. /\ op[p] = "put" /\ AfterPut(p)
      /\ link' = IF PutGuard(p, d) THEN [link EXCEPT ![PutPeer(p, d)][d] = Append(@, v)] ELSE link
      /\ UNCHANGED <<step, strips, fills, drains, seg, l3>>
  BY DEF Put
<1>2. link \in [PE -> [Dir -> Seq(Tag)]] /\ d \in Dir
  BY DEF TypeOK
<1>3. /\ op' \in [PE -> Op] /\ dir' \in [PE -> Dir]
      /\ IF d = "ToNorth" THEN op'[p] = "put" /\ dir'[p] = "ToSouth"
                          ELSE op'[p] = "get" /\ dir'[p] = "ToNorth"
      /\ \A q \in PE : q # p => op'[q] = op[q] /\ dir'[q] = dir[q]
  <2>1. "put" \in Op /\ "get" \in Op
    BY DEF Op
  <2>2. CASE d = "ToNorth"
    <3>1. Goto(p, "put", "ToSouth")
      BY <1>1, <2>2 DEF AfterPut
    <3> QED BY <2>1, <2>2, <3>1, GotoStep, Members
  <2>3. CASE d # "ToNorth"
    <3>1. Goto(p, "get", "ToNorth")
      BY <1>1, <2>3 DEF AfterPut
    <3> QED BY <2>1, <2>3, <3>1, GotoStep, Members
  <2> QED BY <2>2, <2>3
<1>4. /\ link' \in [PE -> [Dir -> Seq(Tag)]]
      /\ PutGuard(p, d) => link'[PutPeer(p, d)][d] = Append(link[PutPeer(p, d)][d], v)
      /\ \A q \in PE, e \in Dir : ~(PutGuard(p, d) /\ q = PutPeer(p, d) /\ e = d)
                                    => link'[q][e] = link[q][e]
  <2>1. CASE PutGuard(p, d)
    <3> DEFINE r == PutPeer(p, d)
               w == Append(link[r][d], v)
    <3>1. r \in PE /\ w \in Seq(Tag)
      BY <1>2, <2>1, LinkEnds
    <3>2. link' = [link EXCEPT ![r][d] = w]
      BY <1>1, <2>1
    <3> HIDE DEF r, w, d
    <3>3. /\ link' \in [PE -> [Dir -> Seq(Tag)]] /\ link'[r][d] = w
          /\ \A q \in PE, e \in Dir : ~(q = r /\ e = d) => link'[q][e] = link[q][e]
      BY <1>2, <3>1, <3>2
    <3> QED BY <2>1, <3>3 DEF r, w
  <2>2. CASE ~PutGuard(p, d)
    BY <1>1, <1>2, <2>2
  <2> QED BY <2>1, <2>2
<1>5. TypeOK'
  BY <1>1, <1>3, <1>4 DEF TypeOK, strips
<1> QED BY <1>1, <1>3, <1>4, <1>5 DEF Others, Same, strips

LEMMA GetStep ==
  ASSUME TypeOK, NEW p \in PE, Get(p),
         GetGuard(p, dir[p]) => /\ Head(link[p][dir[p]]) \in Tag
                                /\ Tail(link[p][dir[p]]) \in Seq(Tag)
  PROVE  /\ Others(p)
         /\ op[p] = "get"
         /\ IF dir[p] = "ToNorth" THEN op'[p] = "get" /\ dir'[p] = "ToSouth"
                                  ELSE op'[p] = "update" /\ dir'[p] = "ToNorth"
         /\ GetGuard(p, dir[p]) => /\ link[p][dir[p]] # <<>>
                                   /\ link'[p][dir[p]] = Tail(link[p][dir[p]])
         /\ \A q \in PE, e \in Dir : ~(GetGuard(p, dir[p]) /\ q = p /\ e = dir[p])
                                       => link'[q][e] = link[q][e]
         /\ \A b \in Buf, e \in Dir :
              ghost'[p][b][e] = IF GetGuard(p, dir[p]) /\ b = Source(step[p]) /\ e = dir[p]
                                THEN Head(link[p][dir[p]]) ELSE ghost[p][b][e]
         /\ UNCHANGED <<step, own, cols, fills, drains>>
<1> DEFINE d == dir[p]
           s == Source(step[p])
           v == Head(link[p][d])
           w == Tail(link[p][d])
<1>1. /\ op[p] = "get" /\ AfterGet(p)
      /\ IF GetGuard(p, d)
         THEN /\ link[p][d] # <<>> /\ ghost' = [ghost EXCEPT ![p][s][d] = v]
              /\ link' = [link EXCEPT ![p][d] = w]
         ELSE UNCHANGED <<ghost, link>>
      /\ UNCHANGED <<step, own, cols, fills, drains, seg, l3>>
  BY DEF Get
<1>2. /\ link \in [PE -> [Dir -> Seq(Tag)]] /\ ghost \in [PE -> [Buf -> [Dir -> Tag]]]
      /\ d \in Dir /\ s \in Buf
  BY BufType DEF TypeOK
<1>3. /\ op' \in [PE -> Op] /\ dir' \in [PE -> Dir]
      /\ IF d = "ToNorth" THEN op'[p] = "get" /\ dir'[p] = "ToSouth"
                          ELSE op'[p] = "update" /\ dir'[p] = "ToNorth"
      /\ \A q \in PE : q # p => op'[q] = op[q] /\ dir'[q] = dir[q]
  <2>1. "get" \in Op /\ "update" \in Op
    BY DEF Op
  <2>2. CASE d = "ToNorth"
    <3>1. Goto(p, "get", "ToSouth")
      BY <1>1, <2>2 DEF AfterGet
    <3> QED BY <2>1, <2>2, <3>1, GotoStep, Members
  <2>3. CASE d # "ToNorth"
    <3>1. Goto(p, "update", "ToNorth")
      BY <1>1, <2>3 DEF AfterGet
    <3> QED BY <2>1, <2>3, <3>1, GotoStep, Members
  <2> QED BY <2>2, <2>3
<1>4. /\ link' \in [PE -> [Dir -> Seq(Tag)]] /\ ghost' \in [PE -> [Buf -> [Dir -> Tag]]]
      /\ GetGuard(p, d) => link[p][d] # <<>> /\ link'[p][d] = w
      /\ \A q \in PE, e \in Dir : ~(GetGuard(p, d) /\ q = p /\ e = d) => link'[q][e] = link[q][e]
      /\ \A q \in PE, b \in Buf, e \in Dir :
           ghost'[q][b][e] = IF GetGuard(p, d) /\ q = p /\ b = s /\ e = d THEN v ELSE ghost[q][b][e]
  <2>1. CASE GetGuard(p, d)
    <3>1. /\ ghost' = [ghost EXCEPT ![p][s][d] = v] /\ link' = [link EXCEPT ![p][d] = w]
          /\ v \in Tag /\ w \in Seq(Tag) /\ link[p][d] # <<>>
      BY <1>1, <2>1
    <3> HIDE DEF d, s, v, w
    <3>2. /\ link' \in [PE -> [Dir -> Seq(Tag)]] /\ link'[p][d] = w
          /\ \A q \in PE, e \in Dir : ~(q = p /\ e = d) => link'[q][e] = link[q][e]
      BY <1>2, <3>1
    <3>3. /\ ghost' \in [PE -> [Buf -> [Dir -> Tag]]]
          /\ \A q \in PE, b \in Buf, e \in Dir :
               ghost'[q][b][e] = IF q = p /\ b = s /\ e = d THEN v ELSE ghost[q][b][e]
      BY <1>2, <3>1
    <3> QED BY <2>1, <3>1, <3>2, <3>3
  <2>2. CASE ~GetGuard(p, d)
    BY <1>1, <1>2, <2>2
  <2> QED BY <2>1, <2>2
<1>5. TypeOK'
  BY <1>1, <1>3, <1>4 DEF TypeOK
<1> QED BY <1>1, <1>3, <1>4, <1>5 DEF Others, Same

LEMMA UpdateStep ==
  ASSUME TypeOK, NEW p \in PE, CtlOK(p), Update(p)
  PROVE  LET n == step[p]
             s == Source(n)
         IN
         /\ Others(p)
         /\ op[p] = "update" /\ op'[p] = "drain"
         /\ \A b \in Buf : own'[p][b] = IF b = Destination(n)
                                        THEN Updated(p, n, own[p][s], ghost[p][s], cols[p][s])
                                        ELSE own[p][b]
         /\ UNCHANGED <<step, ghost, cols, fifos>>
<1> DEFINE n == step[p]
           s == Source(n)
           t == Destination(n)
           v == Updated(p, n, own[p][s], ghost[p][s], cols[p][s])
<1>1. /\ op[p] = "update" /\ own' = [own EXCEPT ![p][t] = v] /\ Goto(p, "drain", "ToNorth")
      /\ UNCHANGED <<step, ghost, cols, fifos, seg, l3>>
  BY DEF Update
<1>2. own \in [PE -> [Buf -> Tag]] /\ n \in 0 .. T
  BY DEF TypeOK
<1>3. t \in Buf /\ v \in Tag
  <2>1. n + 1 \in 0 .. T
    BY <1>1, <1>2 DEF CtlOK
  <2> QED BY <1>2, <2>1, BufType, Members DEF Updated
<1> HIDE DEF t, v
<1>4. /\ own' \in [PE -> [Buf -> Tag]]
      /\ \A q \in PE, b \in Buf : own'[q][b] = IF q = p /\ b = t THEN v ELSE own[q][b]
  BY <1>1, <1>2, <1>3
<1>5. /\ op' \in [PE -> Op] /\ dir' \in [PE -> Dir] /\ op'[p] = "drain"
      /\ \A q \in PE : q # p => op'[q] = op[q] /\ dir'[q] = dir[q]
  <2>1. "drain" \in Op
    BY DEF Op
  <2> QED BY <1>1, <2>1, GotoStep, Members
<1>6. TypeOK'
  BY <1>1, <1>4, <1>5 DEF TypeOK, fifos
<1> QED BY <1>1, <1>4, <1>5, <1>6 DEF Others, Same, fifos, t, v

LEMMA DrainStep ==
  ASSUME TypeOK, NEW p \in PE, CtlOK(p), Drain(p),
         cols[p][Destination(step[p])] = 0,
         Append(drains[p], own[p][Destination(step[p])]) \in Seq(Tag)
  PROVE  /\ Others(p)
         /\ op[p] = "drain" /\ op'[p] = (IF step[p] + 1 < T THEN "put" ELSE "done")
         /\ dir'[p] = "ToNorth" /\ step'[p] = step[p] + 1
         /\ drains'[p] = Append(drains[p], own[p][Destination(step[p])])
         /\ UNCHANGED <<strips, link, fills>>
<1> DEFINE v == own[p][Destination(step[p])]
           m == step[p] + 1
<1>1. /\ op[p] = "drain" /\ EnterTrip(p, m)
      /\ drains' = [drains EXCEPT ![p] = Append(drains[p], v)]
      /\ UNCHANGED <<strips, link, fills, seg, l3>>
  BY DEF Drain
<1>2. m \in 0 .. T
  <2>1. step[p] \in 0 .. T
    BY DEF TypeOK
  <2> QED BY <1>1, <2>1 DEF CtlOK
<1>3. drains \in [PE -> Seq(Tag)]
  BY DEF TypeOK
<1> HIDE DEF m
<1>4. /\ op' \in [PE -> Op] /\ dir' \in [PE -> Dir] /\ step' \in [PE -> 0 .. T]
      /\ op'[p] = (IF m < T THEN "put" ELSE "done") /\ dir'[p] = "ToNorth" /\ step'[p] = m
      /\ \A q \in PE : q # p => op'[q] = op[q] /\ dir'[q] = dir[q] /\ step'[q] = step[q]
  BY <1>1, <1>2, EnterStep
<1> HIDE DEF v
<1>5. drains' \in [PE -> Seq(Tag)] /\ drains'[p] = Append(drains[p], v)
      /\ \A q \in PE : q # p => drains'[q] = drains[q]
  BY <1>1, <1>3 DEF v
<1>6. TypeOK'
  BY <1>1, <1>4, <1>5 DEF TypeOK, strips
<1> QED BY <1>1, <1>4, <1>5, <1>6 DEF Others, Same, strips, v, m

-----------------------------------------------------------------------------
(* The invariant holds initially.                                           *)

LEMMA InitInv == Init => IInv
<1> SUFFICES ASSUME Init PROVE IInv
  OBVIOUS
<1> USE DEF Init
<1>1. TypeOK
  <2>1. 0 \in PE /\ 0 \in 0 .. T
    BY Places
  <2>2. /\ op \in [PE -> Op] /\ dir \in [PE -> Dir] /\ step \in [PE -> 0 .. T]
        /\ own \in [PE -> [Buf -> Tag]] /\ cols \in [PE -> [Buf -> Tag]]
        /\ ghost \in [PE -> [Buf -> [Dir -> Tag]]]
    BY <2>1, Members DEF Op
  <2>3. link \in [PE -> [Dir -> Seq(Tag)]] /\ fills \in [PE -> Seq(Strip)] /\ drains \in [PE -> Seq(Tag)]
    OBVIOUS
  <2>4. seg \in [op : SegOp, pe : PE, plane : 0 .. T] /\ l3 \in [PE -> [0 .. T -> Tag]]
    BY <2>1, Members DEF SegOp
  <2> QED BY <2>2, <2>3, <2>4 DEF TypeOK
<1>2. SegOK /\ \A p \in PE : CtlOK(p)
  BY DEF SegOK, CtlOK, Staging
<1>3. \A p \in PE : FillsOK(p)
  BY Places DEF FillsOK, Filled
<1>4. \A p \in PE : Stored(p) = 0 /\ \A d \in Dir : Puts(p, d) = 0 /\ Gets(p, d) = 0
  BY DEF Stored, Puts, Gets, PutOver, GetOver
<1>5. \A p \in PE : DrainsOK(p) /\ L3OK(p)
  BY <1>4 DEF DrainsOK, L3OK, Holds
<1>6. \A p \in PE, d \in Dir : LinkOK(p, d)
  BY <1>4, LinkEnds DEF LinkOK, Holds
<1>7. \A p \in PE : StripOK(p)
  BY DEF StripOK, Computed, Staging, Junk
<1> QED BY <1>1, <1>2, <1>3, <1>5, <1>6, <1>7 DEF IInv

-----------------------------------------------------------------------------
(* A step of a PE keeps the invariant if it keeps the PE's part of it and    *)
(* what it has put for its neighbours.                                      *)

\* What another PE keeps while p steps.
LEMMA OthersKeep ==
  ASSUME IInv, NEW p \in PE, Others(p), NEW q \in PE, q # p
  PROVE  /\ CtlOK(q)' /\ FillsOK(q)' /\ DrainsOK(q)' /\ StripOK(q)'
         /\ \A d \in Dir : Puts(q, d)' = Puts(q, d) /\ Gets(q, d)' = Gets(q, d)
<1>1. Same(q) /\ seg' = seg /\ CtlOK(q) /\ FillsOK(q) /\ DrainsOK(q) /\ StripOK(q)
  BY Parts DEF Others
<1>2. CtlOK(q)'
  BY <1>1 DEF Same, CtlOK, Staging
<1>3. FillsOK(q)' /\ DrainsOK(q)'
  BY <1>1 DEF Same, FillsOK, Filled, DrainsOK, Stored
<1>4. /\ GetOver(q, "ToNorth")' = GetOver(q, "ToNorth") /\ GetOver(q, "ToSouth")' = GetOver(q, "ToSouth")
      /\ \A d \in Dir : Puts(q, d)' = Puts(q, d) /\ Gets(q, d)' = Gets(q, d)
  BY <1>1 DEF Same, Puts, Gets, PutOver, GetOver
<1>5. StripOK(q)'
  <2>1. step[q] \in Nat
    BY Parts
  <2>2. /\ op'[q] = op[q] /\ step'[q] = step[q]
        /\ Computed(q)' = Computed(q) /\ Staging(q)' = Staging(q)
        /\ \A d \in Dir : GetOver(q, d)' = GetOver(q, d)
        /\ \A b \in Buf : own'[q][b] = own[q][b] /\ cols'[q][b] = cols[q][b]
        /\ \A b \in Buf, d \in Dir : ghost'[q][b][d] = ghost[q][b][d]
    BY <1>1 DEF Same, Computed, Staging, GetOver
  <2>3. Source(step[q]) \in Buf /\ Destination(step[q]) \in Buf /\ "cur" \in Buf
    BY <2>1, BufType, Members
  <2> HIDE <1>4
  <2> QED BY <1>1, <2>2, <2>3 DEF StripOK
<1> QED BY <1>2, <1>3, <1>4, <1>5

LEMMA HerdKeeps ==
  ASSUME IInv, NEW p \in PE, Others(p),
         CtlOK(p)', FillsOK(p)', DrainsOK(p)', StripOK(p)',
         \A d \in Dir : LinkOK(p, d)',
         \A d \in Dir : PutGuard(p, d) => LinkOK(PutPeer(p, d), d)',
         \A q \in PE, d \in Dir : q # p /\ ~(PutGuard(p, d) /\ q = PutPeer(p, d))
                                    => link'[q][d] = link[q][d]
  PROVE  IInv'
<1>1. TypeOK' /\ seg' = seg /\ l3' = l3
  BY DEF Others
<1>2. ASSUME NEW q \in PE, NEW d \in Dir, q # p PROVE LinkOK(q, d)'
  <2>1. CASE PutGuard(p, d) /\ q = PutPeer(p, d)
    BY <2>1
  <2>2. CASE ~(PutGuard(p, d) /\ q = PutPeer(p, d))
    <3>1. link'[q][d] = link[q][d] /\ LinkOK(q, d)
      BY <1>2, <2>2, Parts
    <3>2. GetGuard(q, d) => GetPeer(q, d) \in PE /\ GetPeer(q, d) # p
      BY <2>2, LinkEnds
    <3>3. Gets(q, d)' = Gets(q, d) /\ (GetGuard(q, d) => Puts(GetPeer(q, d), d)' = Puts(GetPeer(q, d), d))
      BY <1>2, <3>2, OthersKeep
    <3> QED BY <3>1, <3>3 DEF LinkOK
  <2> QED BY <2>1, <2>2
<1>3. SegOK' /\ \A q \in PE : L3OK(q)'
  BY <1>1, Parts DEF SegOK, L3OK, Stored
<1>4. \A q \in PE : CtlOK(q)' /\ FillsOK(q)' /\ DrainsOK(q)' /\ StripOK(q)'
  BY OthersKeep
<1> QED BY <1>1, <1>2, <1>3, <1>4 DEF IInv

\* What the far ends have put, and what the segment has done for p.
LEMMA QuietEnds ==
  ASSUME IInv, NEW p \in PE, Others(p)
  PROVE  /\ \A d \in Dir : GetGuard(p, d) => Puts(GetPeer(p, d), d)' = Puts(GetPeer(p, d), d)
         /\ Stored(p)' = Stored(p) /\ Filled(p)' = Filled(p) /\ seg' = seg
<1>1. seg' = seg
  BY DEF Others
<1>2. \A d \in Dir : GetGuard(p, d) => Puts(GetPeer(p, d), d)' = Puts(GetPeer(p, d), d)
  BY LinkEnds, OthersKeep
<1> QED BY <1>1, <1>2 DEF Stored, Filled

\* A step that gets nothing leaves p's own links; one that puts nothing leaves
\* those of its neighbours.
LEMMA QuietGets ==
  ASSUME IInv, NEW p \in PE, Others(p),
         \A d \in Dir : link'[p][d] = link[p][d] /\ Gets(p, d)' = Gets(p, d)
  PROVE  \A d \in Dir : LinkOK(p, d)'
BY QuietEnds, Parts DEF LinkOK

LEMMA QuietPuts ==
  ASSUME IInv, NEW p \in PE, Others(p), \A d \in Dir : Puts(p, d)' = Puts(p, d),
         \A q \in PE, d \in Dir : q # p => link'[q][d] = link[q][d]
  PROVE  \A d \in Dir : PutGuard(p, d) => LinkOK(PutPeer(p, d), d)'
<1> SUFFICES ASSUME NEW d \in Dir, PutGuard(p, d) PROVE LinkOK(PutPeer(p, d), d)'
  OBVIOUS
<1> DEFINE q == PutPeer(p, d)
<1>1. q \in PE /\ q # p /\ GetGuard(q, d) /\ GetPeer(q, d) = p
  BY LinkEnds
<1>2. LinkOK(q, d) /\ Gets(q, d)' = Gets(q, d) /\ link'[q][d] = link[q][d]
  BY <1>1, OthersKeep, Parts
<1> HIDE DEF q
<1>3. LinkOK(q, d)'
  BY <1>1, <1>2 DEF LinkOK
<1> QED BY <1>3 DEF q

LEMMA FillInv == ASSUME IInv, NEW p \in PE, Fill(p) PROVE IInv'
<1>1. /\ Others(p) /\ op[p] = "fill" /\ op'[p] = "copy" /\ fills'[p] = <<>>
      /\ \A b \in Buf : /\ own'[p][b] = IF b = "cur" THEN 0 ELSE own[p][b]
                        /\ cols'[p][b] = IF b = "cur" THEN 0 ELSE cols[p][b]
      /\ \A d \in Dir : ghost'[p]["cur"][d] = 0
      /\ UNCHANGED <<step, link, drains>>
  <2>1. fills[p] # <<>> => fills[p] = <<FirstStrip>>
    BY Parts DEF FillsOK
  <2> QED BY <2>1, FillStep, Parts
<1>2. /\ CtlOK(p) /\ FillsOK(p) /\ DrainsOK(p) /\ StripOK(p) /\ fills[p] # <<>>
      /\ Stored(p)' = Stored(p) /\ Filled(p)' = Filled(p)
  BY <1>1, Parts, QuietEnds DEF Fill
<1>3. CtlOK(p)' /\ FillsOK(p)' /\ DrainsOK(p)'
  BY <1>1, <1>2 DEF CtlOK, FillsOK, DrainsOK, Staging
<1>4. StripOK(p)'
  <2>1. Computed(p) = 0 /\ Computed(p)' = 0
    BY <1>1, <1>2 DEF CtlOK, Staging, Computed
  <2>2. \A b \in Buf : own[p][b] <= 0
    BY <1>2, <2>1 DEF StripOK
  <2>3. own'[p]["cur"] = 0 /\ cols'[p]["cur"] = 0 /\ \A b \in Buf : own'[p][b] <= 0
    BY <1>1, <2>2, Members
  <2>4. Staging(p)' /\ op'[p] = "copy"
    BY <1>1 DEF Staging
  <2> QED BY <1>1, <2>1, <2>3, <2>4, Members DEF StripOK
<1>5. \A d \in Dir : Puts(p, d)' = Puts(p, d) /\ Gets(p, d)' = Gets(p, d)
  BY <1>1 DEF Puts, Gets, PutOver, GetOver
<1> QED BY <1>1, <1>3, <1>4, <1>5, HerdKeeps, QuietGets, QuietPuts

LEMMA CopyInv == ASSUME IInv, NEW p \in PE, Copy(p) PROVE IInv'
<1>1. /\ Others(p) /\ op[p] = "copy" /\ op'[p] = (IF 0 < T THEN "put" ELSE "done")
      /\ dir'[p] = "ToNorth" /\ step'[p] = 0
      /\ \A b \in Buf : own'[p][b] = own[p]["cur"] /\ cols'[p][b] = cols[p]["cur"]
      /\ \A b \in Buf, d \in Dir : ghost'[p][b][d] = ghost[p]["cur"][d]
      /\ UNCHANGED fifos
  BY CopyStep, Parts
<1>2. /\ CtlOK(p) /\ FillsOK(p) /\ DrainsOK(p) /\ StripOK(p) /\ step[p] = 0
      /\ Stored(p)' = Stored(p) /\ Filled(p)' = Filled(p)
  BY <1>1, Parts, QuietEnds DEF CtlOK, Staging
<1>3. CtlOK(p)' /\ FillsOK(p)' /\ DrainsOK(p)'
  BY <1>1, <1>2 DEF CtlOK, FillsOK, DrainsOK, Staging, fifos
<1>4. StripOK(p)'
  <2>1. Computed(p)' = 0 /\ op'[p] \in {"put", "done"} /\ ~Staging(p)'
        /\ \A d \in Dir : ~GetOver(p, d)'
    BY <1>1 DEF Computed, Staging, GetOver
  <2>2. own[p]["cur"] = 0 /\ cols[p]["cur"] = 0 /\ \A d \in Dir : ghost[p]["cur"][d] = 0
    BY <1>1, <1>2 DEF StripOK
  <2>3. /\ \A b \in Buf : own'[p][b] = 0 /\ cols'[p][b] = 0
        /\ \A b \in Buf, d \in Dir : ghost'[p][b][d] = 0
    BY <1>1, <2>2
  <2>4. Source(0) \in Buf
    BY BufType
  <2> QED BY <1>1, <2>1, <2>3, <2>4, Members DEF StripOK
<1>5. \A d \in Dir : Puts(p, d)' = Puts(p, d) /\ Gets(p, d)' = Gets(p, d)
  BY <1>1, <1>2 DEF Puts, Gets, PutOver, GetOver
<1>6. link' = link
  BY <1>1 DEF fifos
<1> QED BY <1>1, <1>3, <1>4, <1>5, <1>6, HerdKeeps, QuietGets, QuietPuts

LEMMA PutInv == ASSUME IInv, NEW p \in PE, Put(p) PROVE IInv'
<1> DEFINE d == dir[p]
           q == PutPeer(p, d)
           v == own[p][Source(step[p])]
<1>0. /\ op[p] = "put" /\ CtlOK(p) /\ FillsOK(p) /\ DrainsOK(p) /\ StripOK(p) /\ d \in Dir
      /\ step[p] \in Nat /\ v = step[p] /\ v \in Tag
      /\ Puts(p, d) = step[p]
  <2>1. op[p] = "put" /\ CtlOK(p) /\ FillsOK(p) /\ DrainsOK(p) /\ StripOK(p) /\ d \in Dir
        /\ step[p] \in Nat /\ v \in Tag
    BY Parts, BufType DEF Put
  <2>2. v = step[p]
    BY <2>1 DEF StripOK, Staging
  <2>3. ~PutOver(p, d)
    BY <2>1 DEF PutOver
  <2> QED BY <2>1, <2>2, <2>3 DEF Puts
<1>1. PutGuard(p, d) => /\ q \in PE /\ q # p /\ GetGuard(q, d) /\ GetPeer(q, d) = p
                        /\ Append(link[q][d], v) \in Seq(Tag)
                        /\ Holds(Append(link[q][d], v), Gets(q, d), step[p] + 1)
  <2> SUFFICES ASSUME PutGuard(p, d)
               PROVE  /\ q \in PE /\ q # p /\ GetGuard(q, d) /\ GetPeer(q, d) = p
                      /\ Append(link[q][d], v) \in Seq(Tag)
                      /\ Holds(Append(link[q][d], v), Gets(q, d), step[p] + 1)
    OBVIOUS
  <2>1. q \in PE /\ q # p /\ GetGuard(q, d) /\ GetPeer(q, d) = p
    BY <1>0, LinkEnds
  <2>2. LinkOK(q, d) /\ Gets(q, d) \in Int /\ link[q][d] \in Seq(Tag)
    BY <1>0, <2>1, Parts, EndTypes
  <2> HIDE DEF d, q, v
  <2>3. Holds(link[q][d], Gets(q, d), step[p])
    BY <1>0, <2>1, <2>2 DEF LinkOK
  <2> QED BY <1>0, <2>1, <2>2, <2>3, HoldsAppend
<1>2. /\ Others(p)
      /\ IF d = "ToNorth" THEN op'[p] = "put" /\ dir'[p] = "ToSouth"
                          ELSE op'[p] = "get" /\ dir'[p] = "ToNorth"
      /\ PutGuard(p, d) => link'[q][d] = Append(link[q][d], v)
      /\ \A r \in PE, e \in Dir : ~(PutGuard(p, d) /\ r = q /\ e = d) => link'[r][e] = link[r][e]
      /\ UNCHANGED <<step, strips, fills, drains>>
  BY <1>1, PutStep, Parts
<1>3. Stored(p)' = Stored(p) /\ Filled(p)' = Filled(p)
  BY <1>2, QuietEnds
<1>4. CtlOK(p)' /\ FillsOK(p)' /\ DrainsOK(p)'
  BY <1>0, <1>2, <1>3 DEF CtlOK, FillsOK, DrainsOK, Staging
<1>5. StripOK(p)'
  <2>1. /\ op'[p] \in {"put", "get"} /\ Computed(p)' = Computed(p) /\ ~Staging(p)' /\ ~Staging(p)
        /\ \A e \in Dir : ~GetOver(p, e)'
    BY <1>0, <1>2 DEF Computed, Staging, GetOver
  <2> HIDE DEF d, q, v
  <2> QED BY <1>0, <1>2, <2>1 DEF StripOK, strips
<1>6. /\ \A e \in Dir : Puts(p, e)' = IF e = d THEN step[p] + 1 ELSE Puts(p, e)
      /\ \A e \in Dir : Gets(p, e)' = Gets(p, e)
  BY <1>0, <1>2 DEF Puts, Gets, PutOver, GetOver, Dir
<1>7. \A e \in Dir : LinkOK(p, e)'
  BY <1>1, <1>2, <1>6, QuietGets
<1>8. ASSUME NEW e \in Dir, PutGuard(p, e) PROVE LinkOK(PutPeer(p, e), e)'
  <2> DEFINE r == PutPeer(p, e)
  <2>1. r \in PE /\ r # p /\ GetGuard(r, e) /\ GetPeer(r, e) = p
    BY <1>8, LinkEnds
  <2>2. Gets(r, e)' = Gets(r, e) /\ LinkOK(r, e)
    BY <1>2, <2>1, OthersKeep, Parts
  <2>3. CASE e = d
    <3>1. /\ link'[r][e] = Append(link[r][e], v) /\ Puts(p, e)' = step[p] + 1
          /\ Holds(Append(link[r][e], v), Gets(r, e), step[p] + 1)
      BY <1>1, <1>2, <1>6, <1>8, <2>3
    <3> HIDE DEF d, q, r, v
    <3>2. Holds(link'[r][e], Gets(r, e)', Puts(p, e)')
      BY <2>2, <3>1
    <3>3. LinkOK(r, e)'
      BY <2>1, <3>2 DEF LinkOK
    <3> QED BY <3>3 DEF r
  <2>4. CASE e # d
    <3>1. Puts(p, e)' = Puts(p, e) /\ link'[r][e] = link[r][e]
      BY <1>2, <1>6, <2>1, <2>4
    <3> HIDE DEF d, q, r, v
    <3>2. LinkOK(r, e)'
      BY <2>1, <2>2, <3>1 DEF LinkOK
    <3> QED BY <3>2 DEF r
  <2> QED BY <2>3, <2>4
<1>9. \A r \in PE, e \in Dir : r # p /\ ~(PutGuard(p, e) /\ r = PutPeer(p, e)) => link'[r][e] = link[r][e]
  BY <1>2
<1> QED BY <1>2, <1>4, <1>5, <1>7, <1>8, <1>9, HerdKeeps

LEMMA GetInv == ASSUME IInv, NEW p \in PE, Get(p) PROVE IInv'
<1> DEFINE d == dir[p]
           n == step[p]
<1>0. /\ op[p] = "get" /\ CtlOK(p) /\ FillsOK(p) /\ DrainsOK(p) /\ StripOK(p) /\ d \in Dir
      /\ n \in Nat /\ Gets(p, d) = n /\ Source(n) \in Buf
  <2>1. op[p] = "get" /\ CtlOK(p) /\ FillsOK(p) /\ DrainsOK(p) /\ StripOK(p) /\ d \in Dir /\ n \in Nat
    BY Parts DEF Get
  <2>2. ~GetOver(p, d)
    BY <2>1 DEF GetOver
  <2> QED BY <2>1, <2>2, BufType DEF Gets
<1>1. GetGuard(p, d) => /\ Head(link[p][d]) = n /\ n \in Tag /\ Tail(link[p][d]) \in Seq(Tag)
                        /\ Holds(Tail(link[p][d]), n + 1, Puts(GetPeer(p, d), d))
  <2> SUFFICES ASSUME GetGuard(p, d)
               PROVE  /\ Head(link[p][d]) = n /\ n \in Tag /\ Tail(link[p][d]) \in Seq(Tag)
                      /\ Holds(Tail(link[p][d]), n + 1, Puts(GetPeer(p, d), d))
    OBVIOUS
  <2>1. LinkOK(p, d) /\ link[p][d] \in Seq(Tag) /\ link[p][d] # <<>>
    BY <1>0, Parts DEF Get
  <2>2. Puts(GetPeer(p, d), d) \in Int
    BY <1>0, LinkEnds, EndTypes
  <2>3. Holds(link[p][d], n, Puts(GetPeer(p, d), d))
    BY <1>0, <2>1 DEF LinkOK
  <2> HIDE DEF d, n
  <2> QED BY <1>0, <2>1, <2>2, <2>3, HoldsTail
<1>2. /\ Others(p)
      /\ IF d = "ToNorth" THEN op'[p] = "get" /\ dir'[p] = "ToSouth"
                          ELSE op'[p] = "update" /\ dir'[p] = "ToNorth"
      /\ GetGuard(p, d) => link'[p][d] = Tail(link[p][d])
      /\ \A q \in PE, e \in Dir : ~(GetGuard(p, d) /\ q = p /\ e = d) => link'[q][e] = link[q][e]
      /\ \A b \in Buf, e \in Dir :
           ghost'[p][b][e] = IF GetGuard(p, d) /\ b = Source(n) /\ e = d
                             THEN Head(link[p][d]) ELSE ghost[p][b][e]
      /\ UNCHANGED <<step, own, cols, fills, drains>>
  BY <1>1, GetStep, Parts
<1>3. /\ Stored(p)' = Stored(p) /\ Filled(p)' = Filled(p)
      /\ \A e \in Dir : GetGuard(p, e) => Puts(GetPeer(p, e), e)' = Puts(GetPeer(p, e), e)
  BY <1>2, QuietEnds
<1>4. CtlOK(p)' /\ FillsOK(p)' /\ DrainsOK(p)'
  BY <1>0, <1>2, <1>3 DEF CtlOK, FillsOK, DrainsOK, Staging
<1>5. /\ \A e \in Dir : GetOver(p, e)' <=> GetOver(p, e) \/ e = d
      /\ \A e \in Dir : Gets(p, e)' = IF e = d THEN n + 1 ELSE Gets(p, e)
      /\ \A e \in Dir : Puts(p, e)' = Puts(p, e)
  BY <1>0, <1>2 DEF Puts, Gets, PutOver, GetOver, Dir
<1>6. StripOK(p)'
  <2>1. /\ op'[p] \in {"get", "update"} /\ Computed(p)' = Computed(p) /\ ~Staging(p)' /\ ~Staging(p)
        /\ step'[p] = n /\ op[p] = "get"
    BY <1>0, <1>2 DEF Computed, Staging
  <2>2. ASSUME NEW e \in Dir, GetGuard(p, e), GetOver(p, e)' PROVE ghost'[p][Source(n)][e] = n
    <3>1. CASE e = d
      BY <1>0, <1>1, <1>2, <2>2, <3>1
    <3>2. CASE e # d
      <4>1. GetOver(p, e)
        BY <1>5, <2>2, <3>2
      <4>2. ghost[p][Source(n)][e] = n
        BY <1>0, <2>1, <2>2, <4>1 DEF StripOK
      <4> QED BY <1>0, <1>2, <3>2, <4>2
    <3> QED BY <3>1, <3>2
  <2>3. \A b \in Buf, e \in Dir : ~GetGuard(p, e) => ghost'[p][b][e] = 0
    BY <1>0, <1>2, <2>1 DEF StripOK
  <2> HIDE DEF d, n
  <2>4. own' = own /\ cols' = cols
    BY <1>2
  <2> QED BY <1>0, <2>1, <2>2, <2>3, <2>4 DEF StripOK, n
<1>7. ASSUME NEW e \in Dir PROVE LinkOK(p, e)'
  <2>1. CASE e = d /\ GetGuard(p, d)
    <3>1. Holds(link'[p][e], Gets(p, e)', Puts(GetPeer(p, e), e)')
      BY <1>1, <1>2, <1>3, <1>5, <2>1
    <3> QED BY <2>1, <3>1 DEF LinkOK
  <2>2. CASE ~(e = d /\ GetGuard(p, d))
    <3>1. link'[p][e] = link[p][e] /\ LinkOK(p, e)
      BY <1>2, <2>2, Parts
    <3>2. GetGuard(p, e) => Gets(p, e)' = Gets(p, e)
      BY <1>5, <2>2
    <3> QED BY <1>3, <3>1, <3>2 DEF LinkOK
  <2> QED BY <2>1, <2>2
<1>8. \A q \in PE, e \in Dir : q # p => link'[q][e] = link[q][e]
  BY <1>2
<1> QED BY <1>2, <1>4, <1>5, <1>6, <1>7, <1>8, HerdKeeps, QuietPuts

LEMMA UpdateInv == ASSUME IInv, NEW p \in PE, Update(p) PROVE IInv'
<1> DEFINE n == step[p]
           s == Source(n)
           t == Destination(n)
<1>1. /\ Others(p) /\ op[p] = "update" /\ op'[p] = "drain"
      /\ \A b \in Buf : own'[p][b] = IF b = t THEN Updated(p, n, own[p][s], ghost[p][s], cols[p][s])
                                              ELSE own[p][b]
      /\ UNCHANGED <<step, ghost, cols, fifos>>
  BY UpdateStep, Parts
<1>2. /\ CtlOK(p) /\ FillsOK(p) /\ DrainsOK(p) /\ StripOK(p) /\ n \in Nat
      /\ s \in Buf /\ t \in Buf /\ s # t
      /\ Stored(p)' = Stored(p) /\ Filled(p)' = Filled(p)
  BY <1>1, Parts, BufType, QuietEnds
<1>3. Updated(p, n, own[p][s], ghost[p][s], cols[p][s]) = n + 1
  <2>1. ~Staging(p) /\ op[p] # "done" /\ \A d \in Dir : GetOver(p, d)
    BY <1>1 DEF Staging, GetOver
  <2>2. /\ own[p][s] = n /\ cols[p][s] = 0
        /\ \A d \in Dir : ghost[p][s][d] = IF GetGuard(p, d) THEN n ELSE 0
    BY <1>2, <2>1 DEF StripOK
  <2> HIDE DEF n, s, t
  <2> QED BY <2>2 DEF Updated, Fresh
<1>4. CtlOK(p)' /\ FillsOK(p)' /\ DrainsOK(p)'
  BY <1>1, <1>2 DEF CtlOK, FillsOK, DrainsOK, Staging, fifos
<1>5. \A d \in Dir : Puts(p, d)' = Puts(p, d) /\ Gets(p, d)' = Gets(p, d)
                     /\ GetOver(p, d) /\ GetOver(p, d)'
  BY <1>1 DEF Puts, Gets, PutOver, GetOver
<1>6. StripOK(p)'
  <2>1. Computed(p) = n /\ Computed(p)' = n + 1 /\ ~Staging(p)' /\ ~Staging(p)
    BY <1>1, <1>2 DEF Computed, Staging
  <2>2. \A b \in Buf : own'[p][b] = IF b = t THEN n + 1 ELSE own[p][b]
    BY <1>1, <1>3
  <2>3. \A b \in Buf : own'[p][b] <= n + 1
    <3>1. \A b \in Buf : own[p][b] \in Int /\ own[p][b] <= n
      BY <1>2, <2>1, Members, Parts DEF StripOK
    <3> QED BY <1>2, <2>2, <3>1
  <2>4. own'[p][s] = n /\ own'[p][t] = n + 1
    <3>1. own[p][s] = n
      BY <1>1, <1>2, <2>1 DEF StripOK
    <3> QED BY <1>2, <2>2, <3>1
  <2>5. step'[p] = n /\ ghost' = ghost /\ cols' = cols
    BY <1>1
  <2> HIDE DEF n, s, t
  <2>6. /\ \A b \in Buf : cols[p][b] = 0
        /\ \A b \in Buf : \A d \in Dir : ~GetGuard(p, d) => ghost[p][b][d] = 0
        /\ \A d \in Dir : GetGuard(p, d) => ghost[p][s][d] = n
    BY <1>2, <1>5, <2>1 DEF StripOK, n, s
  <2> QED BY <1>1, <1>2, <2>1, <2>3, <2>4, <2>5, <2>6 DEF StripOK, s, t
<1>7. link' = link
  BY <1>1 DEF fifos
<1> QED BY <1>1, <1>4, <1>5, <1>6, <1>7, HerdKeeps, QuietGets, QuietPuts

LEMMA DrainInv == ASSUME IInv, NEW p \in PE, Drain(p) PROVE IInv'
<1> DEFINE n == step[p]
           v == own[p][Destination(n)]
<1>0. /\ op[p] = "drain" /\ CtlOK(p) /\ FillsOK(p) /\ DrainsOK(p) /\ StripOK(p) /\ n \in Nat /\ n < T
      /\ Destination(n) \in Buf /\ v = n + 1 /\ v \in Tag /\ cols[p][Destination(n)] = 0
  <2>1. op[p] = "drain" /\ CtlOK(p) /\ FillsOK(p) /\ DrainsOK(p) /\ StripOK(p) /\ n \in Nat
        /\ Destination(n) \in Buf
    BY Parts, BufType DEF Drain
  <2>2. v \in Tag
    BY <2>1, Parts
  <2>3. v = n + 1 /\ cols[p][Destination(n)] = 0 /\ n < T
    BY <2>1 DEF StripOK, Staging, CtlOK
  <2> QED BY <2>1, <2>2, <2>3
<1>1. /\ Append(drains[p], v) \in Seq(Tag)
      /\ Holds(Append(drains[p], v), Stored(p) + 1, n + 2)
  <2>1. drains[p] \in Seq(Tag) /\ Stored(p) + 1 \in Int /\ Holds(drains[p], Stored(p) + 1, n + 1)
    BY <1>0, Parts, EndTypes DEF DrainsOK
  <2> HIDE DEF n, v
  <2>2. n + 1 \in Int /\ n + 1 \in Tag /\ n + 2 = (n + 1) + 1
    BY <1>0
  <2> QED BY <1>0, <2>1, <2>2, HoldsAppend
<1>2. /\ Others(p) /\ op'[p] = (IF n + 1 < T THEN "put" ELSE "done")
      /\ dir'[p] = "ToNorth" /\ step'[p] = n + 1
      /\ drains'[p] = Append(drains[p], v)
      /\ UNCHANGED <<strips, link, fills>>
  BY <1>0, <1>1, DrainStep, Parts
<1>3. Stored(p)' = Stored(p) /\ Filled(p)' = Filled(p)
  BY <1>2, QuietEnds
<1>4. CtlOK(p)' /\ FillsOK(p)'
  BY <1>0, <1>2, <1>3 DEF CtlOK, FillsOK, Staging
<1>5. DrainsOK(p)'
  <2>1. step'[p] + 1 = n + 2
    BY <1>0, <1>2
  <2> QED BY <1>1, <1>2, <1>3, <2>1 DEF DrainsOK
<1>6. \A d \in Dir : Puts(p, d)' = Puts(p, d) /\ Gets(p, d)' = Gets(p, d) /\ ~GetOver(p, d)'
  BY <1>0, <1>2 DEF Puts, Gets, PutOver, GetOver, Dir
<1>7. StripOK(p)'
  <2>1. /\ Computed(p) = n + 1 /\ Computed(p)' = n + 1 /\ ~Staging(p)' /\ ~Staging(p)
        /\ op'[p] \in {"put", "done"}
    BY <1>0, <1>2 DEF Computed, Staging
  <2>2. op'[p] # "done" => Source(n + 1) = Destination(n)
    BY <1>0, <1>2, SwapsEachTrip
  <2>3. own' = own /\ ghost' = ghost /\ cols' = cols /\ step'[p] = n + 1
    BY <1>2 DEF strips
  <2> HIDE DEF n
  <2> QED BY <1>0, <1>6, <2>1, <2>2, <2>3 DEF StripOK, v
<1>8. link' = link
  BY <1>2
<1> QED BY <1>2, <1>4, <1>5, <1>6, <1>7, <1>8, HerdKeeps, QuietGets, QuietPuts

-----------------------------------------------------------------------------
(* The segment.  Its steps touch no PE: what changes is what it has put and  *)
(* taken back.                                                              *)

LEMMA SegKeeps ==
  ASSUME IInv, TypeOK', SegOK', UNCHANGED <<ctl, strips, link>>,
         \A p \in PE : FillsOK(p)' /\ DrainsOK(p)' /\ L3OK(p)'
  PROVE  IInv'
<1>1. op' = op /\ dir' = dir /\ step' = step /\ own' = own /\ ghost' = ghost /\ cols' = cols /\ link' = link
  BY DEF ctl, strips
<1>2. \A p \in PE : CtlOK(p)'
  BY <1>1, Parts DEF CtlOK, Staging
<1>3. \A p \in PE : StripOK(p)'
  BY <1>1, Parts DEF StripOK, Staging, Computed, GetOver
<1>4. \A p \in PE, d \in Dir : LinkOK(p, d)'
  BY <1>1, Parts DEF LinkOK, Puts, Gets, PutOver, GetOver
<1> QED BY <1>2, <1>3, <1>4 DEF IInv

\* Where the drain bundle begins, and where it stands after a PE's last plane.
LEMMA NextDrainIs ==
  ASSUME NEW p \in PE \union {-1}
  PROVE  LET s == NextDrain(p) IN
         /\ s \in [op : SegOp, pe : PE, plane : 0 .. T] /\ s.plane = 0
         /\ p + 1 < PES /\ T > 0 => s.op = "drain" /\ s.pe = p + 1
         /\ ~(p + 1 < PES /\ T > 0) => s.op = "done"
BY Places DEF NextDrain, SegOp, PE

LEMMA SegFillInv == ASSUME IInv, SegFill PROVE IInv'
<1> DEFINE e == seg.pe
           s == [own   |-> l3[e][0],
                 ghost |-> [d \in Dir |-> IF GetGuard(e, d) THEN l3[GetPeer(e, d)][0] ELSE 0],
                 cols  |-> 0]
<1>1. /\ seg.op = "fill" /\ fills' = [fills EXCEPT ![e] = Append(fills[e], s)]
      /\ seg' = IF e + 1 < PES THEN [seg EXCEPT !.pe = e + 1] ELSE NextDrain(-1)
      /\ UNCHANGED <<ctl, strips, link, drains, l3>>
  BY DEF SegFill
<1>2. /\ e \in PE /\ e \in Nat /\ seg \in [op : SegOp, pe : PE, plane : 0 .. T] /\ seg.plane = 0
      /\ \A p \in PE : FillsOK(p) /\ DrainsOK(p) /\ L3OK(p) /\ Stored(p) = 0
      /\ fills[e] = <<>> /\ op[e] = "fill"
  <2>1. /\ e \in PE /\ e \in Nat /\ seg \in [op : SegOp, pe : PE, plane : 0 .. T] /\ seg.plane = 0
        /\ \A p \in PE : FillsOK(p) /\ DrainsOK(p) /\ L3OK(p)
    BY <1>1, Parts, Places DEF TypeOK, SegOK
  <2>2. ~Filled(e)
    BY <1>1, <2>1 DEF Filled
  <2>3. \A p \in PE : Stored(p) = 0
    BY <1>1 DEF Stored
  <2>4. FillsOK(e)
    BY <2>1
  <2> QED BY <2>1, <2>2, <2>3, <2>4 DEF FillsOK
<1>3. s = FirstStrip
  <2>1. \A p \in PE : l3[p][0] = 0
    BY <1>2 DEF L3OK
  <2>2. l3[e][0] = 0 /\ \A d \in Dir : (IF GetGuard(e, d) THEN l3[GetPeer(e, d)][0] ELSE 0) = 0
    BY <1>2, <2>1, LinkEnds
  <2> HIDE DEF e
  <2> QED BY <2>2 DEF FirstStrip
<1>4. FirstStrip \in Strip /\ Append(fills[e], s) = <<FirstStrip>> /\ <<FirstStrip>> \in Seq(Strip)
  <2>1. FirstStrip \in Strip
    BY Members DEF FirstStrip, Strip
  <2> HIDE DEF s, e
  <2> QED BY <1>2, <1>3, <2>1
<1> HIDE DEF s
<1>5. /\ fills' \in [PE -> Seq(Strip)] /\ fills'[e] = <<FirstStrip>>
      /\ \A p \in PE : p # e => fills'[p] = fills[p]
  <2>1. fills \in [PE -> Seq(Strip)]
    BY Parts DEF TypeOK
  <2>2. fills' = [fills EXCEPT ![e] = <<FirstStrip>>]
    BY <1>1, <1>4
  <2> HIDE DEF e
  <2> QED BY <1>2, <1>4, <2>1, <2>2
<1>6. /\ seg' \in [op : SegOp, pe : PE, plane : 0 .. T] /\ seg'.plane = 0
      /\ e + 1 < PES => seg'.op = "fill" /\ seg'.pe = e + 1
      /\ ~(e + 1 < PES) => /\ seg'.op # "fill"
                           /\ seg'.op = "drain" => seg'.pe = 0 /\ T > 0
  <2>1. CASE e + 1 < PES
    <3>1. seg' = [seg EXCEPT !.pe = e + 1] /\ e + 1 \in PE
      BY <1>1, <1>2, <2>1, Places
    <3> QED BY <1>1, <1>2, <2>1, <3>1
  <2>2. CASE ~(e + 1 < PES)
    <3>1. seg' = NextDrain(-1)
      BY <1>1, <2>2
    <3> QED BY <2>2, <3>1, NextDrainIs
  <2> QED BY <2>1, <2>2
<1>7. TypeOK' /\ SegOK'
  <2>1. SegOK'
    BY <1>6 DEF SegOK
  <2> QED BY <1>1, <1>5, <1>6, <2>1, Parts DEF TypeOK, ctl, strips
<1>8. \A p \in PE : (Filled(p)' <=> Filled(p) \/ p = e) /\ (p = e => ~Filled(p))
  BY <1>1, <1>2, <1>6, Places DEF Filled, PE
<1>9. ASSUME NEW p \in PE PROVE FillsOK(p)'
  <2>1. FillsOK(p) /\ op'[p] = op[p]
    BY <1>1, <1>2 DEF ctl
  <2>2. CASE p = e
    BY <1>2, <1>5, <1>8, <2>1, <2>2 DEF FillsOK
  <2>3. CASE p # e
    BY <1>5, <1>8, <2>1, <2>3 DEF FillsOK
  <2> QED BY <2>2, <2>3
<1>10. \A p \in PE : Stored(p)' = 0
  <2>1. CASE e + 1 < PES
    BY <1>6, <2>1 DEF Stored
  <2>2. CASE ~(e + 1 < PES) /\ T > 0
    <3>1. seg'.op = "drain" /\ seg'.pe = 0 /\ seg'.plane = 0
      BY <1>1, <2>2, NextDrainIs
    <3> QED BY <3>1, Places DEF Stored
  <2>3. CASE ~(e + 1 < PES) /\ ~(T > 0)
    <3>1. T = 0 /\ seg'.plane = 0
      BY <1>6, <2>3
    <3> QED BY <3>1 DEF Stored
  <2> QED BY <2>1, <2>2, <2>3
<1>11. \A p \in PE : DrainsOK(p)' /\ L3OK(p)'
  BY <1>1, <1>2, <1>10 DEF DrainsOK, L3OK, ctl
<1> QED BY <1>1, <1>7, <1>9, <1>11, SegKeeps

\* What SegDrain stores is the plane the place belongs to.
LEMMA TakeStep ==
  ASSUME IInv, SegDrain
  PROVE  LET p == seg.pe IN
         /\ p \in PE /\ Stored(p) = seg.plane /\ seg.plane \in Nat /\ seg.plane < T
         /\ Head(drains[p]) = seg.plane + 1 /\ seg.plane + 1 <= step[p]
         /\ Tail(drains[p]) \in Seq(Tag) /\ Holds(Tail(drains[p]), seg.plane + 2, step[p] + 1)
<1> DEFINE p == seg.pe
<1>1. /\ seg.op = "drain" /\ drains[p] # <<>> /\ p \in PE /\ p \in Nat
      /\ seg.plane \in Nat /\ seg.plane < T
  BY Parts, Places DEF SegDrain, SegOK
<1>2. Stored(p) = seg.plane
  BY <1>1 DEF Stored
<1>3. /\ DrainsOK(p) /\ drains[p] \in Seq(Tag) /\ step[p] \in Nat
  BY <1>1, Parts
<1> HIDE DEF p
<1>4. Holds(drains[p], seg.plane + 1, step[p] + 1)
  BY <1>2, <1>3 DEF DrainsOK
<1>5. seg.plane + 1 \in Int /\ step[p] + 1 \in Int /\ (seg.plane + 1) + 1 = seg.plane + 2
  BY <1>1, <1>3
<1>6. /\ Head(drains[p]) = seg.plane + 1 /\ seg.plane + 1 < step[p] + 1
      /\ Tail(drains[p]) \in Seq(Tag) /\ Holds(Tail(drains[p]), seg.plane + 2, step[p] + 1)
  BY <1>1, <1>3, <1>4, <1>5, HoldsTail
<1>7. seg.plane + 1 <= step[p]
  BY <1>1, <1>3, <1>6
<1> QED BY <1>1, <1>2, <1>6, <1>7 DEF p

\* Where SegDrain goes next, and what it leaves to be taken back.
LEMMA DrainCounts ==
  ASSUME IInv, SegDrain
  PROVE  /\ seg' \in [op : SegOp, pe : PE, plane : 0 .. T] /\ SegOK'
         /\ \A p \in PE : /\ Stored(p)' = IF p = seg.pe THEN seg.plane + 1 ELSE Stored(p)
                          /\ Filled(p) /\ Filled(p)'
<1> DEFINE e == seg.pe
<1>1. /\ seg.op = "drain"
      /\ seg' = IF seg.plane + 1 < T THEN [seg EXCEPT !.plane = seg.plane + 1] ELSE NextDrain(e)
  BY DEF SegDrain
<1>2. e \in PE /\ e \in Nat /\ seg.plane \in Nat /\ seg.plane < T
      /\ seg \in [op : SegOp, pe : PE, plane : 0 .. T]
  BY TakeStep, Places, Parts DEF TypeOK
<1>3. CASE seg.plane + 1 < T
  <2>1. /\ seg' \in [op : SegOp, pe : PE, plane : 0 .. T]
        /\ seg'.op = "drain" /\ seg'.pe = e /\ seg'.plane = seg.plane + 1
    BY <1>1, <1>2, <1>3
  <2> QED BY <1>1, <1>2, <1>3, <2>1, Places DEF Stored, Filled, SegOK
<1>4. CASE ~(seg.plane + 1 < T)
  <2>1. /\ seg' \in [op : SegOp, pe : PE, plane : 0 .. T] /\ seg'.plane = 0
        /\ seg.plane + 1 = T /\ T > 0
        /\ e + 1 < PES => seg'.op = "drain" /\ seg'.pe = e + 1
        /\ ~(e + 1 < PES) => seg'.op = "done"
    <3>1. seg' = NextDrain(e)
      BY <1>1, <1>4
    <3>2. seg.plane + 1 = T /\ T > 0
      BY <1>2, <1>4
    <3> QED BY <1>2, <3>1, <3>2, NextDrainIs
  <2>2. SegOK' /\ \A p \in PE : Filled(p) /\ Filled(p)'
    BY <1>1, <2>1 DEF SegOK, Filled
  <2>3. ASSUME NEW p \in PE PROVE Stored(p)' = IF p = e THEN seg.plane + 1 ELSE Stored(p)
    <3>1. p \in Nat /\ p < PES
      BY Places
    <3>2. CASE e + 1 < PES
      BY <1>1, <1>2, <2>1, <3>1, <3>2 DEF Stored
    <3>3. CASE ~(e + 1 < PES)
      BY <1>1, <1>2, <2>1, <3>1, <3>3, Places DEF Stored
    <3> QED BY <3>2, <3>3
  <2> QED BY <2>1, <2>2, <2>3
<1> QED BY <1>3, <1>4

LEMMA SegDrainInv == ASSUME IInv, SegDrain PROVE IInv'
<1> DEFINE e == seg.pe
           n == seg.plane + 1
<1>1. /\ l3' = [l3 EXCEPT ![e][n] = Head(drains[e])] /\ drains' = [drains EXCEPT ![e] = Tail(drains[e])]
      /\ UNCHANGED <<ctl, strips, link, fills>>
  BY DEF SegDrain
<1>2. /\ e \in PE /\ Head(drains[e]) = n /\ n \in 0 .. T /\ n \in Tag /\ Stored(e) = seg.plane
      /\ Tail(drains[e]) \in Seq(Tag) /\ Holds(Tail(drains[e]), n + 1, step[e] + 1)
      /\ seg.plane \in Nat /\ seg.plane < T
  <2>1. /\ e \in PE /\ Head(drains[e]) = n /\ Stored(e) = seg.plane /\ seg.plane \in Nat /\ seg.plane < T
        /\ Tail(drains[e]) \in Seq(Tag) /\ Holds(Tail(drains[e]), seg.plane + 2, step[e] + 1)
    BY TakeStep
  <2>2. n + 1 = seg.plane + 2 /\ n \in 0 .. T
    BY <2>1
  <2> HIDE DEF e, n
  <2> QED BY <2>1, <2>2, Members
<1>3. /\ seg' \in [op : SegOp, pe : PE, plane : 0 .. T] /\ SegOK'
      /\ \A p \in PE : /\ Stored(p)' = IF p = e THEN n ELSE Stored(p)
                       /\ Filled(p) /\ Filled(p)'
  BY DrainCounts
<1> HIDE DEF e, n
<1>4. /\ drains' \in [PE -> Seq(Tag)] /\ drains'[e] = Tail(drains[e])
      /\ \A p \in PE : p # e => drains'[p] = drains[p]
  <2>1. drains \in [PE -> Seq(Tag)]
    BY Parts DEF TypeOK
  <2> QED BY <1>1, <1>2, <2>1
<1>5. /\ l3' \in [PE -> [0 .. T -> Tag]]
      /\ \A p \in PE, m \in 0 .. T : l3'[p][m] = IF p = e /\ m = n THEN n ELSE l3[p][m]
  <2>1. l3 \in [PE -> [0 .. T -> Tag]]
    BY Parts DEF TypeOK
  <2> QED BY <1>1, <1>2, <2>1
<1>6. TypeOK'
  BY <1>1, <1>3, <1>4, <1>5, Parts DEF TypeOK, ctl, strips
<1>7. \A p \in PE : FillsOK(p)'
  BY <1>1, <1>3, Parts DEF FillsOK, ctl
<1>8. ASSUME NEW p \in PE PROVE DrainsOK(p)'
  <2>1. DrainsOK(p) /\ step'[p] = step[p]
    BY <1>1, Parts DEF ctl
  <2> QED BY <1>2, <1>3, <1>4, <2>1 DEF DrainsOK
<1>9. ASSUME NEW p \in PE PROVE L3OK(p)'
  <2>1. CASE p = e
    <3>1. L3OK(e)
      BY <1>2, Parts
    <3>2. ASSUME NEW m \in 0 .. T PROVE l3'[e][m] = IF m <= n THEN m ELSE Junk
      BY <1>2, <1>5, <3>1 DEF L3OK, n
    <3> QED BY <1>2, <1>3, <2>1, <3>2 DEF L3OK
  <2>2. CASE p # e
    BY <1>3, <1>5, <2>2, Parts DEF L3OK
  <2> QED BY <2>1, <2>2
<1> QED BY <1>1, <1>3, <1>6, <1>7, <1>8, <1>9, SegKeeps

-----------------------------------------------------------------------------
(* The invariant is inductive.                                              *)

LEMMA StepInv == IInv /\ [Next]_vars => IInv'
<1> SUFFICES ASSUME IInv, [Next]_vars PROVE IInv'
  OBVIOUS
<1>1. ASSUME NEW p \in PE, Herd(p) PROVE IInv'
  BY <1>1, FillInv, CopyInv, PutInv, GetInv, UpdateInv, DrainInv DEF Herd
<1>2. CASE Segment
  BY <1>2, SegFillInv, SegDrainInv DEF Segment
<1>3. CASE UNCHANGED vars
  BY <1>3 DEF vars, ctl, strips, fifos, IInv, TypeOK, SegOK, CtlOK, FillsOK, DrainsOK, StripOK, L3OK,
              LinkOK, Staging, Computed, Filled, Stored, Puts, Gets, PutOver, GetOver
<1> QED BY <1>1, <1>2, <1>3 DEF Next, Return

\* How far the two ends of a link can be from their trips, and from each other.
LEMMA Bounds ==
  ASSUME IInv
  PROVE  \A p \in PE, d \in Dir :
           /\ step[p] \in Nat /\ Puts(p, d) \in Nat /\ Gets(p, d) \in Nat
           /\ step[p] <= Gets(p, d) /\ Gets(p, d) <= step[p] + 1
           /\ step[p] <= Puts(p, d) /\ Puts(p, d) <= step[p] + 1
BY Parts DEF Puts, Gets

LEMMA LinkOrder ==
  ASSUME IInv, NEW p \in PE, NEW d \in Dir, GetGuard(p, d)
  PROVE  /\ GetPeer(p, d) \in PE
         /\ Gets(p, d) <= Puts(GetPeer(p, d), d)
         /\ Gets(p, d) < Puts(GetPeer(p, d), d) => link[p][d] # <<>>
         /\ Holds(link[p][d], Gets(p, d), Puts(GetPeer(p, d), d))
<1> DEFINE q == GetPeer(p, d)
<1>1. q \in PE /\ link[p][d] \in Seq(Tag) /\ Holds(link[p][d], Gets(p, d), Puts(q, d))
  BY LinkEnds, Parts DEF LinkOK
<1>2. Gets(p, d) \in Int /\ Puts(q, d) \in Int
  BY <1>1, Bounds
<1> HIDE DEF q
<1>3. Gets(p, d) <= Puts(q, d) /\ (Gets(p, d) < Puts(q, d) => link[p][d] # <<>>)
  BY <1>1, <1>2, HoldsSome
<1> QED BY <1>1, <1>3 DEF q

\* A producer that has put two strips more than were got would have had to get
\* one that its consumer has not put.
LEMMA TwoStrips == IInv => AtMostTwoStrips
<1> SUFFICES ASSUME IInv, NEW p \in PE, NEW d \in Dir
             PROVE  /\ Len(link[p][d]) <= 2
                    /\ Len(link[p][d]) = 2 => link[p][d][2] = link[p][d][1] + 1
  BY DEF AtMostTwoStrips
<1>1. CASE GetGuard(p, d)
  <2> DEFINE q == GetPeer(p, d)
             e == Other(d)
  <2>1. q \in PE /\ e \in Dir /\ GetGuard(q, e) /\ GetPeer(q, e) = p
    BY <1>1, LinkBack, LinkEnds
  <2>2. Holds(link[p][d], Gets(p, d), Puts(q, d))
    BY <1>1, LinkOrder
  <2> HIDE DEF q, e
  <2>3. Gets(q, e) <= Puts(p, e)
    BY <2>1, LinkOrder
  <2>4. /\ step[q] \in Nat /\ step[p] \in Nat
        /\ Gets(p, d) \in Nat /\ Puts(q, d) \in Nat /\ Gets(q, e) \in Nat /\ Puts(p, e) \in Nat
        /\ Puts(q, d) <= step[q] + 1 /\ step[q] <= Gets(q, e)
        /\ Puts(p, e) <= step[p] + 1 /\ step[p] <= Gets(p, d)
    BY <2>1, Bounds
  <2>5. Puts(q, d) - Gets(p, d) <= 2
    BY <2>3, <2>4
  <2>6. link[p][d] \in Seq(Tag)
    BY Parts
  <2> QED BY <2>2, <2>4, <2>5, <2>6, HoldsPair
<1>2. CASE ~GetGuard(p, d)
  <2>1. link[p][d] = <<>>
    BY <1>2, Parts DEF LinkOK
  <2> QED BY <2>1
<1> QED BY <1>1, <1>2

-----------------------------------------------------------------------------
(* No circular wait.                                                        *)

\* A nonempty set of natural numbers has a least element.
LEMMA LeastNat == ASSUME NEW S, S \subseteq Nat, S # {} PROVE \E m \in S : \A n \in S : m <= n
<1> DEFINE R == {ss \in Nat \X Nat : ss[1] < ss[2]}
<1>1. IsWellFoundedOn(R, Nat)
  <2>1. OpToRel(<, Nat) = R
    BY Zenon DEF OpToRel
  <2> QED BY <2>1, NatLessThanWellFounded, Zenon
<1> HIDE DEF R
<1>2. PICK m \in S : \A n \in S : ~(<<n, m>> \in R)
  BY <1>1, WFMin
<1>3. ASSUME NEW n \in S, n < m PROVE FALSE
  <2>1. <<n, m>> \in Nat \X Nat /\ <<n, m>>[1] = n /\ <<n, m>>[2] = m
    OBVIOUS
  <2>2. <<n, m>> \in R
    BY <1>3, <2>1, Zenon DEF R
  <2> QED BY <1>2, <2>2
<1> QED BY <1>3

\* The segment waits for nobody until every fill is put.  From then on a PE that
\* is on the least trip can step, or the neighbour it waits for can, being on the
\* same trip with its put to come; and when all have returned, what the segment
\* takes back is in the FIFOs.
LEMMA SomeActorSteps == IInv => NoCircularWait
<1> SUFFICES ASSUME IInv, ~Finished, ~SegmentCanStep PROVE \E p \in PE : CanStep(p)
  BY DEF NoCircularWait
<1>1. seg.op \in {"drain", "done"} /\ \A p \in PE : Filled(p)
  <2>1. seg.op \in {"drain", "done"}
    BY Parts DEF SegmentCanStep, SegOp
  <2> QED BY <2>1 DEF Filled
<1>2. \E p \in PE : op[p] # "done"
  <2> SUFFICES ASSUME \A p \in PE : op[p] = "done" PROVE FALSE
    OBVIOUS
  <2> DEFINE e == seg.pe
  <2>1. seg.op = "drain"
    BY <1>1 DEF Finished
  <2>2. e \in PE /\ e \in Nat /\ seg.plane \in Nat /\ seg.plane < T
    BY <2>1, Parts, Places DEF SegOK
  <2>3. Stored(e) = seg.plane
    BY <2>1, <2>2 DEF Stored
  <2> HIDE DEF e
  <2>4. DrainsOK(e) /\ step[e] = T /\ drains[e] \in Seq(Tag)
    BY <2>2, Parts DEF CtlOK
  <2>5. Holds(drains[e], seg.plane + 1, T + 1)
    BY <2>3, <2>4 DEF DrainsOK
  <2>6. seg.plane + 1 \in Int /\ T + 1 \in Int /\ seg.plane + 1 < T + 1
    BY <2>2
  <2>7. drains[e] # <<>>
    BY <2>4, <2>5, <2>6, HoldsSome
  <2> QED BY <2>1, <2>7 DEF SegmentCanStep, e
<1>3. PICK p \in PE : op[p] # "done" /\ \A q \in PE : op[q] # "done" => step[p] <= step[q]
  <2> DEFINE S == {step[q] : q \in {r \in PE : op[r] # "done"}}
  <2>1. S # {} /\ S \subseteq Nat
    BY <1>2, Parts
  <2>2. PICK m \in S : \A k \in S : m <= k
    BY <2>1, LeastNat
  <2> QED BY <2>2
<1>4. ASSUME NEW q \in PE, op[q] = "fill" PROVE fills[q] # <<>>
  <2>1. fills[q] = <<FirstStrip>>
    BY <1>1, <1>4, Parts DEF FillsOK
  <2> QED BY <2>1
<1>5. CASE ~CanStep(p)
  <2> DEFINE d == dir[p]
             q == GetPeer(p, d)
  <2>1. op[p] = "get" /\ GetGuard(p, d) /\ link[p][d] = <<>> /\ d \in Dir
    BY <1>3, <1>4, <1>5, Parts DEF CanStep
  <2>2. /\ step[p] < T /\ step[p] \in Nat /\ Gets(p, d) = step[p]
    BY <2>1, Parts DEF CtlOK, Gets, GetOver
  <2>3. q \in PE /\ ~(Gets(p, d) < Puts(q, d))
    BY <2>1, LinkOrder
  <2> HIDE DEF q
  <2>4. step[q] \in Nat /\ Puts(q, d) \in Nat /\ step[q] <= Puts(q, d)
    BY <2>1, <2>3, Bounds
  <2>5. op[q] # "done"
    <3>1. op[q] = "done" => step[q] = T
      BY <2>3, Parts DEF CtlOK
    <3> QED BY <2>2, <2>3, <2>4, <3>1
  <2>6. step[p] <= step[q]
    BY <1>3, <2>3, <2>5
  <2>7. Puts(q, d) = step[q]
    BY <2>2, <2>3, <2>4, <2>6
  <2>8. ~PutOver(q, d)
    BY <2>4, <2>7 DEF Puts
  <2>9. op[q] \in {"fill", "copy", "put"}
    BY <2>3, <2>5, <2>8, Parts DEF PutOver, Op
  <2>10. CanStep(q)
    BY <1>4, <2>3, <2>9 DEF CanStep
  <2> QED BY <2>3, <2>10
<1> QED BY <1>3, <1>5

-----------------------------------------------------------------------------
(* The refinement mapping.                                                  *)

\* L3 holds the planes 0 .. n of PE p's rows, and not plane n + 1.
PlanesInL3(p, n) == /\ \A m \in 0 .. n : l3[p][m] = m
                    /\ n < T => l3[p][n + 1] # n + 1

\* What L3 and the strips hold is what the program counters say.
LEMMA Mapping ==
  IInv => /\ planesDone = [p \in PE |-> Computed(p)]
          /\ planesInL3 = [p \in PE |-> Stored(p)]
<1> SUFFICES ASSUME IInv PROVE /\ planesDone = [p \in PE |-> Computed(p)]
                               /\ planesInL3 = [p \in PE |-> Stored(p)]
  OBVIOUS
<1>1. ASSUME NEW p \in PE PROVE Largest(0, Largest(own[p]["cur"], own[p]["next"])) = Computed(p)
  <2>1. StripOK(p) /\ CtlOK(p) /\ step[p] \in Nat
    BY Parts
  <2>2. own[p]["cur"] \in Int /\ own[p]["next"] \in Int
    <3>1. own[p]["cur"] \in Tag /\ own[p]["next"] \in Tag
      BY Members, Parts
    <3> QED BY <3>1, Members
  <2>3. own[p]["cur"] <= Computed(p) /\ own[p]["next"] <= Computed(p)
    BY <2>1, Members DEF StripOK
  <2>4. Computed(p) = 0 \/ own[p]["cur"] = Computed(p) \/ own[p]["next"] = Computed(p)
    <3>1. op[p] = "fill" => Computed(p) = 0
      BY <2>1 DEF CtlOK, Computed, Staging
    <3> QED BY <2>1, <3>1 DEF StripOK, Buf
  <2>5. Computed(p) \in Nat
    BY EndTypes
  <2> QED BY <2>2, <2>3, <2>4, <2>5 DEF Largest
<1>2. ASSUME NEW p \in PE PROVE (CHOOSE n \in -1 .. T : PlanesInL3(p, n)) = Stored(p)
  <2>1. L3OK(p) /\ Stored(p) \in Nat /\ Stored(p) <= T
    BY Parts, EndTypes
  <2>2. Stored(p) \in -1 .. T /\ PlanesInL3(p, Stored(p))
    BY <2>1, Members DEF L3OK, PlanesInL3
  <2>3. ASSUME NEW n \in -1 .. T, PlanesInL3(p, n) PROVE n = Stored(p)
    <3>1. CASE n < Stored(p)
      <4>1. n + 1 \in 0 .. T /\ n + 1 <= Stored(p) /\ n < T
        BY <2>1, <3>1
      <4> QED BY <2>1, <2>3, <4>1 DEF L3OK, PlanesInL3
    <3>2. CASE Stored(p) < n
      <4>1. Stored(p) + 1 \in 0 .. T /\ Stored(p) + 1 \in 0 .. n
            /\ ~(Stored(p) + 1 <= Stored(p))
        BY <2>1, <3>2
      <4> QED BY <2>1, <2>3, <4>1, Members DEF L3OK, PlanesInL3
    <3> QED BY <2>1, <3>1, <3>2
  <2> QED BY <2>2, <2>3
<1>3. planesDone = [p \in PE |-> Computed(p)]
  BY <1>1 DEF planesDone
<1>4. planesInL3 = [p \in PE |-> Stored(p)]
  <2>1. planesInL3 = [p \in PE |-> CHOOSE n \in -1 .. T : PlanesInL3(p, n)]
    BY DEF planesInL3, PlanesInL3
  <2> QED BY <1>2, <2>1, Zenon
<1> QED BY <1>3, <1>4

\* A PE that updates has a strip of its current trip from each neighbour, so the
\* neighbour has computed the plane.
LEMMA NeighboursAreReady ==
  ASSUME IInv, NEW p \in PE, op[p] = "update", NEW q \in {p - 1, p + 1} \intersect PE
  PROVE  q \in PE /\ step[p] <= Computed(q)
<1>1. PICK d \in Dir : GetGuard(p, d) /\ GetPeer(p, d) = q
  BY NeighbourLinks
<1>2. Gets(p, d) = step[p] + 1 /\ step[p] \in Nat
  BY Bounds DEF Gets, GetOver
<1>3. Gets(p, d) <= Puts(q, d)
  BY <1>1, LinkOrder
<1>4. q \in PE /\ step[q] \in Nat /\ Puts(q, d) \in Nat /\ Puts(q, d) <= step[q] + 1
  BY Bounds
<1>5. step[q] <= Computed(q) /\ Computed(q) \in Nat
  BY <1>4 DEF Computed
<1> QED BY <1>2, <1>3, <1>4, <1>5

\* Every step computes a plane, takes one back to L3, or leaves both counts.
LEMMA StepRefines ==
  IInv /\ IInv' /\ [Next]_vars => [Abstract!Next]_(Abstract!jvars)
<1> SUFFICES ASSUME IInv, IInv', [Next]_vars PROVE [Abstract!Next]_(Abstract!jvars)
  OBVIOUS
<1>1. /\ planesDone = [p \in PE |-> Computed(p)] /\ planesDone' = [p \in PE |-> Computed(p)']
      /\ planesInL3 = [p \in PE |-> Stored(p)]
  <2>1. IInv' => (planesDone = [p \in PE |-> Computed(p)])'
    BY Mapping, PTL
  <2> QED BY <2>1, Mapping
<1>2. planesInL3' = [p \in PE |-> Stored(p)']
  <2>1. IInv' => (planesInL3 = [p \in PE |-> Stored(p)])'
    BY Mapping, PTL
  <2> QED BY <2>1
<1>3. PE = Abstract!PE
  BY DEF PE, Abstract!PE
<1>4. l3' = l3 => planesInL3' = planesInL3
  BY DEF planesInL3
<1>5. CASE UNCHANGED vars
  BY <1>1, <1>4, <1>5 DEF vars, ctl, Computed, Abstract!jvars
<1>6. CASE SegFill
  <2>1. l3' = l3 /\ \A p \in PE : Computed(p)' = Computed(p)
    BY <1>6 DEF SegFill, ctl, Computed
  <2> QED BY <1>1, <1>4, <2>1 DEF Abstract!jvars
<1>7. CASE SegDrain
  <2> DEFINE e == seg.pe
             n == seg.plane
  <2>1. /\ e \in PE /\ Stored(e) = n /\ n \in Nat /\ n + 1 <= step[e]
        /\ \A p \in PE : Stored(p)' = IF p = e THEN n + 1 ELSE Stored(p)
    BY <1>7, TakeStep, DrainCounts
  <2>2. /\ \A p \in PE : Computed(p)' = Computed(p)
        /\ step[e] \in Nat /\ Computed(e) \in Nat /\ Computed(e) >= step[e]
    <3>1. step' = step /\ op' = op
      BY <1>7 DEF SegDrain, ctl
    <3> QED BY <2>1, <3>1, Parts DEF Computed
  <2> HIDE DEF e, n
  <2>3. planesInL3' = [planesInL3 EXCEPT ![e] = @ + 1] /\ planesDone' = planesDone
    BY <1>1, <1>2, <2>1, <2>2
  <2>4. planesInL3[e] < planesDone[e]
    BY <1>1, <2>1, <2>2
  <2> QED BY <1>3, <2>1, <2>3, <2>4 DEF Abstract!Next, Abstract!Store
<1>8. ASSUME NEW p \in PE, Herd(p) PROVE [Abstract!Next]_(Abstract!jvars)
  <2>1. planesInL3' = planesInL3
    BY <1>4, <1>8 DEF Herd, Fill, Copy, Put, Get, Update, Drain
  <2>2. CtlOK(p) /\ step[p] \in Nat /\ op \in [PE -> Op] /\ step \in [PE -> 0 .. T]
    BY Parts DEF TypeOK
  <2>3. CASE Update(p)
    <3>1. op[p] = "update" /\ op' = [op EXCEPT ![p] = "drain"] /\ step' = step
      BY <2>3 DEF Update, Goto
    <3>2. /\ Computed(p) = step[p] /\ Computed(p)' = step[p] + 1 /\ step[p] < T
          /\ \A q \in PE : q # p => Computed(q)' = Computed(q)
      BY <2>2, <3>1 DEF Computed, CtlOK
    <3>3. planesDone' = [planesDone EXCEPT ![p] = @ + 1]
      BY <1>1, <3>2
    <3>4. ASSUME NEW q \in Abstract!Neighbours(p) PROVE planesDone[q] >= planesDone[p]
      <4>1. q \in {p - 1, p + 1} \intersect PE
        BY <1>3 DEF Abstract!Neighbours
      <4>2. q \in PE /\ step[p] <= Computed(q)
        BY <3>1, <4>1, NeighboursAreReady
      <4>3. Computed(q) \in Nat
        BY <4>2, EndTypes
      <4> QED BY <1>1, <2>2, <3>2, <4>2, <4>3
    <3>5. planesDone[p] < T
      BY <1>1, <3>2
    <3> QED BY <1>3, <2>1, <3>3, <3>4, <3>5 DEF Abstract!Next, Abstract!Compute
  <2>4. CASE ~Update(p)
    <3>1. \A q \in PE : Computed(q)' = Computed(q)
      <4>1. CASE Drain(p)
        <5>1. /\ op[p] = "drain" /\ step' = [step EXCEPT ![p] = step[p] + 1]
              /\ op' = [op EXCEPT ![p] = IF step[p] + 1 < T THEN "put" ELSE "done"]
          BY <4>1 DEF Drain, EnterTrip, Goto
        <5>2. step[p] + 1 \in 0 .. T
          BY <2>2, <5>1 DEF CtlOK
        <5>3. step'[p] = step[p] + 1 /\ op'[p] # "drain"
              /\ \A q \in PE : q # p => op'[q] = op[q] /\ step'[q] = step[q]
          BY <2>2, <5>1, <5>2 DEF Op
        <5> QED BY <2>2, <5>1, <5>3 DEF Computed
      <4>2. CASE Copy(p)
        <5>1. /\ op[p] = "copy" /\ op' = [op EXCEPT ![p] = IF 0 < T THEN "put" ELSE "done"]
              /\ step' = [step EXCEPT ![p] = 0]
          BY <4>2 DEF Copy, EnterTrip, Goto
        <5>2. step[p] = 0
          BY <2>2, <5>1 DEF CtlOK, Staging
        <5> QED BY <2>2, <5>1, <5>2 DEF Computed, Op
      <4>3. CASE Fill(p) \/ Put(p) \/ Get(p)
        <5>1. /\ step' = step
              /\ \E a, b \in Op : /\ op[p] = a /\ op' = [op EXCEPT ![p] = b]
                                  /\ a # "drain" /\ b # "drain"
          BY <4>3 DEF Fill, Put, Get, AfterPut, AfterGet, Goto, Op
        <5> QED BY <2>2, <5>1 DEF Computed
      <4> QED BY <1>8, <2>4, <4>1, <4>2, <4>3 DEF Herd
    <3> QED BY <1>1, <2>1, <3>1 DEF Abstract!jvars
  <2> QED BY <2>3, <2>4
<1> QED BY <1>5, <1>6, <1>7, <1>8 DEF Next, Segment, Return

-----------------------------------------------------------------------------
(* The theorems.                                                            *)

\* In every reachable state the invariant holds.
THEOREM Inductive == Spec => []IInv
<1> QED BY InitInv, StepInv, PTL DEF Spec

\* Every actor stays within its loops and nothing but planes is ever moved.
THEOREM TypeCorrect == Spec => []TypeOK
<1>1. IInv => TypeOK
  BY DEF IInv
<1> QED BY Inductive, <1>1, PTL

\* The channels are unbounded, yet no link of any herd ever queues more than two
\* strips, and they are of consecutive planes.
THEOREM LinksQueueTwo == Spec => []AtMostTwoStrips
<1> QED BY Inductive, TwoStrips, PTL

\* No herd of any size deadlocks on channels, over any number of trips.
THEOREM NoDeadlock == Spec => []NoCircularWait
<1> QED BY Inductive, SomeActorSteps, PTL

\* The safety part of ImplementsJacobi: every step computes a plane whose
\* neighbours have the one before, stores the next plane, or is invisible.
THEOREM RefinesJacobi == Spec => Abstract!Init /\ [][Abstract!Next]_(Abstract!jvars)
<1>1. Init => Abstract!Init
  <2> SUFFICES ASSUME Init PROVE Abstract!Init
    OBVIOUS
  <2>1. IInv /\ \A p \in PE : Computed(p) = 0 /\ Stored(p) = 0
    BY InitInv DEF Init, Computed, Stored
  <2> QED BY <2>1, Mapping DEF Abstract!Init, Abstract!PE, PE
<1> QED BY <1>1, Inductive, StepRefines, PTL DEF Spec

=============================================================================
