--------------------------- MODULE ScheduleProofs ---------------------------
(***************************************************************************)
(* Proofs about Schedule, for any kernel and any sequence of clauses.        *)
(***************************************************************************)
EXTENDS ScheduleInv, FiniteSetTheorems, FunctionTheorems, SequenceTheorems,
        WellFoundedInduction, TLAPS

USE NamesAssumption, ExtentAssumption, ArgumentsAssumption

-----------------------------------------------------------------------------
(* Naturals and sequences.                                                  *)

LEMMA LeastNat == ASSUME NEW S, S \subseteq Nat, S # {} PROVE \E m \in S : \A n \in S : m <= n
<1> DEFINE R == {ss \in Nat \X Nat : ss[1] < ss[2]}
<1>1. IsWellFoundedOn(R, Nat)
  <2>1. OpToRel(<, Nat) = R
    BY Zenon DEF OpToRel
  <2> QED BY <2>1, NatLessThanWellFounded, Zenon
<1> HIDE DEF R
<1>2. PICK m \in S : \A n \in S : ~(<<n, m>> \in R)
  BY <1>1, WFMin
<1>3. ASSUME NEW n \in S, n < m PROVE FALSE
  <2>1. <<n, m>> \in Nat \X Nat /\ <<n, m>>[1] = n /\ <<n, m>>[2] = m
    OBVIOUS
  <2>2. <<n, m>> \in R
    BY <1>3, <2>1, Zenon DEF R
  <2> QED BY <1>2, <2>2
<1> QED BY <1>3

LEMMA SeqOf == ASSUME NEW S, NEW s \in Seq(S) PROVE IsSeq(s)
BY DEF IsSeq

LEMMA IsSeqDomain == ASSUME NEW s, IsSeq(s) PROVE DOMAIN s = 1 .. Len(s) /\ Len(s) \in Nat
BY DEF IsSeq

\* The elements of a sequence, with room for more.
LEMMA InSeqOf ==
  ASSUME NEW s, IsSeq(s), NEW S
  PROVE  s \in Seq({s[k] : k \in 1 .. Len(s)} \union S)
<1> DEFINE X == {s[k] : k \in 1 .. Len(s)} \union S
<1>1. \A k \in 1 .. Len(s) : s[k] \in X
  OBVIOUS
<1> HIDE DEF X
<1>2. [k \in 1 .. Len(s) |-> s[k]] \in [1 .. Len(s) -> X]
  BY <1>1
<1>3. s \in [1 .. Len(s) -> X] /\ Len(s) \in Nat
  BY <1>2, Zenon DEF IsSeq
<1>4. s \in Seq(X)
  BY <1>3
<1> QED BY <1>4 DEF X

LEMMA IsSeqConcat ==
  ASSUME NEW s, IsSeq(s), NEW t, IsSeq(t)
  PROVE  /\ IsSeq(s \o t) /\ Len(s \o t) = Len(s) + Len(t)
         /\ \A k \in 1 .. Len(s) : (s \o t)[k] = s[k]
         /\ \A k \in 1 .. Len(t) : (s \o t)[Len(s) + k] = t[k]
<1> DEFINE X == {s[k] : k \in 1 .. Len(s)} \union {t[k] : k \in 1 .. Len(t)}
<1>1. s \in Seq(X)
  BY InSeqOf
<1>2. t \in Seq({t[k] : k \in 1 .. Len(t)} \union {s[k] : k \in 1 .. Len(s)})
  BY InSeqOf
<1>3. X = {t[k] : k \in 1 .. Len(t)} \union {s[k] : k \in 1 .. Len(s)}
  OBVIOUS
<1>4. t \in Seq(X)
  BY <1>2, <1>3
<1> HIDE DEF X
<1>5. s \o t \in Seq(X)
  BY <1>1, <1>4
<1>6. IsSeq(s \o t)
  BY <1>5, SeqOf
<1> QED BY <1>1, <1>4, <1>6

LEMMA IsSeqAppend ==
  ASSUME NEW s, IsSeq(s), NEW x
  PROVE  /\ IsSeq(Append(s, x)) /\ Len(Append(s, x)) = Len(s) + 1
         /\ \A k \in 1 .. Len(s) : Append(s, x)[k] = s[k]
         /\ Append(s, x)[Len(s) + 1] = x
<1> DEFINE X == {s[k] : k \in 1 .. Len(s)} \union {x}
<1>1. s \in Seq(X) /\ x \in X
  BY InSeqOf
<1> HIDE DEF X
<1>2. Append(s, x) \in Seq(X)
  BY <1>1
<1>3. IsSeq(Append(s, x))
  BY <1>2, SeqOf
<1>4. /\ Len(Append(s, x)) = Len(s) + 1 /\ Append(s, x)[Len(s) + 1] = x
      /\ \A k \in 1 .. Len(s) : Append(s, x)[k] = s[k]
  BY <1>1
<1> QED BY <1>3, <1>4

-----------------------------------------------------------------------------
(* A clause that records has passed every check.                             *)

LEMMA Passed ==
  ASSUME NEW checks, DOMAIN checks \subseteq Nat,
         \A k \in DOMAIN checks : checks[k][2] # "ok", Code(checks) = "ok"
  PROVE  \A k \in DOMAIN checks : ~checks[k][1]
<1> SUFFICES ASSUME Failing(checks) # {} PROVE FALSE
  BY DEF Failing
<1>1. PICK m \in Failing(checks) : \A n \in Failing(checks) : m <= n
  BY LeastNat DEF Failing
<1> DEFINE c == CHOOSE k \in Failing(checks) : \A j \in Failing(checks) : k <= j
<1>2. c \in Failing(checks)
  BY <1>1
<1>3. Code(checks) = checks[c][2]
  BY DEF Code
<1> QED BY <1>2, <1>3 DEF Failing

LEMMA Passed2 ==
  ASSUME NEW b1, NEW c1, c1 # "ok", NEW b2, NEW c2, c2 # "ok",
         Code(<< <<b1, c1>>, <<b2, c2>> >>) = "ok"
  PROVE  ~b1 /\ ~b2
<1> DEFINE checks == << <<b1, c1>>, <<b2, c2>> >>
<1>1. DOMAIN checks = 1 .. 2 /\ \A k \in 1 .. 2 : checks[k][2] # "ok"
  OBVIOUS
<1>2. ~checks[1][1] /\ ~checks[2][1]
  BY <1>1, Passed
<1> QED BY <1>2

LEMMA Passed3 ==
  ASSUME NEW b1, NEW c1, c1 # "ok", NEW b2, NEW c2, c2 # "ok", NEW b3, NEW c3, c3 # "ok",
         Code(<< <<b1, c1>>, <<b2, c2>>, <<b3, c3>> >>) = "ok"
  PROVE  ~b1 /\ ~b2 /\ ~b3
<1> DEFINE checks == << <<b1, c1>>, <<b2, c2>>, <<b3, c3>> >>
<1>1. DOMAIN checks = 1 .. 3 /\ \A k \in 1 .. 3 : checks[k][2] # "ok"
  OBVIOUS
<1>2. ~checks[1][1] /\ ~checks[2][1] /\ ~checks[3][1]
  BY <1>1, Passed
<1> QED BY <1>2

LEMMA Passed4 ==
  ASSUME NEW b1, NEW c1, c1 # "ok", NEW b2, NEW c2, c2 # "ok", NEW b3, NEW c3, c3 # "ok",
         NEW b4, NEW c4, c4 # "ok",
         Code(<< <<b1, c1>>, <<b2, c2>>, <<b3, c3>>, <<b4, c4>> >>) = "ok"
  PROVE  ~b1 /\ ~b2 /\ ~b3 /\ ~b4
<1> DEFINE checks == << <<b1, c1>>, <<b2, c2>>, <<b3, c3>>, <<b4, c4>> >>
<1>1. DOMAIN checks = 1 .. 4 /\ \A k \in 1 .. 4 : checks[k][2] # "ok"
  OBVIOUS
<1>2. ~checks[1][1] /\ ~checks[2][1] /\ ~checks[3][1] /\ ~checks[4][1]
  BY <1>1, Passed
<1> QED BY <1>2

LEMMA Passed5 ==
  ASSUME NEW b1, NEW c1, c1 # "ok", NEW b2, NEW c2, c2 # "ok", NEW b3, NEW c3, c3 # "ok",
         NEW b4, NEW c4, c4 # "ok", NEW b5, NEW c5, c5 # "ok",
         Code(<< <<b1, c1>>, <<b2, c2>>, <<b3, c3>>, <<b4, c4>>, <<b5, c5>> >>) = "ok"
  PROVE  ~b1 /\ ~b2 /\ ~b3 /\ ~b4 /\ ~b5
<1> DEFINE checks == << <<b1, c1>>, <<b2, c2>>, <<b3, c3>>, <<b4, c4>>, <<b5, c5>> >>
<1>1. DOMAIN checks = 1 .. 5 /\ \A k \in 1 .. 5 : checks[k][2] # "ok"
  OBVIOUS
<1>2. ~checks[1][1] /\ ~checks[2][1] /\ ~checks[3][1] /\ ~checks[4][1] /\ ~checks[5][1]
  BY <1>1, Passed
<1> QED BY <1>2

LEMMA Passed6 ==
  ASSUME NEW b1, NEW c1, c1 # "ok", NEW b2, NEW c2, c2 # "ok", NEW b3, NEW c3, c3 # "ok",
         NEW b4, NEW c4, c4 # "ok", NEW b5, NEW c5, c5 # "ok", NEW b6, NEW c6, c6 # "ok",
         Code(<< <<b1, c1>>, <<b2, c2>>, <<b3, c3>>, <<b4, c4>>, <<b5, c5>>, <<b6, c6>> >>) = "ok"
  PROVE  ~b1 /\ ~b2 /\ ~b3 /\ ~b4 /\ ~b5 /\ ~b6
<1> DEFINE checks == << <<b1, c1>>, <<b2, c2>>, <<b3, c3>>, <<b4, c4>>, <<b5, c5>>, <<b6, c6>> >>
<1>1. DOMAIN checks = 1 .. 6 /\ \A k \in 1 .. 6 : checks[k][2] # "ok"
  OBVIOUS
<1>2. /\ ~checks[1][1] /\ ~checks[2][1] /\ ~checks[3][1]
      /\ ~checks[4][1] /\ ~checks[5][1] /\ ~checks[6][1]
  BY <1>1, Passed
<1> QED BY <1>2

-----------------------------------------------------------------------------
(* Names.                                                                   *)

LEMMA Parts ==
  /\ "0" \in STRING \union {"0", "1"} /\ "1" \in STRING \union {"0", "1"}
  /\ KernelAxes \subseteq Names
<1>1. \A s \in Seq(STRING) : s \in Seq(STRING \union {"0", "1"})
  OBVIOUS
<1> QED BY <1>1 DEF Names

LEMMA HalvesNames ==
  ASSUME NEW ax \in Names
  PROVE  Outer(ax) \in Names /\ Inner(ax) \in Names /\ Outer(ax) # Inner(ax)
<1> DEFINE P == STRING \union {"0", "1"}
<1>1. ax \in Seq(P) /\ "0" \in P /\ "1" \in P
  BY DEF Names
<1> HIDE DEF P
<1>2. Append(ax, "0") \in Seq(P) /\ Append(ax, "1") \in Seq(P)
  BY <1>1
<1>3. Append(ax, "0")[Len(ax) + 1] = "0" /\ Append(ax, "1")[Len(ax) + 1] = "1"
  BY <1>1
<1> QED BY <1>2, <1>3 DEF Names, Outer, Inner, P

\* Following the outer child k times adds k zeros, one at a time.
LEMMA DescentNames ==
  ASSUME NEW ax \in Names, NEW k \in Nat
  PROVE  Descent(ax, k) \in Names /\ Len(Descent(ax, k)) = Len(ax) + k /\ Len(ax) \in Nat
<1> DEFINE P == STRING \union {"0", "1"}
           z == "0"
           zeros == [j \in 1 .. k |-> z]
<1>1. ax \in Seq(P) /\ z \in P
  BY DEF Names
<1>2. Descent(ax, k) = ax \o zeros
  BY DEF Descent
<1> HIDE DEF P, z
<1>3. zeros \in [1 .. k -> P]
  BY <1>1
<1> HIDE DEF zeros
<1>4. zeros \in Seq(P) /\ Len(zeros) = k
  BY <1>3
<1>5. ax \o zeros \in Seq(P) /\ Len(ax \o zeros) = Len(ax) + k /\ Len(ax) \in Nat
  BY <1>1, <1>4
<1> QED BY <1>2, <1>5 DEF Names, P

LEMMA DescentZero == ASSUME NEW ax \in Names PROVE Descent(ax, 0) = ax
<1>1. Descent(ax, 0) \in Names /\ Len(Descent(ax, 0)) = Len(ax) /\ Len(ax) \in Nat
  BY DescentNames
<1>2. ASSUME NEW i \in 1 .. Len(ax) PROVE Descent(ax, 0)[i] = ax[i]
  <2> DEFINE zeros == [j \in 1 .. 0 |-> "0"]
  <2>1. zeros \in Seq(STRING)
    OBVIOUS
  <2>2. Descent(ax, 0) = ax \o zeros
    BY DEF Descent
  <2> HIDE DEF zeros
  <2>3. (ax \o zeros)[i] = ax[i]
    BY <2>1 DEF Names
  <2> QED BY <2>2, <2>3
<1> QED BY <1>1, <1>2, SeqEqual DEF Names

LEMMA DescentNext ==
  ASSUME NEW ax \in Names, NEW k \in Nat
  PROVE  Outer(Descent(ax, k)) = Descent(ax, k + 1)
<1> DEFINE P == STRING \union {"0", "1"}
           z == "0"
           a == [j \in 1 .. k |-> z]
           b == [j \in 1 .. k + 1 |-> z]
<1>1. ax \in Seq(P) /\ z \in P /\ Len(ax) \in Nat
  BY DEF Names
<1>2. Descent(ax, k) = ax \o a /\ Descent(ax, k + 1) = ax \o b
  BY DEF Descent
<1>3. a \in [1 .. k -> P] /\ b \in [1 .. k + 1 -> P]
      /\ (\A j \in 1 .. k : a[j] = z) /\ (\A j \in 1 .. k + 1 : b[j] = z)
  <2> HIDE DEF P, z
  <2> QED BY <1>1
<1> HIDE DEF P, z, a, b
<1>4. a \in Seq(P) /\ b \in Seq(P) /\ Len(a) = k /\ Len(b) = k + 1
  BY <1>3
<1>5. Append(ax \o a, z) \in Seq(P) /\ ax \o b \in Seq(P)
  BY <1>1, <1>4
<1>6. Len(Append(ax \o a, z)) = Len(ax) + k + 1 /\ Len(ax \o b) = Len(ax) + k + 1
  BY <1>1, <1>4
<1>7. ASSUME NEW j \in 1 .. Len(ax) + k + 1 PROVE Append(ax \o a, z)[j] = (ax \o b)[j]
  <2>1. CASE j \in 1 .. Len(ax)
    BY <1>1, <1>4, <2>1
  <2>2. CASE j \in Len(ax) + 1 .. Len(ax) + k
    <3>1. Append(ax \o a, z)[j] = a[j - Len(ax)]
      BY <1>1, <1>4, <2>2
    <3>2. (ax \o b)[j] = b[j - Len(ax)]
      BY <1>1, <1>4, <2>2
    <3> QED BY <1>1, <1>3, <2>2, <3>1, <3>2
  <2>3. CASE j = Len(ax) + k + 1
    BY <1>1, <1>3, <1>4, <2>3
  <2>4. \A n \in Nat : j \in 1 .. n + k + 1 =>
          j \in 1 .. n \/ j \in n + 1 .. n + k \/ j = n + k + 1
    OBVIOUS
  <2> QED BY <1>1, <2>1, <2>2, <2>3, <2>4
<1>8. Append(ax \o a, z) = ax \o b
  BY <1>5, <1>6, <1>7, SeqEqual
<1> QED BY <1>2, <1>8 DEF Outer, z

\* The outer leaf of an axis in the table is in the table.  The descent ends
\* because the names it passes are different axes of a finite table.
LEMMA OuterLeafKnown ==
  ASSUME TableOK, NEW ax, Known(ax)
  PROVE  Known(OuterLeaf(ax))
<1> DEFINE D == DOMAIN table
           N == Cardinality(D)
           Ends == {k \in Nat : ~IsTiled(Descent(ax, k))}
<1>1. ax \in Names /\ IsFiniteSet(D) /\ N \in Nat
  BY FS_CardinalityType DEF TableOK, Known
<1>2. ASSUME NEW k \in Nat, \A j \in 0 .. k - 1 : IsTiled(Descent(ax, j))
      PROVE  \A j \in 0 .. k : Descent(ax, j) \in D
  <2>1. Descent(ax, 0) \in D
    BY <1>1, DescentZero DEF Known
  <2>2. ASSUME NEW j \in 0 .. k, j > 0 PROVE Descent(ax, j) \in D
    <3>1. j - 1 \in Nat /\ j - 1 \in 0 .. k - 1 /\ (j - 1) + 1 = j
      BY <2>2
    <3>2. IsTiled(Descent(ax, j - 1))
      BY <1>2, <3>1
    <3>3. Outer(Descent(ax, j - 1)) = Descent(ax, j)
      BY <1>1, <3>1, DescentNext
    <3> QED BY <3>2, <3>3 DEF IsTiled, Known
  <2> QED BY <2>1, <2>2
<1>3. ASSUME NEW k \in Nat, \A j \in 0 .. k - 1 : IsTiled(Descent(ax, j)) PROVE k < N
  <2> DEFINE f == [j \in 0 .. k |-> Descent(ax, j)]
  <2>1. \A j \in 0 .. k : Descent(ax, j) \in D
    BY <1>2, <1>3
  <2>2. f \in [0 .. k -> D]
    BY <2>1
  <2>3. ASSUME NEW i \in 0 .. k, NEW j \in 0 .. k, f[i] = f[j] PROVE i = j
    <3>0. i \in Nat /\ j \in Nat
      OBVIOUS
    <3>1. Len(Descent(ax, i)) = Len(ax) + i /\ Len(Descent(ax, j)) = Len(ax) + j /\ Len(ax) \in Nat
      BY <1>1, <3>0, DescentNames
    <3>2. Len(ax) + i = Len(ax) + j
      BY <2>3, <3>1
    <3> QED BY <3>1, <3>2
  <2>4. f \in Injection(0 .. k, D)
    BY <2>2, <2>3 DEF Injection, IsInjective
  <2>5. Cardinality(0 .. k) <= N
    BY <1>1, <2>4, FS_Injection
  <2>6. Cardinality(0 .. k) = k + 1
    BY FS_Interval
  <2> QED BY <1>1, <2>5, <2>6
<1>4. Ends # {}
  <2> SUFFICES ASSUME Ends = {} PROVE FALSE
    OBVIOUS
  <2>1. \A j \in 0 .. N - 1 : IsTiled(Descent(ax, j))
    OBVIOUS
  <2> QED BY <1>1, <1>3, <2>1
<1>5. PICK m \in Ends : \A n \in Ends : m <= n
  BY <1>4, LeastNat
<1>6. m \in Nat /\ ~IsTiled(Descent(ax, m)) /\ \A j \in 0 .. m - 1 : IsTiled(Descent(ax, j))
  BY <1>5
<1>7. m \in 0 .. N
  BY <1>1, <1>3, <1>6
<1> DEFINE depth == CHOOSE k \in 0 .. N : /\ \A j \in 0 .. k - 1 : IsTiled(Descent(ax, j))
                                          /\ ~IsTiled(Descent(ax, k))
<1>8. depth \in 0 .. N /\ \A j \in 0 .. depth - 1 : IsTiled(Descent(ax, j))
  BY <1>6, <1>7
<1>9. OuterLeaf(ax) = Descent(ax, depth)
  BY DEF OuterLeaf
<1> HIDE DEF depth
<1> QED BY <1>1, <1>2, <1>8, <1>9 DEF Known

-----------------------------------------------------------------------------
(* A step that adds records at the end.                                      *)

Grows ==
  /\ IsSeq(records) /\ IsSeq(records') /\ Len(records) <= Len(records')
  /\ \A k \in 1 .. Len(records) : records'[k] = records[k]

Added == Len(records) + 1 .. Len(records')

\* The k-th record is alone in its slot.
Alone(k) ==
  \/ records'[k].clause = "double_buffer"
  \/ \A j \in 1 .. Len(records') :
       records'[j].clause = records'[k].clause /\ records'[j].key = records'[k].key => j = k

LEMMA GrowDomain ==
  ASSUME Grows
  PROVE  /\ DOMAIN records = 1 .. Len(records) /\ DOMAIN records' = 1 .. Len(records')
         /\ DOMAIN records' = DOMAIN records \union Added
         /\ \A k \in DOMAIN records : records'[k] = records[k]
         /\ Len(records) \in Nat /\ Len(records') \in Nat
<1>1. /\ DOMAIN records = 1 .. Len(records) /\ DOMAIN records' = 1 .. Len(records')
      /\ Len(records) \in Nat /\ Len(records') \in Nat
  BY IsSeqDomain DEF Grows
<1> QED BY <1>1 DEF Grows, Added

\* The records of a clause that adds none are what they were.
LEMMA GrowMade ==
  ASSUME Grows, NEW c, \A k \in Added : records'[k].clause # c
  PROVE  /\ Made(c)' = Made(c) /\ Recorded(c)' = Recorded(c)
         /\ Recorded(c) => TheValue(c)' = TheValue(c)
<1>1. Made(c)' = Made(c)
  BY GrowDomain DEF Made
<1>2. Recorded(c)' = Recorded(c)
  BY <1>1 DEF Recorded
<1>3. ASSUME Recorded(c) PROVE TheValue(c)' = TheValue(c)
  <2> DEFINE k == CHOOSE i \in Made(c) : TRUE
  <2>1. k \in Made(c)
    BY <1>3 DEF Recorded
  <2>2. TheValue(c) = records[k].val /\ TheValue(c)' = records'[k].val
    BY <1>1 DEF TheValue
  <2>3. records'[k] = records[k]
    BY <2>1, GrowDomain DEF Made
  <2> QED BY <2>2, <2>3
<1> QED BY <1>1, <1>2, <1>3

LEMMA GrowSlots ==
  ASSUME OnePerSlot, Grows, \A k \in Added : Alone(k)
  PROVE  OnePerSlot'
<1> SUFFICES ASSUME NEW j \in DOMAIN records', NEW k \in DOMAIN records',
                    records'[j].clause = records'[k].clause,
                    records'[j].clause # "double_buffer",
                    records'[j].key = records'[k].key
             PROVE  j = k
  BY DEF OnePerSlot
<1>1. CASE k \in Added
  BY <1>1, GrowDomain DEF Alone
<1>2. CASE j \in Added
  BY <1>2, GrowDomain DEF Alone
<1>3. CASE j \in DOMAIN records /\ k \in DOMAIN records
  BY <1>3, GrowDomain DEF OnePerSlot
<1> QED BY <1>1, <1>2, <1>3, GrowDomain

\* What may be added without looking at the herd: no grid and no placement, tiles
\* whose halves are known, deliveries along what is placed, each in a free slot.
LEMMA GrowInv ==
  ASSUME IInv, Grows, TableOK', TilesExact', DOMAIN table \subseteq DOMAIN table',
         \A n \in DOMAIN table' : /\ table'[n].parent \in DOMAIN table' \union {<<>>}
                                  /\ table'[n].extent \in Nat \union {NoExtent},
         DOMAIN outcome' = {"clause", "args", "code"},
         \A k \in Added :
           /\ DOMAIN records'[k] = {"clause", "key", "val"}
           /\ records'[k].clause \notin {"grid", "place"}
           /\ records'[k].clause = "tile" => Outer(records'[k].key) \in DOMAIN table'
           /\ records'[k].clause \in {"stream", "exchange"} => InSeq(records'[k].val.along, Placed)
           /\ Alone(k)
  PROVE  IInv'
<1>1. /\ TypeOK /\ TiledOK /\ PlaceOK /\ ~ModelRaises /\ OnePerSlot
  BY DEF IInv
<1>2. /\ Made("grid")' = Made("grid") /\ Recorded("grid")' = Recorded("grid")
      /\ Recorded("grid") => TheValue("grid")' = TheValue("grid")
  BY GrowMade
<1>3. /\ Made("place")' = Made("place") /\ Recorded("place")' = Recorded("place")
      /\ Recorded("place") => TheValue("place")' = TheValue("place")
  BY GrowMade
<1>4. Placed' = Placed
  BY <1>3 DEF Placed
<1>5. TypeOK'
  <2>1. \A k \in DOMAIN records' : DOMAIN records'[k] = {"clause", "key", "val"}
    BY <1>1, GrowDomain DEF TypeOK
  <2>2. ASSUME NEW k \in Made("grid")'
        PROVE  /\ Len(records'[k].val) \in 1 .. 2
               /\ \A d \in DOMAIN records'[k].val : records'[k].val[d] \in Nat /\ records'[k].val[d] > 0
    <3>1. k \in Made("grid") /\ records'[k] = records[k]
      BY <1>2, <2>2, GrowDomain DEF Made
    <3> QED BY <1>1, <3>1 DEF TypeOK
  <2> QED BY <2>1, <2>2 DEF TypeOK
<1>6. TiledOK'
  <2> SUFFICES ASSUME NEW k \in Made("tile")' PROVE Outer(records'[k].key) \in DOMAIN table'
    BY DEF TiledOK, Known
  <2>1. CASE k \in Added
    BY <2>1 DEF Made
  <2>2. CASE k \in DOMAIN records
    BY <1>1, <2>2, GrowDomain DEF TiledOK, Known, Made
  <2> QED BY <2>1, <2>2, GrowDomain DEF Made
<1>7. PlaceOK'
  BY <1>1, <1>2, <1>3, <1>4 DEF PlaceOK, Known
<1>8. ~ModelRaises'
  <2> SUFFICES ASSUME NEW k \in DOMAIN records', records'[k].clause \in {"stream", "exchange"}
               PROVE  InSeq(records'[k].val.along, Placed)
    BY <1>4 DEF ModelRaises, Made, InSeq
  <2>1. CASE k \in DOMAIN records
    BY <1>1, <2>1, GrowDomain DEF ModelRaises, Made
  <2> QED BY <2>1, GrowDomain
<1>9. OnePerSlot'
  BY <1>1, GrowSlots
<1> QED BY <1>5, <1>6, <1>7, <1>8, <1>9 DEF IInv, Grows

\* A refused clause leaves the invariant.
LEMMA QuietInv ==
  ASSUME IInv, UNCHANGED <<table, records>>, DOMAIN outcome' = {"clause", "args", "code"}
  PROVE  IInv'
<1>1. Grows /\ Added = {}
  BY IsSeqDomain DEF Grows, Added, IInv
<1>2. /\ TableOK' /\ TilesExact'
      /\ \A n \in DOMAIN table' : /\ table'[n].parent \in DOMAIN table' \union {<<>>}
                                  /\ table'[n].extent \in Nat \union {NoExtent}
  BY DEF IInv, TableOK, TilesExact, TypeOK, IsTiled, Known
<1> QED BY <1>1, <1>2, GrowInv

-----------------------------------------------------------------------------
(* The clauses that add one record and leave the herd alone.                 *)

LEMMA OneMore ==
  ASSUME IsSeq(records), NEW r, DOMAIN r = {"clause", "key", "val"}, ~Taken(r.clause, r.key),
         records' = Append(records, r)
  PROVE  Grows /\ \E n : Added = {n} /\ Alone(n) /\ records'[n] = r
<1> DEFINE n == Len(records) + 1
<1>1. /\ IsSeq(records') /\ Len(records') = n /\ records'[n] = r
      /\ \A k \in 1 .. Len(records) : records'[k] = records[k]
  BY IsSeqAppend
<1>2. Len(records) \in Nat /\ DOMAIN records = 1 .. Len(records)
  BY IsSeqDomain
<1>3. Grows /\ Added = {n}
  BY <1>1, <1>2 DEF Grows, Added
<1>4. Alone(n)
  <2> SUFFICES ASSUME NEW j \in 1 .. n, records'[j].clause = r.clause, records'[j].key = r.key
               PROVE  j = n
    BY <1>1 DEF Alone
  <2> SUFFICES ASSUME j \in 1 .. Len(records) PROVE FALSE
    BY <1>2
  <2> QED BY <1>1, <1>2 DEF Taken, Made
<1> QED BY <1>1, <1>3, <1>4

\* What the invariant says of the table.
LEMMA SameTable ==
  ASSUME IInv, UNCHANGED table
  PROVE  /\ TableOK' /\ TilesExact'
         /\ \A n \in DOMAIN table' : /\ table'[n].parent \in DOMAIN table' \union {<<>>}
                                     /\ table'[n].extent \in Nat \union {NoExtent}
BY DEF IInv, TableOK, TilesExact, TypeOK, IsTiled, Known

LEMMA RecordInv ==
  ASSUME IInv, UNCHANGED table, DOMAIN outcome' = {"clause", "args", "code"},
         NEW r, DOMAIN r = {"clause", "key", "val"}, r.clause \notin {"grid", "place", "tile"},
         r.clause \in {"stream", "exchange"} => InSeq(r.val.along, Placed),
         ~Taken(r.clause, r.key), records' = Append(records, r)
  PROVE  IInv'
<1>1. Grows /\ \E n : Added = {n} /\ Alone(n) /\ records'[n] = r
  BY OneMore DEF IInv
<1> QED BY <1>1, SameTable, GrowInv

LEMMA ReduceInv == ASSUME IInv, NEW ax, NEW op, Reduce(ax, op) PROVE IInv'
<1> DEFINE r == [clause |-> "reduce", key |-> ax, val |-> op]
           b1 == ~Known(ax)
           b2 == op \notin Ops
           b3 == Taken("reduce", ax)
           code == Code(<< <<b1, "CLAUSE-UNKNOWN-AXIS">>, <<b2, "CLAUSE-BAD-ENUM">>,
                           <<b3, "CLAUSE-DUPLICATE">> >>)
<1>1. /\ UNCHANGED table /\ DOMAIN outcome' = {"clause", "args", "code"}
      /\ IF code = "ok" THEN records' = Append(records, r) ELSE UNCHANGED records
  BY DEF Reduce, Apply, Record, Raise
<1>2. r.clause = "reduce" /\ r.key = ax /\ DOMAIN r = {"clause", "key", "val"}
  OBVIOUS
<1> HIDE DEF r, b1, b2, b3
<1>3. code = "ok" => ~b3
  BY Passed3
<1> HIDE DEF code
<1> QED BY <1>1, <1>2, <1>3, QuietInv, RecordInv DEF b3

LEMMA StationaryInv == ASSUME IInv, NEW name, Stationary(name) PROVE IInv'
<1> DEFINE r == [clause |-> "stationary", key |-> name, val |-> TRUE]
           b1 == name \notin Operands
           b2 == Taken("stationary", name)
           code == Code(<< <<b1, "CLAUSE-UNKNOWN-OPERAND">>, <<b2, "CLAUSE-DUPLICATE">> >>)
<1>1. /\ UNCHANGED table /\ DOMAIN outcome' = {"clause", "args", "code"}
      /\ IF code = "ok" THEN records' = Append(records, r) ELSE UNCHANGED records
  BY DEF Stationary, Apply, Record, Raise
<1>2. r.clause = "stationary" /\ r.key = name /\ DOMAIN r = {"clause", "key", "val"}
  OBVIOUS
<1> HIDE DEF r, b1, b2
<1>3. code = "ok" => ~b2
  BY Passed2
<1> HIDE DEF code
<1> QED BY <1>1, <1>2, <1>3, QuietInv, RecordInv DEF b2

LEMMA PipelineInv == ASSUME IInv, NEW ax, Pipeline(ax) PROVE IInv'
<1> DEFINE r == [clause |-> "pipeline", key |-> ax, val |-> TRUE]
           b1 == ~Known(ax)
           b2 == Taken("pipeline", ax)
           code == Code(<< <<b1, "CLAUSE-UNKNOWN-AXIS">>, <<b2, "CLAUSE-DUPLICATE">> >>)
<1>1. /\ UNCHANGED table /\ DOMAIN outcome' = {"clause", "args", "code"}
      /\ IF code = "ok" THEN records' = Append(records, r) ELSE UNCHANGED records
  BY DEF Pipeline, Apply, Record, Raise
<1>2. r.clause = "pipeline" /\ r.key = ax /\ DOMAIN r = {"clause", "key", "val"}
  OBVIOUS
<1> HIDE DEF r, b1, b2
<1>3. code = "ok" => ~b2
  BY Passed2
<1> HIDE DEF code
<1> QED BY <1>1, <1>2, <1>3, QuietInv, RecordInv DEF b2

LEMMA SequentialInv == ASSUME IInv, NEW ax, Sequential(ax) PROVE IInv'
<1> DEFINE r == [clause |-> "sequential", key |-> ax, val |-> TRUE]
           b1 == ~Known(ax)
           b2 == Taken("sequential", ax)
           code == Code(<< <<b1, "CLAUSE-UNKNOWN-AXIS">>, <<b2, "CLAUSE-DUPLICATE">> >>)
<1>1. /\ UNCHANGED table /\ DOMAIN outcome' = {"clause", "args", "code"}
      /\ IF code = "ok" THEN records' = Append(records, r) ELSE UNCHANGED records
  BY DEF Sequential, Apply, Record, Raise
<1>2. r.clause = "sequential" /\ r.key = ax /\ DOMAIN r = {"clause", "key", "val"}
  OBVIOUS
<1> HIDE DEF r, b1, b2
<1>3. code = "ok" => ~b2
  BY Passed2
<1> HIDE DEF code
<1> QED BY <1>1, <1>2, <1>3, QuietInv, RecordInv DEF b2

LEMMA WindowInv == ASSUME IInv, NEW name, NEW dims, NEW halo, Window(name, dims, halo) PROVE IInv'
<1> DEFINE r == [clause |-> "window", key |-> name, val |-> [dims |-> dims, halo |-> halo]]
           b1 == name \notin Operands
           b2 == \E k \in DOMAIN dims : ~Known(dims[k])
           b3 == Len(halo) # Len(dims)
           b4 == \E k \in DOMAIN halo : halo[k] < 0
           b5 == Taken("window", name)
           code == Code(<< <<b1, "CLAUSE-UNKNOWN-OPERAND">>, <<b2, "CLAUSE-UNKNOWN-AXIS">>,
                           <<b3, "CLAUSE-RANK">>, <<b4, "CLAUSE-BAD-VALUE">>,
                           <<b5, "CLAUSE-DUPLICATE">> >>)
<1>1. /\ UNCHANGED table /\ DOMAIN outcome' = {"clause", "args", "code"}
      /\ IF code = "ok"
         THEN records' = Append(records, r)
         ELSE UNCHANGED records
  BY DEF Window, Apply, Record, Raise
<1>2. r.clause = "window" /\ r.key = name /\ DOMAIN r = {"clause", "key", "val"}
  OBVIOUS
<1> HIDE DEF r, b1, b2, b3, b4, b5
<1>3. code = "ok" => ~b5
  BY Passed5
<1> HIDE DEF code
<1> QED BY <1>1, <1>2, <1>3, QuietInv, RecordInv DEF b5

LEMMA SkewInv == ASSUME IInv, NEW time, Skew(time) PROVE IInv'
<1> DEFINE r == [clause |-> "skew", key |-> Herd, val |-> time]
           b1 == Recorded("skew")
           b2 == Len(time) < 1
           b3 == \E k \in DOMAIN time : ~Known(time[k])
           b4 == \E j, k \in DOMAIN time : j < k /\ time[j] = time[k]
           code == Code(<< <<b1, "CLAUSE-DUPLICATE">>, <<b2, "CLAUSE-BAD-VALUE">>,
                           <<b3, "CLAUSE-UNKNOWN-AXIS">>, <<b4, "CLAUSE-DUPLICATE">> >>)
<1>1. /\ UNCHANGED table /\ DOMAIN outcome' = {"clause", "args", "code"}
      /\ IF code = "ok"
         THEN records' = Append(records, r)
         ELSE UNCHANGED records
  BY DEF Skew, Apply, Record, Raise
<1>2. r.clause = "skew" /\ r.key = Herd /\ DOMAIN r = {"clause", "key", "val"}
  OBVIOUS
<1> HIDE DEF r, b1, b2, b3, b4
<1>3. code = "ok" => ~b1
  BY Passed4
<1>4. ~b1 => ~Taken("skew", Herd)
  BY DEF Recorded, Taken, b1
<1> HIDE DEF code
<1> QED BY <1>1, <1>2, <1>3, <1>4, QuietInv, RecordInv

LEMMA StreamLikeInv ==
  ASSUME IInv, NEW name, NEW pattern, NEW along, NEW direction, NEW depth,
         StreamLike("stream", name, pattern, along, direction, depth)
  PROVE  IInv'
<1> DEFINE val == [along |-> along, pattern |-> pattern, direction |-> direction, depth |-> depth]
           r == [clause |-> "stream", key |-> name, val |-> val]
           b1 == name \notin Operands
           b2 == pattern \notin Patterns
           b3 == ~Known(along)
           b4 == depth # NoDepth /\ depth < 1
           b5 == ~InSeq(along, Placed)
           b6 == Taken("stream", name)
           code == Code(<< <<b1, "CLAUSE-UNKNOWN-OPERAND">>, <<b2, "CLAUSE-BAD-ENUM">>,
                           <<b3, "CLAUSE-UNKNOWN-AXIS">>, <<b4, "CLAUSE-BAD-VALUE">>,
                           <<b5, NotPlaced>>, <<b6, "CLAUSE-DUPLICATE">> >>)
<1>1. /\ UNCHANGED table /\ DOMAIN outcome' = {"clause", "args", "code"}
      /\ IF code = "ok"
         THEN records' = Append(records, r)
         ELSE UNCHANGED records
  BY DEF StreamLike, Apply, Record, Raise
<1>2. r.clause = "stream" /\ r.key = name /\ r.val.along = along /\ DOMAIN r = {"clause", "key", "val"}
  OBVIOUS
<1> HIDE DEF r, b1, b2, b3, b4, b5, b6
<1>3. code = "ok" => ~b5 /\ ~b6
  BY Passed6 DEF NotPlaced
<1> HIDE DEF code
<1>4. CASE code # "ok"
  BY <1>1, <1>4, QuietInv
<1>5. CASE code = "ok"
  BY <1>1, <1>2, <1>3, <1>5, RecordInv DEF b5, b6
<1> QED BY <1>4, <1>5

LEMMA ForwardInv ==
  ASSUME IInv, NEW name, NEW along, NEW direction, NEW depth,
         Forward(name, along, direction, depth)
  PROVE  IInv'
<1>1. CASE direction \in Directions
  BY <1>1, StreamLikeInv DEF Forward
<1>2. CASE direction \notin Directions
  BY <1>2, QuietInv DEF Forward, Raise
<1> QED BY <1>1, <1>2

LEMMA ExchangeInv == ASSUME IInv, NEW name, NEW along, NEW halo, Exchange(name, along, halo) PROVE IInv'
<1> DEFINE r == [clause |-> "exchange", key |-> name, val |-> [along |-> along, halo |-> halo]]
           b1 == name \notin Operands
           b2 == ~Known(along)
           b3 == halo < 1
           b4 == ~InSeq(along, Placed)
           b5 == Taken("exchange", name)
           code == Code(<< <<b1, "CLAUSE-UNKNOWN-OPERAND">>, <<b2, "CLAUSE-UNKNOWN-AXIS">>,
                           <<b3, "CLAUSE-BAD-VALUE">>, <<b4, NotPlaced>>,
                           <<b5, "CLAUSE-DUPLICATE">> >>)
<1>1. /\ UNCHANGED table /\ DOMAIN outcome' = {"clause", "args", "code"}
      /\ IF code = "ok"
         THEN records' = Append(records, r)
         ELSE UNCHANGED records
  BY DEF Exchange, Apply, Record, Raise
<1>2. r.clause = "exchange" /\ r.key = name /\ r.val.along = along /\ DOMAIN r = {"clause", "key", "val"}
  OBVIOUS
<1> HIDE DEF r, b1, b2, b3, b4, b5
<1>3. code = "ok" => ~b4 /\ ~b5
  BY Passed5 DEF NotPlaced
<1> HIDE DEF code
<1>4. CASE code # "ok"
  BY <1>1, <1>4, QuietInv
<1>5. CASE code = "ok"
  BY <1>1, <1>2, <1>3, <1>5, RecordInv DEF b4, b5
<1> QED BY <1>4, <1>5

-----------------------------------------------------------------------------
(* The clauses about the herd, and tiling.                                   *)

LEMMA GridInv == ASSUME IInv, NEW extents \in GridArgs, Grid(extents) PROVE IInv'
<1> DEFINE r == [clause |-> "grid", key |-> Herd, val |-> extents]
           b1 == Recorded("grid")
           b2 == Len(extents) \notin 1 .. 2
           b3 == \E k \in DOMAIN extents : extents[k] < 1
           code == Code(<< <<b1, "CLAUSE-DUPLICATE">>, <<b2, "CLAUSE-GRID-RANK">>,
                           <<b3, "CLAUSE-BAD-VALUE">> >>)
<1>1. /\ UNCHANGED table /\ DOMAIN outcome' = {"clause", "args", "code"}
      /\ IF code = "ok"
         THEN records' = Append(records, r)
         ELSE UNCHANGED records
  BY DEF Grid, Apply, Record, Raise
<1>0. r.clause = "grid" /\ r.key = Herd /\ r.val = extents /\ DOMAIN r = {"clause", "key", "val"}
  OBVIOUS
<1> HIDE DEF r, b1, b2, b3
<1>2. code = "ok" => ~b1 /\ ~b2 /\ ~b3
  BY Passed3
<1> HIDE DEF code
<1>3. CASE code # "ok"
  BY <1>1, <1>3, QuietInv
<1>4. CASE code = "ok"
  <2>1. ~Recorded("grid") /\ ~Taken("grid", Herd)
    BY <1>2, <1>4 DEF b1, Recorded, Taken
  <2>2. extents \in Seq(Int) /\ Len(extents) \in 1 .. 2 /\ \A k \in DOMAIN extents : ~(extents[k] < 1)
    BY <1>2, <1>4 DEF b2, b3
  <2>3. \A k \in DOMAIN extents : extents[k] \in Nat /\ extents[k] > 0
    BY <2>2
  <2>4. /\ TypeOK /\ TiledOK /\ PlaceOK /\ ~ModelRaises /\ OnePerSlot
    BY DEF IInv
  <2>0. Grows /\ \E n : Added = {n} /\ Alone(n) /\ records'[n] = r
    BY <1>1, <1>4, <1>0, <2>1, OneMore DEF IInv
  <2>5. PICK n : /\ Grows /\ Added = {n} /\ Alone(n)
                 /\ records'[n].clause = "grid" /\ records'[n].val = extents
                 /\ DOMAIN records'[n] = {"clause", "key", "val"}
    BY <1>0, <2>0
  <2>6. \A k \in DOMAIN records' : (k \in DOMAIN records /\ records'[k] = records[k]) \/ k = n
    BY <2>5, GrowDomain
  <2>7. TypeOK'
    <3>1. \A k \in DOMAIN records' : DOMAIN records'[k] = {"clause", "key", "val"}
      BY <2>4, <2>5, <2>6 DEF TypeOK
    <3>2. ASSUME NEW k \in Made("grid")'
          PROVE  /\ Len(records'[k].val) \in 1 .. 2
                 /\ \A d \in DOMAIN records'[k].val : records'[k].val[d] \in Nat /\ records'[k].val[d] > 0
      <4>1. k = n
        BY <2>1, <2>6, <3>2 DEF Made, Recorded
      <4> QED BY <2>2, <2>3, <2>5, <4>1
    <3> QED BY <1>1, <3>1, <3>2, SameTable DEF TypeOK
  <2>8. TiledOK'
    BY <1>1, <2>4, <2>5, <2>6 DEF TiledOK, Made, Known
  <2>9. ~Recorded("place")'
    BY <2>1, <2>4, <2>5, GrowMade DEF PlaceOK
  <2>10. ~ModelRaises'
    <3>1. Placed' = Placed
      BY <2>1, <2>4, <2>9 DEF Placed, PlaceOK
    <3> QED BY <2>4, <2>5, <2>6, <3>1 DEF ModelRaises, Made, InSeq
  <2>11. OnePerSlot'
    BY <2>4, <2>5, GrowSlots
  <2> QED BY <1>1, <2>5, <2>7, <2>8, <2>9, <2>10, <2>11, SameTable DEF IInv, PlaceOK, Grows
<1> QED BY <1>3, <1>4

LEMMA PlaceInv ==
  ASSUME IInv, NEW axes, IsSeq(axes), Len(axes) \in 1 .. 2, Place(axes)
  PROVE  IInv'
<1> DEFINE names == [k \in DOMAIN axes |-> IF Known(axes[k]) THEN OuterLeaf(axes[k]) ELSE axes[k]]
           rank  == IF Recorded("grid") THEN Len(TheValue("grid")) ELSE 0
           r == [clause |-> "place", key |-> Herd, val |-> names]
           b1 == Recorded("place")
           b2 == \E k \in DOMAIN axes : ~Known(axes[k])
           b3 == Len(axes) = 2 /\ names[1] = names[Len(axes)]
           b4 == ~Recorded("grid")
           b5 == Len(names) # rank
           code == Code(<< <<b1, "CLAUSE-DUPLICATE">>, <<b2, "CLAUSE-UNKNOWN-AXIS">>,
                           <<b3, "CLAUSE-DUPLICATE">>, <<b4, "CLAUSE-RANK">>,
                           <<b5, "CLAUSE-RANK">> >>)
<1>1. /\ UNCHANGED table /\ DOMAIN outcome' = {"clause", "args", "code"}
      /\ IF code = "ok"
         THEN records' = Append(records, r)
         ELSE UNCHANGED records
  BY DEF Place, Apply, Record, Raise
<1>0. r.clause = "place" /\ r.key = Herd /\ r.val = names /\ DOMAIN r = {"clause", "key", "val"}
  OBVIOUS
<1> HIDE DEF r, b1, b2, b3, b4, b5
<1>2. code = "ok" => ~b1 /\ ~b2 /\ ~b3 /\ ~b4 /\ ~b5
  BY Passed5
<1> HIDE DEF code
<1>3. CASE code # "ok"
  BY <1>1, <1>3, QuietInv
<1>4. CASE code = "ok"
  <2>1. ~Recorded("place") /\ ~Taken("place", Herd) /\ Recorded("grid")
    BY <1>2, <1>4 DEF b1, b4, Recorded, Taken
  <2>2. DOMAIN axes = 1 .. Len(axes) /\ DOMAIN names = 1 .. Len(axes)
    BY IsSeqDomain
  <2>3. \A k \in DOMAIN names : Known(names[k])
    BY <1>2, <1>4, OuterLeafKnown DEF b2, IInv
  <2>4. \A j, k \in DOMAIN names : names[j] = names[k] => j = k
    <3>1. Len(axes) = 2 => names[1] # names[2]
      BY <1>2, <1>4 DEF b3
    <3> HIDE DEF names
    <3> QED BY <2>2, <3>1
  <2>5. Len(names) = Len(TheValue("grid"))
    BY <1>2, <1>4, <2>1 DEF b5
  <2> HIDE DEF names
  <2>6. /\ TypeOK /\ TiledOK /\ ~ModelRaises /\ OnePerSlot
    BY DEF IInv
  <2>0. Grows /\ \E n : Added = {n} /\ Alone(n) /\ records'[n] = r
    BY <1>1, <1>4, <1>0, <2>1, OneMore DEF IInv
  <2>7. PICK n : /\ Grows /\ Added = {n} /\ Alone(n)
                 /\ records'[n].clause = "place" /\ records'[n].val = names
                 /\ DOMAIN records'[n] = {"clause", "key", "val"}
    BY <1>0, <2>0
  <2>8. /\ DOMAIN records' = DOMAIN records \union {n}
        /\ \A k \in DOMAIN records' : (k \in DOMAIN records /\ records'[k] = records[k]) \/ k = n
    BY <2>7, GrowDomain
  <2>9. Placed' = names
    <3>1. Made("place")' = {n}
      BY <2>1, <2>7, <2>8 DEF Made, Recorded
    <3>2. TheValue("place")' = names /\ Recorded("place")'
      BY <2>7, <3>1 DEF TheValue, Recorded
    <3> QED BY <3>2 DEF Placed
  <2>10. /\ Made("grid")' = Made("grid") /\ Recorded("grid")' /\ TheValue("grid")' = TheValue("grid")
    BY <2>1, <2>7, GrowMade
  <2>11. TypeOK'
    <3>1. \A k \in DOMAIN records' : DOMAIN records'[k] = {"clause", "key", "val"}
      BY <2>6, <2>7, <2>8 DEF TypeOK
    <3>2. ASSUME NEW k \in Made("grid")'
          PROVE  /\ Len(records'[k].val) \in 1 .. 2
                 /\ \A d \in DOMAIN records'[k].val : records'[k].val[d] \in Nat /\ records'[k].val[d] > 0
      <4>1. k \in Made("grid") /\ records'[k] = records[k]
        BY <2>7, <2>8, <2>10, <3>2 DEF Made
      <4> QED BY <2>6, <4>1 DEF TypeOK
    <3> QED BY <1>1, <3>1, <3>2, SameTable DEF TypeOK
  <2>12. TiledOK'
    BY <1>1, <2>6, <2>7, <2>8 DEF TiledOK, Made, Known
  <2>13. PlaceOK'
    BY <1>1, <2>3, <2>4, <2>5, <2>9, <2>10 DEF PlaceOK, Known
  <2>14. ~ModelRaises'
    <3>1. \A k \in Made("stream") \union Made("exchange") : FALSE
      BY <2>1, <2>6 DEF ModelRaises, Placed, InSeq
    <3> QED BY <2>7, <2>8, <3>1 DEF ModelRaises, Made
  <2>15. OnePerSlot'
    BY <2>6, <2>7, GrowSlots
  <2> QED BY <1>1, <2>7, <2>11, <2>12, <2>13, <2>14, <2>15, SameTable DEF IInv, Grows
<1> QED BY <1>3, <1>4

LEMMA TileInv ==
  ASSUME IInv, NEW ax, NEW factor \in Int, Tile(ax, factor)
  PROVE  IInv'
<1> DEFINE r == [clause |-> "tile", key |-> ax, val |-> factor]
           axOK == Known(ax) /\ factor >= 1
           extentOK == axOK /\ table[ax].extent # NoExtent
           b1 == ~Known(ax)
           b2 == factor < 1
           b3 == axOK /\ ~extentOK
           b4 == extentOK /\ table[ax].extent % factor # 0
           b5 == Known(Outer(ax)) \/ Known(Inner(ax))
           code == Code(<< <<b1, "CLAUSE-UNKNOWN-AXIS">>, <<b2, "CLAUSE-BAD-VALUE">>,
                           <<b3, "CLAUSE-TILE-DIVIDES">>, <<b4, "CLAUSE-TILE-DIVIDES">>,
                           <<b5, "CLAUSE-DUPLICATE">> >>)
           o == Outer(ax)
           i == Inner(ax)
           e == table[ax].extent
<1>1. /\ DOMAIN outcome' = {"clause", "args", "code"}
      /\ IF code = "ok"
         THEN /\ table' = Halves(ax, factor)
              /\ records' = Append(records, r)
         ELSE UNCHANGED <<table, records>>
  BY DEF Tile, TileChecks, Record, Raise
<1>0. r.clause = "tile" /\ r.key = ax /\ DOMAIN r = {"clause", "key", "val"}
  OBVIOUS
<1> HIDE DEF r, b1, b2, b3, b4, b5
<1>2. code = "ok" => ~b1 /\ ~b2 /\ ~b3 /\ ~b4 /\ ~b5
  BY Passed5
<1> HIDE DEF code
<1>3. CASE code # "ok"
  BY <1>1, <1>3, QuietInv
<1>4. CASE code = "ok"
  <2>1. /\ TableOK /\ TypeOK /\ TilesExact /\ TiledOK
    BY DEF IInv
  <2>2. /\ ax \in DOMAIN table /\ factor \in Nat /\ factor > 0
        /\ e # NoExtent /\ e % factor = 0 /\ o \notin DOMAIN table /\ i \notin DOMAIN table
    BY <1>2, <1>4 DEF b1, b2, b3, b4, b5, Known
  <2>3. ax \in Names /\ e \in Nat
    BY <2>1, <2>2 DEF TableOK, TypeOK
  <2>4. o \in Names /\ i \in Names /\ o # i
    BY <2>3, HalvesNames
  <2>5. (e \div factor) * factor = e /\ e \div factor \in Nat
    BY <2>2, <2>3
  <2> HIDE DEF o, i, e
  <2>6. /\ DOMAIN table' = DOMAIN table \union {o, i}
        /\ \A n \in DOMAIN table : table'[n] = table[n]
        /\ table'[o].parent = ax /\ table'[o].extent = e \div factor
        /\ table'[i].parent = ax /\ table'[i].extent = factor
    <3>1. table' = [n \in DOMAIN table \union {o, i} |->
                      IF n = o THEN [parent |-> ax, extent |-> e \div factor]
                      ELSE IF n = i THEN [parent |-> ax, extent |-> factor]
                      ELSE table[n]]
      BY <1>1, <1>4 DEF Halves, o, i, e
    <3> QED BY <2>2, <2>4, <3>1
  <2>7. TableOK'
    <3>0. IsFiniteSet((DOMAIN table \union {o}) \union {i})
      BY <2>1, FS_AddElement DEF TableOK
    <3>1. IsFiniteSet(DOMAIN table \union {o, i})
      <4>1. DOMAIN table \union {o, i} = (DOMAIN table \union {o}) \union {i}
        OBVIOUS
      <4> QED BY <3>0, <4>1
    <3> QED BY <2>1, <2>4, <2>6, <3>1 DEF TableOK
  <2>8. \A n \in DOMAIN table' : /\ table'[n].parent \in DOMAIN table' \union {<<>>}
                                 /\ table'[n].extent \in Nat \union {NoExtent}
    BY <2>1, <2>2, <2>5, <2>6 DEF TypeOK
  <2>9. TilesExact'
    <3> SUFFICES ASSUME NEW n \in DOMAIN table', table'[n].parent # <<>>, NEW p, p = table'[n].parent
                 PROVE  /\ Outer(p) \in DOMAIN table' /\ table'[Outer(p)].parent = p
                        /\ Inner(p) \in DOMAIN table'
                        /\ table'[Outer(p)].extent * table'[Inner(p)].extent = table'[p].extent
      BY DEF TilesExact, IsTiled, Known
    <3>1. CASE n \in DOMAIN table
      <4>1. p = table[n].parent /\ p \in DOMAIN table
        BY <2>1, <2>6, <3>1 DEF TypeOK
      <4>2. /\ Outer(p) \in DOMAIN table /\ table[Outer(p)].parent = p /\ Inner(p) \in DOMAIN table
            /\ table[Outer(p)].extent * table[Inner(p)].extent = table[p].extent
        BY <2>1, <3>1, <4>1 DEF TilesExact, IsTiled, Known
      <4> QED BY <2>6, <4>1, <4>2
    <3>2. CASE n \in {o, i}
      <4>1. p = ax /\ Outer(p) = o /\ Inner(p) = i
        BY <2>6, <3>2 DEF o, i
      <4>2. table'[p].extent = e
        BY <2>2, <2>6, <4>1 DEF e
      <4> QED BY <2>5, <2>6, <4>1, <4>2
    <3> QED BY <2>6, <3>1, <3>2
  <2>10. ~Taken("tile", ax)
    BY <2>1, <2>2 DEF TiledOK, Taken, Known, o
  <2>0. Grows /\ \E n : Added = {n} /\ Alone(n) /\ records'[n] = r
    BY <1>1, <1>4, <1>0, <2>10, OneMore DEF IInv
  <2>11. PICK n : /\ Grows /\ Added = {n} /\ Alone(n)
                  /\ records'[n].clause = "tile" /\ records'[n].key = ax
                  /\ DOMAIN records'[n] = {"clause", "key", "val"}
    BY <1>0, <2>0
  <2>12. Outer(records'[n].key) \in DOMAIN table'
    BY <2>6, <2>11 DEF o
  <2> QED BY <1>1, <2>6, <2>7, <2>8, <2>9, <2>11, <2>12, GrowInv
<1> QED BY <1>3, <1>4

-----------------------------------------------------------------------------
(* The clauses over several operands: the records of those before the first   *)
(* bad one are added.                                                        *)

LEMMA IsSeqPrefix ==
  ASSUME NEW s, IsSeq(s), NEW m \in 0 .. Len(s)
  PROVE  /\ IsSeq(SubSeq(s, 1, m)) /\ Len(SubSeq(s, 1, m)) = m
         /\ \A k \in 1 .. m : SubSeq(s, 1, m)[k] = s[k]
<1> DEFINE X == {s[k] : k \in 1 .. Len(s)}
<1>1. s \in Seq(X \union {}) /\ X \union {} = X /\ Len(s) \in Nat
  BY InSeqOf, IsSeqDomain
<1> HIDE DEF X
<1>2. SubSeq(s, 1, m) \in Seq(X) /\ Len(SubSeq(s, 1, m)) = m
      /\ \A k \in 1 .. m : SubSeq(s, 1, m)[k] = s[k]
  BY <1>1
<1> QED BY <1>2, SeqOf

LEMMA SeqFunction ==
  ASSUME NEW s, NEW n \in Nat, s = [k \in 1 .. n |-> s[k]]
  PROVE  IsSeq(s) /\ Len(s) = n
<1> DEFINE X == {s[k] : k \in 1 .. n}
<1>1. \A k \in 1 .. n : s[k] \in X
  OBVIOUS
<1> HIDE DEF X
<1>2. [k \in 1 .. n |-> s[k]] \in [1 .. n -> X]
  BY <1>1
<1>3. s \in [1 .. n -> X]
  BY <1>2, Zenon
<1>4. s \in Seq(X) /\ Len(s) = n
  BY <1>3
<1> QED BY <1>4, SeqOf

\* The records of the operands before the first bad one.
Kept(codes, recs) ==
  LET failing == {k \in DOMAIN codes : codes[k] # "ok"}
      first   == CHOOSE k \in failing : \A j \in failing : k <= j
  IN IF failing = {} THEN recs ELSE SubSeq(recs, 1, first - 1)

LEMMA KeptIsPrefix ==
  ASSUME NEW codes, NEW recs, NEW n \in Nat, DOMAIN codes = 1 .. n, IsSeq(recs), Len(recs) = n
  PROVE  /\ IsSeq(Kept(codes, recs)) /\ Len(Kept(codes, recs)) \in 0 .. n
         /\ \A k \in 1 .. Len(Kept(codes, recs)) :
              codes[k] = "ok" /\ Kept(codes, recs)[k] = recs[k]
<1> DEFINE failing == {k \in DOMAIN codes : codes[k] # "ok"}
           first == CHOOSE k \in failing : \A j \in failing : k <= j
<1>1. CASE failing = {}
  <2>1. Kept(codes, recs) = recs
    BY <1>1 DEF Kept
  <2>2. \A k \in 1 .. n : codes[k] = "ok"
    BY <1>1
  <2> QED BY <2>1, <2>2
<1>2. CASE failing # {}
  <2>1. Kept(codes, recs) = SubSeq(recs, 1, first - 1)
    BY <1>2 DEF Kept
  <2>2. PICK f \in failing : \A j \in failing : f <= j
    <3>1. failing \subseteq Nat
      OBVIOUS
    <3> QED BY <1>2, <3>1, LeastNat
  <2>3. first \in failing /\ \A j \in failing : first <= j
    BY <2>2
  <2> HIDE DEF first
  <2>4. first - 1 \in 0 .. n /\ \A k \in 1 .. first - 1 : codes[k] = "ok"
    BY <2>3
  <2>5. /\ IsSeq(SubSeq(recs, 1, first - 1)) /\ Len(SubSeq(recs, 1, first - 1)) = first - 1
        /\ \A k \in 1 .. first - 1 : SubSeq(recs, 1, first - 1)[k] = recs[k]
    BY <2>4, IsSeqPrefix
  <2> QED BY <2>1, <2>4, <2>5
<1> QED BY <1>1, <1>2

LEMMA MoreAdded ==
  ASSUME IsSeq(records), NEW kept, IsSeq(kept), records' = records \o kept
  PROVE  /\ Grows
         /\ \A a \in Added : \E k \in 1 .. Len(kept) : a = Len(records) + k /\ records'[a] = kept[k]
<1> DEFINE m == Len(kept)
<1>1. /\ IsSeq(records') /\ Len(records') = Len(records) + m
      /\ \A k \in 1 .. Len(records) : records'[k] = records[k]
      /\ \A k \in 1 .. m : records'[Len(records) + k] = kept[k]
  BY IsSeqConcat
<1>2. Len(records) \in Nat /\ m \in Nat
  BY IsSeqDomain
<1>3. Grows
  BY <1>1, <1>2 DEF Grows
<1>4. ASSUME NEW a \in Added
      PROVE  \E k \in 1 .. m : a = Len(records) + k /\ records'[a] = kept[k]
  <2>1. a - Len(records) \in 1 .. m /\ a = Len(records) + (a - Len(records))
    BY <1>1, <1>2 DEF Added
  <2>2. PICK k \in 1 .. m : a = Len(records) + k
    BY <2>1
  <2> QED BY <1>1, <2>2
<1> QED BY <1>3, <1>4

LEMMA FreeResidency ==
  ASSUME NEW name, NEW level,
         Code(<< <<name \notin Operands, "CLAUSE-UNKNOWN-OPERAND">>,
                 <<level \notin Levels, "CLAUSE-BAD-ENUM">>,
                 <<Taken("reside", name), "CLAUSE-DUPLICATE">> >>) = "ok"
  PROVE  ~Taken("reside", name)
<1> DEFINE b1 == name \notin Operands
           b2 == level \notin Levels
           b3 == Taken("reside", name)
<1>1. Code(<< <<b1, "CLAUSE-UNKNOWN-OPERAND">>, <<b2, "CLAUSE-BAD-ENUM">>,
              <<b3, "CLAUSE-DUPLICATE">> >>) = "ok"
  OBVIOUS
<1> HIDE DEF b1, b2, b3
<1>2. ~b3
  BY ONLY <1>1, Passed3
<1> QED BY <1>2 DEF b3

LEMMA ResideInv ==
  ASSUME IInv, NEW levels, IsSeq(levels),
         \A j, k \in DOMAIN levels : levels[j][1] = levels[k][1] => j = k, Reside(levels)
  PROVE  IInv'
<1> DEFINE n == Len(levels)
           codes == [k \in DOMAIN levels |->
              Code(<< <<levels[k][1] \notin Operands, "CLAUSE-UNKNOWN-OPERAND">>,
                      <<levels[k][2] \notin Levels, "CLAUSE-BAD-ENUM">>,
                      <<Taken("reside", levels[k][1]), "CLAUSE-DUPLICATE">> >>)]
           recs == [k \in DOMAIN levels |->
              [clause |-> "reside", key |-> levels[k][1], val |-> levels[k][2]]]
<1>1. n \in Nat /\ DOMAIN levels = 1 .. n /\ DOMAIN codes = 1 .. n /\ DOMAIN recs = 1 .. n
  BY IsSeqDomain
<1>2. IsSeq(recs) /\ Len(recs) = n
  <2>1. recs = [k \in 1 .. n |-> recs[k]]
    BY <1>1
  <2> HIDE DEF recs
  <2> QED BY <1>1, <2>1, SeqFunction
<1>3. /\ UNCHANGED table /\ DOMAIN outcome' = {"clause", "args", "code"}
      /\ records' = records \o Kept(codes, recs)
  BY DEF Reside, OneByOne, Raise, Kept
<1>4. \A k \in 1 .. n : codes[k] = "ok" => ~Taken("reside", levels[k][1])
  BY <1>1, FreeResidency
<1>5. \A k \in 1 .. n : /\ recs[k].clause = "reside" /\ recs[k].key = levels[k][1]
                        /\ DOMAIN recs[k] = {"clause", "key", "val"}
  BY <1>1
<1> HIDE DEF codes, recs
<1>6. /\ Grows
      /\ \A a \in Added : \E k \in 1 .. n : /\ a = Len(records) + k /\ codes[k] = "ok"
                                            /\ records'[a] = recs[k]
  <2> DEFINE kept == Kept(codes, recs)
  <2>1. IsSeq(records) /\ records' = records \o kept
    BY <1>3 DEF IInv
  <2>2. /\ IsSeq(kept) /\ Len(kept) \in 0 .. n
        /\ \A k \in 1 .. Len(kept) : codes[k] = "ok" /\ kept[k] = recs[k]
    BY <1>1, <1>2, KeptIsPrefix
  <2> HIDE DEF kept
  <2>3. /\ Grows
        /\ \A a \in Added : \E k \in 1 .. Len(kept) : a = Len(records) + k /\ records'[a] = kept[k]
    BY ONLY <2>1, <2>2, MoreAdded
  <2>4. \A k \in 1 .. Len(kept) : k \in 1 .. n
    BY <1>1, <2>2
  <2> QED BY <2>2, <2>3, <2>4
<1>7. ASSUME NEW a \in Added
      PROVE  /\ Alone(a) /\ records'[a].clause = "reside"
             /\ DOMAIN records'[a] = {"clause", "key", "val"}
  <2>1. PICK k \in 1 .. n : a = Len(records) + k /\ codes[k] = "ok" /\ records'[a] = recs[k]
    BY <1>6
  <2>2. ASSUME NEW j \in 1 .. Len(records'), records'[j].clause = "reside",
               records'[j].key = levels[k][1]
        PROVE  j = a
    <3>1. j \notin DOMAIN records
      <4> SUFFICES ASSUME j \in DOMAIN records PROVE FALSE
        OBVIOUS
      <4>1. records'[j] = records[j]
        BY <1>6, GrowDomain
      <4>2. records[j].clause = "reside" /\ records[j].key = levels[k][1]
        BY ONLY <2>2, <4>1
      <4>3. Taken("reside", levels[k][1])
        BY ONLY <4>2, j \in DOMAIN records DEF Taken, Made
      <4> QED BY ONLY <1>4, <2>1, <4>3
    <3>2. CASE j \in Added
      <4>1. PICK i \in 1 .. n : j = Len(records) + i /\ records'[j] = recs[i]
        BY <1>6, <3>2
      <4>2. i = k
        BY <1>1, <1>5, <2>2, <4>1
      <4> QED BY <2>1, <4>1, <4>2
    <3> QED BY <1>6, <2>2, <3>1, <3>2, GrowDomain
  <2> QED BY <1>5, <2>1, <2>2 DEF Alone
<1> QED BY <1>3, <1>6, <1>7, SameTable, GrowInv

LEMMA DoubleBufferInv == ASSUME IInv, NEW names, IsSeq(names), DoubleBuffer(names) PROVE IInv'
<1> DEFINE n == Len(names)
           codes == [k \in DOMAIN names |->
              IF names[k] \in Operands THEN "ok" ELSE "CLAUSE-UNKNOWN-OPERAND"]
           recs == [k \in DOMAIN names |->
              [clause |-> "double_buffer", key |-> names[k], val |-> TRUE]]
<1>1. n \in Nat /\ DOMAIN names = 1 .. n /\ DOMAIN codes = 1 .. n /\ DOMAIN recs = 1 .. n
  BY IsSeqDomain
<1>2. IsSeq(recs) /\ Len(recs) = n
  <2>1. recs = [k \in 1 .. n |-> recs[k]]
    BY <1>1
  <2> HIDE DEF recs
  <2> QED BY <1>1, <2>1, SeqFunction
<1>3. /\ UNCHANGED table /\ DOMAIN outcome' = {"clause", "args", "code"}
      /\ records' = records \o Kept(codes, recs)
  BY DEF DoubleBuffer, OneByOne, Raise, Kept
<1>4. \A k \in 1 .. n : /\ recs[k].clause = "double_buffer"
                        /\ DOMAIN recs[k] = {"clause", "key", "val"}
  BY <1>1
<1> HIDE DEF codes, recs
<1>5. Grows /\ \A a \in Added : \E k \in 1 .. n : records'[a] = recs[k]
  <2> DEFINE kept == Kept(codes, recs)
  <2>1. IsSeq(records) /\ records' = records \o kept
    BY <1>3 DEF IInv
  <2>2. IsSeq(kept) /\ Len(kept) \in 0 .. n /\ \A k \in 1 .. Len(kept) : kept[k] = recs[k]
    BY <1>1, <1>2, KeptIsPrefix
  <2> HIDE DEF kept
  <2>3. Grows /\ \A a \in Added : \E k \in 1 .. Len(kept) : records'[a] = kept[k]
    BY <2>1, <2>2, MoreAdded
  <2>4. \A k \in 1 .. Len(kept) : k \in 1 .. n
    BY <1>1, <2>2
  <2> QED BY <2>2, <2>3, <2>4
<1>6. \A a \in Added : /\ Alone(a) /\ records'[a].clause = "double_buffer"
                       /\ DOMAIN records'[a] = {"clause", "key", "val"}
  BY <1>4, <1>5 DEF Alone
<1> QED BY <1>3, <1>5, <1>6, SameTable, GrowInv

-----------------------------------------------------------------------------
(* The invariant holds.                                                     *)

LEMMA InitInv == Init => IInv
<1> SUFFICES ASSUME Init PROVE IInv
  OBVIOUS
<1>1. /\ DOMAIN table = KernelAxes /\ records = <<>> /\ DOMAIN outcome = {"clause", "args", "code"}
      /\ \A a \in KernelAxes : table[a].parent = <<>> /\ table[a].extent \in Nat \union {NoExtent}
  BY DEF Init
<1>2. IsSeq(records) /\ DOMAIN records = {} /\ \A c : Made(c) = {}
  <2>1. <<>> \in Seq({}) /\ DOMAIN <<>> = {}
    OBVIOUS
  <2> QED BY <1>1, <2>1, SeqOf DEF Made
<1>3. TableOK
  BY <1>1, Parts DEF TableOK
<1>4. TypeOK
  BY <1>1, <1>2 DEF TypeOK
<1>5. TilesExact
  BY <1>1 DEF TilesExact
<1>6. TiledOK /\ PlaceOK /\ ~ModelRaises /\ OnePerSlot
  BY <1>2 DEF TiledOK, PlaceOK, ModelRaises, OnePerSlot, Recorded
<1> QED BY <1>2, <1>3, <1>4, <1>5, <1>6 DEF IInv

LEMMA ShortSeq == ASSUME NEW S, NEW s \in UpToTwo(S) PROVE IsSeq(s) /\ Len(s) \in 1 .. 2
<1>1. CASE \E x \in S : s = <<x>>
  <2>1. PICK x \in S : s = <<x>>
    BY <1>1
  <2>2. <<x>> \in Seq(S) /\ Len(<<x>>) = 1
    OBVIOUS
  <2>3. s \in Seq(S) /\ Len(s) = 1
    BY <2>1, <2>2
  <2> QED BY <2>3, SeqOf
<1>2. CASE \E x, y \in S : s = <<x, y>>
  <2>1. PICK x \in S, y \in S : s = <<x, y>>
    BY <1>2
  <2>2. <<x, y>> \in Seq(S) /\ Len(<<x, y>>) = 2
    OBVIOUS
  <2>3. s \in Seq(S) /\ Len(s) = 2
    BY <2>1, <2>2
  <2> QED BY <2>3, SeqOf
<1> QED BY <1>1, <1>2 DEF UpToTwo

LEMMA CallInv == ASSUME IInv, NEW clauses, Call(clauses) PROVE IInv'
<1>1. CASE \E e \in GridArgs : Grid(e)
  BY <1>1, GridInv
<1>2. CASE \E ax \in AnyAxis, factor \in Factors : Tile(ax, factor)
  BY <1>2, TileInv
<1>3. CASE \E axes \in UpToTwo(AnyAxis) : Place(axes)
  BY <1>3, PlaceInv, ShortSeq
<1>4. CASE \E ax \in AnyAxis, op \in {"+", "-"} : Reduce(ax, op)
  BY <1>4, ReduceInv
<1>5. CASE \E n \in AnyName : Stationary(n)
  BY <1>5, StationaryInv
<1>6. CASE \E n \in AnyName, pat \in {"broadcast", "scatter"}, ax \in AnyAxis,
             depth \in {NoDepth, 0, 2} : Stream(n, pat, ax, depth)
  BY <1>6, StreamLikeInv DEF Stream
<1>7. CASE \E n \in AnyName, ax \in AnyAxis, dir \in {"W->E", "up"} : Forward(n, ax, dir, NoDepth)
  BY <1>7, ForwardInv
<1>8. CASE \E levels \in UpToTwo(AnyName \X {"L1", "L4"}) :
             (Len(levels) = 2 => levels[1][1] # levels[2][1]) /\ Reside(levels)
  <2>1. PICK levels \in UpToTwo(AnyName \X {"L1", "L4"}) :
               (Len(levels) = 2 => levels[1][1] # levels[2][1]) /\ Reside(levels)
    BY <1>8
  <2>2. IsSeq(levels) /\ Len(levels) \in 1 .. 2 /\ DOMAIN levels = 1 .. Len(levels)
    BY ShortSeq, IsSeqDomain
  <2>3. \A j, k \in DOMAIN levels : levels[j][1] = levels[k][1] => j = k
    BY <2>1, <2>2
  <2> QED BY <2>1, <2>2, <2>3, ResideInv
<1>9. CASE \E names \in UpToTwo(AnyName) : DoubleBuffer(names)
  BY <1>9, DoubleBufferInv, ShortSeq
<1>10. CASE \E ax \in AnyAxis : Pipeline(ax)
  BY <1>10, PipelineInv
<1>11. CASE \E ax \in AnyAxis : Sequential(ax)
  BY <1>11, SequentialInv
<1>12. CASE \E n \in AnyName, dims \in UpToTwo(AnyAxis), halo \in {<<1>>, <<1, 0>>, <<-1>>} :
              Window(n, dims, halo)
  BY <1>12, WindowInv
<1>13. CASE \E n \in AnyName, ax \in AnyAxis, halo \in {0, 1} : Exchange(n, ax, halo)
  BY <1>13, ExchangeInv
<1>14. CASE \E time \in {<<>>} \union UpToTwo(AnyAxis) : Skew(time)
  BY <1>14, SkewInv
<1> QED BY <1>1, <1>2, <1>3, <1>4, <1>5, <1>6, <1>7, <1>8, <1>9, <1>10, <1>11, <1>12, <1>13, <1>14
        DEF Call

LEMMA StepInv == IInv /\ [Next]_vars => IInv'
<1> SUFFICES ASSUME IInv, [Next]_vars PROVE IInv'
  OBVIOUS
<1>1. CASE Next
  <2>1. PICK use \in Uses : Call(use.clauses)
    BY <1>1 DEF Next
  <2> QED BY <2>1, CallInv
<1>2. CASE UNCHANGED vars
  <2>1. UNCHANGED <<table, records>> /\ DOMAIN outcome' = {"clause", "args", "code"}
    BY <1>2 DEF vars, IInv, TypeOK
  <2> QED BY <2>1, QuietInv
<1> QED BY <1>1, <1>2

\* A clause that raises, reside and double_buffer apart, has no effect.
LEMMA RefusalKeeps ==
  ASSUME NEW clauses, Call(clauses), outcome'.code # "ok",
         outcome'.clause \notin {"reside", "double_buffer"}
  PROVE  UNCHANGED <<table, records>>
<1>1. CASE \E e \in GridArgs : Grid(e)
  BY <1>1 DEF Grid, Apply, Record, Raise
<1>2. CASE \E ax \in AnyAxis, factor \in Factors : Tile(ax, factor)
  BY <1>2 DEF Tile, Record, Raise
<1>3. CASE \E axes \in UpToTwo(AnyAxis) : Place(axes)
  BY <1>3 DEF Place, Apply, Record, Raise
<1>4. CASE \E ax \in AnyAxis, op \in {"+", "-"} : Reduce(ax, op)
  BY <1>4 DEF Reduce, Apply, Record, Raise
<1>5. CASE \E n \in AnyName : Stationary(n)
  BY <1>5 DEF Stationary, Apply, Record, Raise
<1>6. CASE \E n \in AnyName, pat \in {"broadcast", "scatter"}, ax \in AnyAxis,
             depth \in {NoDepth, 0, 2} : Stream(n, pat, ax, depth)
  BY <1>6 DEF Stream, StreamLike, Apply, Record, Raise
<1>7. CASE \E n \in AnyName, ax \in AnyAxis, dir \in {"W->E", "up"} : Forward(n, ax, dir, NoDepth)
  BY <1>7 DEF Forward, StreamLike, Apply, Record, Raise
<1>8. CASE \E levels \in UpToTwo(AnyName \X {"L1", "L4"}) : Reside(levels)
  <2>1. PICK levels : Reside(levels)
    BY <1>8
  <2>2. PICK codes, recs : OneByOne("reside", levels, codes, recs)
    BY <2>1 DEF Reside
  <2>3. outcome'.clause = "reside"
    BY <2>2 DEF OneByOne, Raise
  <2> QED BY <2>3
<1>9. CASE \E names \in UpToTwo(AnyName) : DoubleBuffer(names)
  <2>1. PICK names : DoubleBuffer(names)
    BY <1>9
  <2>2. PICK codes, recs : OneByOne("double_buffer", names, codes, recs)
    BY <2>1 DEF DoubleBuffer
  <2>3. outcome'.clause = "double_buffer"
    BY <2>2 DEF OneByOne, Raise
  <2> QED BY <2>3
<1>10. CASE \E ax \in AnyAxis : Pipeline(ax) \/ Sequential(ax)
  BY <1>10 DEF Pipeline, Sequential, Apply, Record, Raise
<1>11. CASE \E n \in AnyName, dims \in UpToTwo(AnyAxis), halo \in {<<1>>, <<1, 0>>, <<-1>>} :
              Window(n, dims, halo)
  BY <1>11 DEF Window, Apply, Record, Raise
<1>12. CASE \E n \in AnyName, ax \in AnyAxis, halo \in {0, 1} : Exchange(n, ax, halo)
  BY <1>12 DEF Exchange, Apply, Record, Raise
<1>13. CASE \E time \in {<<>>} \union UpToTwo(AnyAxis) : Skew(time)
  BY <1>13 DEF Skew, Apply, Record, Raise
<1> QED BY <1>1, <1>2, <1>3, <1>4, <1>5, <1>6, <1>7, <1>8, <1>9, <1>10, <1>11, <1>12, <1>13 DEF Call

-----------------------------------------------------------------------------
(* The theorems.                                                            *)

\* Whatever clauses are called, accepted or refused, the table and the list of
\* records stay in step.
THEOREM Inductive == Spec => []IInv
BY InitInv, StepInv, PTL DEF Spec

\* Every variable stays in its type: extents are naturals or unknown, and an
\* accepted grid has one or two positive extents (Schedule.grid).
THEOREM TypeCorrect == Spec => []TypeOK
<1>1. IInv => TypeOK
  BY DEF IInv
<1> QED BY <1>1, Inductive, PTL

\* The two halves of a tiled axis are there and their extents multiply to its
\* own, however often halves are tiled again (Schedule.tile).
THEOREM TilingIsExact == Spec => []TilesExact
<1>1. IInv => TilesExact
  BY DEF IInv
<1> QED BY <1>1, Inductive, PTL

\* Whatever was called in whatever order, the model built has one entry per slot,
\* its placement is of known, different axes, as many as the grid has, and
\* re-validating what is delivered raises nothing (Schedule.model).
THEOREM ModelsAreWellFormed == Spec => []ModelWellFormed
<1>1. IInv => ModelWellFormed
  <2> SUFFICES ASSUME IInv PROVE ModelWellFormed
    OBVIOUS
  <2>1. PlaceOK /\ ~ModelRaises /\ OnePerSlot
    BY DEF IInv
  <2>2. ~Recorded("place") => DOMAIN Placed = {}
    BY DEF Placed
  <2> QED BY <2>1, <2>2 DEF PlaceOK, ModelWellFormed
<1> QED BY <1>1, Inductive, PTL

\* A refused clause leaves the schedule as it was (those over several operands
\* apart), so that the user may go on.
THEOREM RefusalsChangeNothing == Spec => RefusedChangesNothing
<1>1. [Next]_vars => [outcome'.code # "ok" /\ outcome'.clause \notin {"reside", "double_buffer"} =>
                        UNCHANGED <<table, records>>]_vars
  <2> SUFFICES ASSUME Next, outcome'.code # "ok",
                      outcome'.clause \notin {"reside", "double_buffer"}
               PROVE  UNCHANGED <<table, records>>
    BY DEF vars
  <2>1. PICK use \in Uses : Call(use.clauses)
    BY DEF Next
  <2> QED BY <2>1, RefusalKeeps
<1> QED BY <1>1, PTL DEF Spec, RefusedChangesNothing

=============================================================================
