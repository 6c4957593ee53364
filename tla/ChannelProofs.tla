--------------------------- MODULE ChannelProofs ---------------------------
(***************************************************************************)
(* The channels of a plan, in two parts.                                     *)
(*                                                                         *)
(* The link a channel becomes on the device (module Link) is safe for every   *)
(* number of payloads and every sequence of landing regions: with the credit  *)
(* the emitter computes, no payload is disturbed while its consumer uses it,  *)
(* and the link is a FIFO of that depth.                                     *)
(*                                                                         *)
(* The checks of a plan's text (module SelfCheck) say what they claim of its   *)
(* run, for every plan: balance leaves only circles, the graph decides        *)
(* straight-line plans, and with loops it is safe where every body is         *)
(* balanced by itself.                                                       *)
(***************************************************************************)
EXTENDS Link, SelfCheckInv, FiniteSetTheorems, FunctionTheorems, WellFoundedInduction, TLAPS

\* The credit is a gap below which no two payloads overlap.
CreditSafe ==
  \A m, n \in Payload : m < n /\ n - m < credit => ~Overlaps(landing[m], landing[n])

\* The semaphores are the counters: `full` the producer's, `empty` the one of
\* the consumer, but for the payload it still uses.
Counters ==
  /\ full = sent
  /\ empty = IF cons = "use" /\ got > 0 THEN got - 1 ELSE got
  /\ got <= sent
  /\ cons = "wait" => got < N
  /\ prod # "wait" => sent < N /\ empty >= EmptyNeeded(sent)

\* Bytes of a payload that was delivered and not yet given back.
Delivered == \A n \in Payload : empty <= n /\ n < sent => \A b \in landing[n] : mem[b] = n

\* Bytes of the payload being written that have arrived.
Arriving ==
  /\ prod = "write" => todo \subseteq landing[sent] /\ \A b \in landing[sent] \ todo : mem[b] = sent
  /\ prod = "signal" => \A b \in landing[sent] : mem[b] = sent

IInv == TypeOK /\ CreditSafe /\ Counters /\ Delivered /\ Arriving

-----------------------------------------------------------------------------
\* IsCredit, the loop of the emitter, establishes CreditSafe.
LEMMA CreditIsSafe ==
  ASSUME landing \in [Payload -> SUBSET Byte], credit \in 1 .. N + 1, IsCredit(credit)
  PROVE  CreditSafe
<1> SUFFICES ASSUME NEW m \in Payload, NEW n \in Payload, m < n, n - m < credit
             PROVE  ~Overlaps(landing[m], landing[n])
  BY DEF CreditSafe
<1> DEFINE gap == n - m
<1>1. gap \in 1 .. credit - 1 /\ m \in 0 .. N - 1 - gap /\ m + gap = n
  BY NAssumption DEF Payload
<1>2. ~AliasAt(gap)
  BY <1>1 DEF IsCredit
<1> HIDE DEF gap
<1> QED
  BY <1>1, <1>2 DEF AliasAt

LEMMA InitIInv == Init => IInv
<1> SUFFICES ASSUME Init PROVE IInv
  OBVIOUS
<1> USE NAssumption DEF Init
<1>1. TypeOK
  BY DEF TypeOK
<1>2. CreditSafe
  BY CreditIsSafe
<1>3. Counters
  BY DEF Counters
<1>4. Delivered
  BY DEF Delivered, Payload
<1>5. Arriving
  BY DEF Arriving
<1> QED
  BY <1>1, <1>2, <1>3, <1>4, <1>5 DEF IInv

-----------------------------------------------------------------------------
LEMMA StepWaitEmpty == IInv /\ WaitEmpty => IInv'
<1> SUFFICES ASSUME IInv, WaitEmpty PROVE IInv'
  OBVIOUS
<1> USE NAssumption DEF IInv, WaitEmpty, static, consumer
<1>1. TypeOK'
  BY DEF TypeOK, Payload
<1>2. CreditSafe'
  BY DEF CreditSafe
<1>3. Counters'
  BY DEF Counters, EmptyNeeded, TypeOK
<1>4. Delivered'
  BY DEF Delivered
<1>5. Arriving'
  BY DEF Arriving, TypeOK
<1> QED
  BY <1>1, <1>2, <1>3, <1>4, <1>5

\* A byte that arrives belongs to a payload at least `credit` after any one
\* still in use, so it is not one of theirs.
LEMMA StepArrive == IInv /\ Arrive => IInv'
<1> SUFFICES ASSUME IInv, Arrive PROVE IInv'
  OBVIOUS
<1> USE NAssumption DEF static, consumer
<1>1. PICK b \in todo : /\ mem' = [mem EXCEPT ![b] = sent]
                        /\ todo' = todo \ {b}
  BY DEF Arrive
<1>2. /\ prod = "write" /\ sent < N /\ sent \in Payload
      /\ todo \subseteq landing[sent] /\ b \in landing[sent] /\ b \in Byte
  BY DEF IInv, Arrive, Counters, Arriving, TypeOK, Payload
<1>3. UNCHANGED <<landing, credit, prod, sent, cons, got, full, empty>>
  BY DEF Arrive
<1>4. mem' \in [Byte -> Payload \union {NoPayload}]
      /\ \A a \in Byte : mem'[a] = IF a = b THEN sent ELSE mem[a]
  BY <1>1, <1>2 DEF IInv, TypeOK
<1>5. TypeOK'
  BY <1>1, <1>3, <1>4 DEF IInv, TypeOK, Payload
<1>6. CreditSafe'
  BY <1>3 DEF IInv, CreditSafe
<1>7. Counters'
  BY <1>3 DEF IInv, Counters, EmptyNeeded
<1>8. Delivered'
  <2> SUFFICES ASSUME NEW n \in Payload, empty <= n, n < sent, NEW a \in landing[n]
               PROVE  mem'[a] = n
    BY <1>3 DEF Delivered
  <2>1. mem[a] = n /\ a \in Byte
    BY DEF IInv, Delivered, TypeOK
  <2>2. sent - n < credit
    BY <1>2 DEF IInv, Counters, EmptyNeeded, TypeOK, Payload
  <2>3. ~Overlaps(landing[n], landing[sent])
    BY <1>2, <2>2 DEF IInv, CreditSafe
  <2>4. a # b
    BY <1>2, <2>3 DEF Overlaps
  <2> QED
    BY <1>4, <2>1, <2>4
<1>9. Arriving'
  <2>1. \A a \in landing[sent] : a \in Byte
    BY <1>2 DEF IInv, TypeOK
  <2>2. \A a \in landing[sent] \ todo' : mem'[a] = sent
    BY <1>1, <1>2, <1>4, <2>1 DEF IInv, Arriving
  <2>3. todo' \subseteq landing[sent]
    BY <1>1, <1>2
  <2> QED
    BY <1>2, <1>3, <2>2, <2>3 DEF Arriving
<1> QED
  BY <1>5, <1>6, <1>7, <1>8, <1>9 DEF IInv

LEMMA StepBarrier == IInv /\ Barrier => IInv'
<1> SUFFICES ASSUME IInv, Barrier PROVE IInv'
  OBVIOUS
<1> USE NAssumption DEF IInv, Barrier, static, consumer
<1>1. TypeOK'
  BY DEF TypeOK, Payload
<1>2. CreditSafe'
  BY DEF CreditSafe
<1>3. Counters'
  BY DEF Counters, EmptyNeeded
<1>4. Delivered'
  BY DEF Delivered
<1>5. Arriving'
  BY DEF Arriving
<1> QED
  BY <1>1, <1>2, <1>3, <1>4, <1>5

LEMMA StepSignal == IInv /\ Signal => IInv'
<1> SUFFICES ASSUME IInv, Signal PROVE IInv'
  OBVIOUS
<1> USE NAssumption DEF Signal, static, consumer
<1>1. sent \in 0 .. N - 1 /\ full = sent /\ sent \in Payload
  BY DEF IInv, Counters, TypeOK, Payload
<1>2. TypeOK'
  BY <1>1 DEF IInv, TypeOK, Payload
<1>3. CreditSafe'
  BY DEF IInv, CreditSafe
<1>4. Counters'
  BY <1>1 DEF IInv, Counters, TypeOK
<1>5. Delivered'
  <2> SUFFICES ASSUME NEW n \in Payload, empty <= n, n < sent + 1, NEW b \in landing[n]
               PROVE  mem[b] = n
    BY DEF Delivered
  <2>1. CASE n = sent
    BY <2>1 DEF IInv, Arriving
  <2>2. CASE n < sent
    BY <2>2 DEF IInv, Delivered
  <2> QED
    BY <1>1, <2>1, <2>2 DEF Payload
<1>6. Arriving'
  BY DEF Arriving
<1> QED
  BY <1>2, <1>3, <1>4, <1>5, <1>6 DEF IInv

LEMMA StepRelease == IInv /\ Release => IInv'
<1> SUFFICES ASSUME IInv, Release PROVE IInv'
  OBVIOUS
<1> USE NAssumption DEF Release, static, producer
<1>1. empty' = got /\ empty' >= empty /\ got < N /\ got \in Nat /\ empty \in Nat /\ got' = got
  BY DEF IInv, Counters, TypeOK
<1>2. TypeOK'
  BY <1>1 DEF IInv, TypeOK, Payload
<1>3. CreditSafe'
  BY DEF IInv, CreditSafe
<1>4. EmptyNeeded(sent)' = EmptyNeeded(sent) /\ EmptyNeeded(sent) \in Int
  BY DEF IInv, EmptyNeeded, TypeOK
<1>5. Counters'
  BY <1>1, <1>4 DEF IInv, Counters
<1>6. Delivered'
  BY <1>1 DEF IInv, Delivered, Payload
<1>7. Arriving'
  BY DEF IInv, Arriving
<1> QED
  BY <1>2, <1>3, <1>5, <1>6, <1>7 DEF IInv

LEMMA StepWaitFull == IInv /\ WaitFull => IInv'
<1> SUFFICES ASSUME IInv, WaitFull PROVE IInv'
  OBVIOUS
<1> USE NAssumption DEF WaitFull, static, producer
<1>1. TypeOK'
  BY DEF IInv, TypeOK, Counters
<1>2. CreditSafe'
  BY DEF IInv, CreditSafe
<1>3. EmptyNeeded(sent)' = EmptyNeeded(sent)
  BY DEF EmptyNeeded
<1>4. Counters'
  BY <1>3 DEF IInv, Counters, TypeOK
<1>5. Delivered'
  BY DEF IInv, Delivered
<1>6. Arriving'
  BY DEF IInv, Arriving
<1> QED
  BY <1>1, <1>2, <1>4, <1>5, <1>6 DEF IInv

LEMMA StepStutter == IInv /\ UNCHANGED vars => IInv'
BY DEF IInv, TypeOK, CreditSafe, Counters, Delivered, Arriving, EmptyNeeded,
       vars, static, producer, consumer

-----------------------------------------------------------------------------
\* The invariant of the link holds for any number of payloads, any L1 and any
\* sequence of landing regions.
THEOREM LinkInductive == Spec => []IInv
<1>1. IInv /\ [Next]_vars => IInv'
  BY StepWaitEmpty, StepArrive, StepBarrier, StepSignal, StepRelease, StepWaitFull,
     StepStutter DEF Next, Producer, Consumer, Return
<1> QED
  BY InitIInv, <1>1, PTL DEF Spec

\* Type correctness of Link.
THEOREM LinkTypeCorrect == Spec => []TypeOK
<1>1. IInv => TypeOK
  BY DEF IInv
<1> QED
  BY LinkInductive, <1>1, PTL

\* For every link, a payload stays whole in the consumer's L1 from its delivery
\* until the next get of the link: the credit the emitter computes is safe.
THEOREM PayloadsStayIntact == Spec => []IntactWhileUsed
<1>1. IInv => IntactWhileUsed
  BY NAssumption DEF IInv, IntactWhileUsed, Counters, Delivered, TypeOK, Payload
<1> QED
  BY LinkInductive, <1>1, PTL

\* Every step of the link is a step of the FIFO of `credit` slots, or none.
THEOREM LinkIsFifo == Spec => Fifo!Init /\ [][Fifo!Next]_(Fifo!fvars)
<1>1. Init => Fifo!Init
  BY DEF Init, Fifo!Init
<1>2. IInv /\ [Next]_vars => [Fifo!Next]_(Fifo!fvars)
  <2> SUFFICES ASSUME IInv, [Next]_vars PROVE [Fifo!Next]_(Fifo!fvars)
    OBVIOUS
  <2> USE NAssumption DEF Fifo!fvars, static, producer, consumer
  <2>1. CASE WaitEmpty \/ Arrive \/ Barrier
    BY <2>1 DEF WaitEmpty, Arrive, Barrier
  <2>2. CASE Signal
    <3>1. Fifo!Put
      BY <2>2 DEF Signal, Fifo!Put, IInv, Counters, EmptyNeeded, TypeOK
    <3> QED
      BY <3>1 DEF Fifo!Next
  <2>3. CASE Release
    <3>1. CASE got > 0
      <4>1. Fifo!Free
        BY <2>3, <3>1 DEF Release, Fifo!Free, IInv, Counters, TypeOK
      <4> QED
        BY <4>1 DEF Fifo!Next
    <3>2. CASE ~(got > 0)
      BY <2>3, <3>2 DEF Release
    <3> QED
      BY <3>1, <3>2
  <2>4. CASE WaitFull
    <3>1. Fifo!Take
      BY <2>4 DEF WaitFull, Fifo!Take, IInv, Counters, TypeOK
    <3> QED
      BY <3>1 DEF Fifo!Next
  <2>5. CASE UNCHANGED vars
    BY <2>5 DEF vars
  <2> QED
    BY <2>1, <2>2, <2>3, <2>4, <2>5 DEF Next, Producer, Consumer, Return
<1> QED
  BY LinkInductive, <1>1, <1>2, PTL DEF Spec

-----------------------------------------------------------------------------
(* Sets of numbers, finite sets and their sizes.                             *)

\* A nonempty set of natural numbers has a least element.
LEMMA LeastNat == ASSUME NEW S, S \subseteq Nat, S # {} PROVE \E m \in S : \A n \in S : m <= n
<1> DEFINE R == {ss \in Nat \X Nat : ss[1] < ss[2]}
<1>1. IsWellFoundedOn(R, Nat)
  <2>1. OpToRel(<, Nat) = R
    BY Zenon DEF OpToRel
  <2> QED BY <2>1, NatLessThanWellFounded, Zenon
<1> HIDE DEF R
<1>2. PICK m \in S : \A n \in S : ~(<<n, m>> \in R)
  BY <1>1, WFMin
<1>3. ASSUME NEW n \in S, n < m PROVE FALSE
  <2>1. <<n, m>> \in Nat \X Nat /\ <<n, m>>[1] = n /\ <<n, m>>[2] = m
    OBVIOUS
  <2>2. <<n, m>> \in R
    BY <1>3, <2>1, Zenon DEF R
  <2> QED BY <1>2, <2>2
<1> QED BY <1>3

\* Subsets are no larger, proper ones smaller.
LEMMA SubsetSize ==
  ASSUME NEW S, IsFiniteSet(S), NEW T, T \subseteq S
  PROVE  /\ IsFiniteSet(T)
         /\ Cardinality(T) \in Nat /\ Cardinality(S) \in Nat
         /\ Cardinality(T) <= Cardinality(S)
         /\ \A x \in S : x \notin T => Cardinality(T) < Cardinality(S)
<1>1. IsFiniteSet(T) /\ Cardinality(T) <= Cardinality(S) /\ (Cardinality(S) = Cardinality(T) => S = T)
  BY FS_Subset, Zenon
<1>2. Cardinality(T) \in Nat /\ Cardinality(S) \in Nat
  BY <1>1, FS_CardinalityType
<1>3. ASSUME NEW x \in S, x \notin T PROVE Cardinality(S) # Cardinality(T)
  BY <1>1, <1>3
<1> QED BY <1>1, <1>2, <1>3

\* A one-to-one correspondence keeps the size.
LEMMA SameSize ==
  ASSUME NEW S, NEW T, IsFiniteSet(S), NEW f \in [S -> T],
         \A x, y \in S : f[x] = f[y] => x = y, \A t \in T : \E x \in S : f[x] = t
  PROVE  IsFiniteSet(T) /\ Cardinality(S) = Cardinality(T)
<1>1. f \in Bijection(S, T)
  BY Fun_IsBij, Fun_IsSurj, Zenon
<1>2. ExistsBijection(S, T)
  BY <1>1, Zenon DEF ExistsBijection
<1> QED BY <1>2, FS_Bijection, Zenon

\* Same size, and a correspondence that loses nothing: it reaches everything.
LEMMA OntoBySize ==
  ASSUME NEW S, NEW T, IsFiniteSet(T), Cardinality(S) = Cardinality(T), NEW f \in [S -> T],
         \A x, y \in S : f[x] = f[y] => x = y
  PROVE  \A t \in T : \E x \in S : f[x] = t
<1>1. f \in Injection(S, T)
  BY Fun_IsInj, Zenon
<1>2. f \in Surjection(S, T)
  BY <1>1, FS_Injection, Zenon
<1> QED BY <1>2, Fun_SurjectionProperties, Zenon

\* A finite family of finite sets.
LEMMA FiniteUnion ==
  ASSUME NEW F, IsFiniteSet(F), \A X \in F : IsFiniteSet(X)
  PROVE  IsFiniteSet(UNION F)
<1> DEFINE Bad == {T \in SUBSET F : ~IsFiniteSet(UNION T)}
           Sizes == {Cardinality(T) : T \in Bad}
<1>1. ASSUME NEW T \in SUBSET F PROVE IsFiniteSet(T) /\ Cardinality(T) \in Nat
  BY SubsetSize
<1>2. ASSUME Bad # {} PROVE FALSE
  <2>1. Sizes # {} /\ Sizes \subseteq Nat
    BY <1>1, <1>2
  <2>2. PICK k \in Sizes : \A j \in Sizes : k <= j
    BY <2>1, LeastNat
  <2>3. PICK T \in Bad : k = Cardinality(T)
    BY <2>2
  <2>4. T # {}
    <3>1. UNION {} = {}
      OBVIOUS
    <3> QED BY <2>3, <3>1, FS_EmptySet
  <2>5. PICK X \in T : TRUE
    BY <2>4
  <2>6. Cardinality(T \ {X}) = k - 1 /\ k \in Nat /\ T \ {X} \in SUBSET F
    BY <1>1, <2>1, <2>3, <2>5, FS_RemoveElement
  <2>7. T \ {X} \notin Bad
    <3>1. T \ {X} \in Bad => k - 1 \in Sizes
      BY <2>6
    <3>2. ~(k <= k - 1)
      BY <2>6
    <3> QED BY <2>2, <3>1, <3>2, Zenon
  <2>8. IsFiniteSet(UNION (T \ {X})) /\ IsFiniteSet(X)
    BY <2>5, <2>6, <2>7
  <2>9. UNION T = (UNION (T \ {X})) \cup X
    BY <2>5, Zenon
  <2>10. IsFiniteSet((UNION (T \ {X})) \cup X)
    BY <2>8, FS_Union, Zenon
  <2>11. IsFiniteSet(UNION T)
    BY <2>9, <2>10
  <2> QED BY <2>3, <2>11
<1>3. F \in SUBSET F
  OBVIOUS
<1> QED BY <1>2, <1>3

\* The image of a finite set.
LEMMA FiniteImage ==
  ASSUME NEW S, IsFiniteSet(S), NEW f, DOMAIN f = S
  PROVE  IsFiniteSet({f[x] : x \in S})
<1> DEFINE T == {f[x] : x \in S}
           g == [x \in S |-> f[x]]
<1>1. g \in [S -> T] /\ \A t \in T : \E x \in S : g[x] = t
  OBVIOUS
<1>2. g \in Surjection(S, T)
  BY <1>1, Fun_IsSurj, Zenon
<1> QED BY <1>2, FS_Surjection, Zenon

-----------------------------------------------------------------------------
(* Counting along a strict total order.                                      *)

IsStrictOrder(S, R) ==
  /\ \A x \in S : <<x, x>> \notin R
  /\ \A x, y, z \in S : <<x, y>> \in R /\ <<y, z>> \in R => <<x, z>> \in R
  /\ \A x, y \in S : x = y \/ <<x, y>> \in R \/ <<y, x>> \in R

Below(S, R, x) == {y \in S : <<y, x>> \in R}

\* The number of elements below x tells its place in a finite order.
LEMMA PlaceInOrder ==
  ASSUME NEW S, IsFiniteSet(S), NEW R, IsStrictOrder(S, R)
  PROVE  /\ \A x \in S : Cardinality(Below(S, R, x)) \in 0 .. Cardinality(S) - 1
         /\ \A x, y \in S :
              /\ <<x, y>> \in R <=> Cardinality(Below(S, R, x)) < Cardinality(Below(S, R, y))
              /\ Cardinality(Below(S, R, x)) = Cardinality(Below(S, R, y)) => x = y
         /\ \A k \in 0 .. Cardinality(S) - 1 : \E x \in S : Cardinality(Below(S, R, x)) = k
<1> DEFINE place == [x \in S |-> Cardinality(Below(S, R, x))]
           K == Cardinality(S)
<1>1. K \in Nat
  BY FS_CardinalityType
<1>2. ASSUME NEW x \in S PROVE place[x] \in 0 .. K - 1
  <2>1. Below(S, R, x) \subseteq S /\ x \notin Below(S, R, x)
    BY DEF Below, IsStrictOrder
  <2> QED BY <1>1, <2>1, SubsetSize
<1>3. ASSUME NEW x \in S, NEW y \in S, <<x, y>> \in R PROVE place[x] < place[y]
  <2>1. /\ Below(S, R, x) \subseteq Below(S, R, y) /\ Below(S, R, y) \subseteq S
        /\ x \in Below(S, R, y) /\ x \notin Below(S, R, x)
    BY <1>3 DEF Below, IsStrictOrder
  <2>2. IsFiniteSet(Below(S, R, y))
    BY <2>1, SubsetSize
  <2> QED BY <2>1, <2>2, SubsetSize
<1> HIDE DEF place, K
<1>4. ASSUME NEW x \in S, NEW y \in S PROVE (<<x, y>> \in R <=> place[x] < place[y]) /\ (place[x] = place[y] => x = y)
  <2>1. place[x] \in Int /\ place[y] \in Int
    BY <1>1, <1>2
  <2>2. x = y \/ <<x, y>> \in R \/ <<y, x>> \in R
    BY DEF IsStrictOrder
  <2> QED BY <1>3, <2>1, <2>2
<1>5. place \in [S -> 0 .. K - 1]
  BY <1>2 DEF place
<1>6. IsFiniteSet(0 .. K - 1) /\ Cardinality(0 .. K - 1) = K
  BY <1>1, FS_Interval
<1> DEFINE T == 0 .. K - 1
<1>7. \A k \in 0 .. K - 1 : \E x \in S : place[x] = k
  <2>1. \A x, y \in S : place[x] = place[y] => x = y
    BY <1>4
  <2>2. Cardinality(S) = Cardinality(0 .. K - 1)
    BY <1>6 DEF K
  <2> HIDE DEF T
  <2>3. place \in [S -> T] /\ IsFiniteSet(T) /\ Cardinality(S) = Cardinality(T)
    BY <1>5, <1>6, <2>2 DEF T
  <2>4. \A k \in T : \E x \in S : place[x] = k
    BY ONLY <2>1, <2>3, OntoBySize
  <2> QED BY <2>4 DEF T
<1> QED BY <1>2, <1>4, <1>7 DEF place, K

-----------------------------------------------------------------------------
(* Sites and occurrences in order.                                           *)

\* An occurrence is a site with a trip of its loop.
LEMMA OccurrenceIs ==
  ASSUME NEW E
  PROVE  /\ \A x \in Occurrences(E) : /\ x.node \in E /\ x.trip \in 1 .. x.node.trips
                                      /\ x = [node |-> x.node, trip |-> x.trip]
         /\ \A n \in E : \A t \in 1 .. n.trips : [node |-> n, trip |-> t] \in Occurrences(E)
<1>1. ASSUME NEW x \in Occurrences(E)
      PROVE  /\ x.node \in E /\ x.trip \in 1 .. x.node.trips
             /\ x = [node |-> x.node, trip |-> x.trip]
  <2>1. PICK n \in E : x \in {[node |-> n, trip |-> t] : t \in 1 .. n.trips}
    BY DEF Occurrences
  <2>2. PICK t \in 1 .. n.trips : x = [node |-> n, trip |-> t]
    BY <2>1
  <2> QED BY <2>2
<1>2. ASSUME NEW n \in E, NEW t \in 1 .. n.trips PROVE [node |-> n, trip |-> t] \in Occurrences(E)
  BY DEF Occurrences
<1> QED BY <1>1, <1>2

\* Finitely many sites have finitely many occurrences.
LEMMA OccurrencesFinite ==
  ASSUME NEW E, IsFiniteSet(E), \A n \in E : n.trips \in Nat
  PROVE  IsFiniteSet(Occurrences(E))
<1> DEFINE f == [n \in E |-> {[node |-> n, trip |-> t] : t \in 1 .. n.trips}]
<1>1. ASSUME NEW n \in E PROVE IsFiniteSet(f[n])
  <2> DEFINE g == [t \in 1 .. n.trips |-> [node |-> n, trip |-> t]]
             U == 1 .. n.trips
  <2>1. IsFiniteSet(U) /\ DOMAIN g = U
    BY FS_Interval
  <2>2. IsFiniteSet({g[t] : t \in U})
    <3> HIDE DEF g, U
    <3> QED BY <2>1, FiniteImage
  <2>3. {g[t] : t \in U} = f[n]
    OBVIOUS
  <2> QED BY <2>2, <2>3
<1>2. IsFiniteSet({f[n] : n \in E})
  <2>1. DOMAIN f = E
    OBVIOUS
  <2> HIDE DEF f
  <2> QED BY <2>1, FiniteImage
<1>3. IsFiniteSet(UNION {f[n] : n \in E})
  <2>1. \A X \in {f[n] : n \in E} : IsFiniteSet(X)
    BY <1>1
  <2> HIDE DEF f
  <2> QED BY <1>2, <2>1, FiniteUnion
<1>4. UNION {f[n] : n \in E} = Occurrences(E)
  BY DEF Occurrences
<1> QED BY <1>3, <1>4

\* The fields of a site.
LEMMA SiteFields ==
  ASSUME NEW p, IsPlan(p), NEW n \in p
  PROVE  /\ n.actor \in Actor /\ n.region \in Nat /\ n.pos \in Nat /\ n.trips \in Nat
         /\ n.ch \in Channel /\ n.kind \in {"put", "get"}
BY DEF IsPlan, Site

\* A line: sites of one actor, as at one end of a channel with one producer.
IsLine(p, E) == E \subseteq p /\ \A m, n \in E : m.actor = n.actor

TextOrder(E) == {e \in E \X E : Earlier(e[1], e[2])}
RunOrder(O)  == {e \in O \X O : Sooner(e[1], e[2])}

\* The text of a body orders the sites of a line.
LEMMA LineInText ==
  ASSUME NEW p, IsPlan(p), NEW E, IsLine(p, E)
  PROVE  IsFiniteSet(E) /\ IsStrictOrder(E, TextOrder(E))
<1>1. IsFiniteSet(E)
  BY SubsetSize DEF IsPlan, IsLine
<1>2. ASSUME NEW m \in E, NEW n \in E PROVE <<m, n>> \in TextOrder(E) <=> Earlier(m, n)
  BY DEF TextOrder
<1>3. ASSUME NEW n \in E PROVE n \in p /\ n.region \in Nat /\ n.pos \in Nat
  BY SiteFields DEF IsLine
<1>4. \A x \in E : <<x, x>> \notin TextOrder(E)
  BY <1>2, <1>3 DEF Earlier
<1>5. ASSUME NEW x \in E, NEW y \in E, NEW z \in E, Earlier(x, y), Earlier(y, z)
      PROVE  Earlier(x, z)
  BY <1>3, <1>5 DEF Earlier
<1>6. ASSUME NEW x \in E, NEW y \in E PROVE x = y \/ Earlier(x, y) \/ Earlier(y, x)
  <2>1. x.actor = y.actor
    BY DEF IsLine
  <2>2. x.region = y.region /\ x.pos = y.pos => x = y
    BY <1>3, <2>1 DEF IsPlan
  <2> QED BY <1>3, <2>1, <2>2 DEF Earlier
<1> QED BY <1>1, <1>2, <1>4, <1>5, <1>6 DEF IsStrictOrder

\* Its execution orders their occurrences.
LEMMA LineInRun ==
  ASSUME NEW p, IsPlan(p), NEW E, IsLine(p, E), NEW O, O = Occurrences(E)
  PROVE  IsFiniteSet(O) /\ IsStrictOrder(O, RunOrder(O))
<1>1. IsFiniteSet(O)
  <2>1. IsFiniteSet(E) /\ \A n \in E : n.trips \in Nat
    BY LineInText, SiteFields DEF IsLine
  <2> QED BY <2>1, OccurrencesFinite
<1>2. ASSUME NEW x \in O, NEW y \in O PROVE <<x, y>> \in RunOrder(O) <=> Sooner(x, y)
  BY DEF RunOrder
<1>3. ASSUME NEW x \in O
      PROVE  /\ x.node \in E /\ x.node \in p /\ x.node.region \in Nat /\ x.node.pos \in Nat /\ x.trip \in Nat
             /\ x = [node |-> x.node, trip |-> x.trip]
  <2>1. x.node \in E /\ x.trip \in 1 .. x.node.trips /\ x = [node |-> x.node, trip |-> x.trip]
    BY OccurrenceIs
  <2>2. x.node \in p
    BY <2>1 DEF IsLine
  <2> QED BY <2>1, <2>2, SiteFields
<1>4. \A x \in O : <<x, x>> \notin RunOrder(O)
  BY <1>2, <1>3 DEF Sooner
<1>5. ASSUME NEW x \in O, NEW y \in O, NEW z \in O, Sooner(x, y), Sooner(y, z)
      PROVE  Sooner(x, z)
  BY <1>3, <1>5 DEF Sooner
<1>6. ASSUME NEW x \in O, NEW y \in O PROVE x = y \/ Sooner(x, y) \/ Sooner(y, x)
  <2>1. x.node.actor = y.node.actor
    BY <1>3 DEF IsLine
  <2>2. x.node.region = y.node.region /\ x.node.pos = y.node.pos => x.node = y.node
    BY <1>3, <2>1 DEF IsPlan
  <2>3. x.node = y.node /\ x.trip = y.trip => x = y
    BY <1>3
  <2> QED BY <1>3, <2>1, <2>2, <2>3 DEF Sooner
<1> QED BY <1>1, <1>2, <1>4, <1>5, <1>6 DEF IsStrictOrder

\* The end of a channel with one actor at it.
IsEnd(p, E) == IsLine(p, E) /\ \E c, kind, actors : E = Ends(p, c, kind, actors)

\* A consumer, and a producer that is alone, is such an end.
LEMMA EndsAreLines ==
  ASSUME NEW p, IsPlan(p), NEW c
  PROVE  /\ \A a : IsEnd(p, GetEnd(p, c, a))
         /\ OneProducer(p, c) => IsEnd(p, PutEnd(p, c))
<1>1. \A kind, actors : \E c1, kind1, actors1 : Ends(p, c, kind, actors) = Ends(p, c1, kind1, actors1)
  OBVIOUS
<1>2. \A a : IsLine(p, GetEnd(p, c, a))
  BY DEF GetEnd, Ends, IsLine
<1>3. OneProducer(p, c) => IsLine(p, PutEnd(p, c))
  BY DEF PutEnd, Ends, IsLine, OneProducer
<1> QED BY <1>1, <1>2, <1>3, Zenon DEF IsEnd, PutEnd, GetEnd

\* Any site of it gives it back.
LEMMA EndOfSite ==
  ASSUME NEW p, NEW E, IsEnd(p, E), NEW n \in E
  PROVE  Ends(p, n.ch, n.kind, {n.actor}) = E
<1>1. PICK c, kind, actors : E = Ends(p, c, kind, actors)
  BY DEF IsEnd
<1>2. n \in p /\ n.ch = c /\ n.kind = kind /\ n.actor \in actors
  BY <1>1 DEF Ends
<1>3. ASSUME NEW m \in E PROVE m.actor = n.actor
  BY DEF IsLine, IsEnd
<1> QED BY <1>1, <1>2, <1>3 DEF Ends

\* On a line, the position of a site and the turn of an occurrence are its place.
LEMMA PositionInLine ==
  ASSUME NEW p, IsPlan(p), NEW E, IsEnd(p, E)
  PROVE  /\ \A n \in E : Position(p, n) \in 0 .. Cardinality(E) - 1
         /\ \A m, n \in E : /\ Earlier(m, n) <=> Position(p, m) < Position(p, n)
                            /\ Position(p, m) = Position(p, n) => m = n
         /\ \A k \in 0 .. Cardinality(E) - 1 : \E n \in E : Position(p, n) = k
<1> DEFINE R == TextOrder(E)
<1>1. ASSUME NEW n \in E PROVE Position(p, n) = Cardinality(Below(E, R, n))
  <2>1. Ends(p, n.ch, n.kind, {n.actor}) = E
    BY EndOfSite
  <2>2. Below(E, R, n) = {m \in E : Earlier(m, n)}
    BY DEF Below, TextOrder
  <2> QED BY <2>1, <2>2 DEF Position
<1>2. ASSUME NEW m \in E, NEW n \in E PROVE <<m, n>> \in R <=> Earlier(m, n)
  BY DEF TextOrder
<1>3. IsFiniteSet(E) /\ IsStrictOrder(E, R)
  BY LineInText DEF IsEnd
<1> HIDE DEF R
<1>4. /\ \A x \in E : Cardinality(Below(E, R, x)) \in 0 .. Cardinality(E) - 1
      /\ \A x, y \in E :
           /\ <<x, y>> \in R <=> Cardinality(Below(E, R, x)) < Cardinality(Below(E, R, y))
           /\ Cardinality(Below(E, R, x)) = Cardinality(Below(E, R, y)) => x = y
      /\ \A k \in 0 .. Cardinality(E) - 1 : \E x \in E : Cardinality(Below(E, R, x)) = k
  BY ONLY <1>3, PlaceInOrder
<1>5. \A n \in E : Position(p, n) \in 0 .. Cardinality(E) - 1
  BY <1>1, <1>4
<1>6. ASSUME NEW m \in E, NEW n \in E
      PROVE  /\ Earlier(m, n) <=> Position(p, m) < Position(p, n)
             /\ Position(p, m) = Position(p, n) => m = n
  <2>1. /\ <<m, n>> \in R <=> Cardinality(Below(E, R, m)) < Cardinality(Below(E, R, n))
        /\ Cardinality(Below(E, R, m)) = Cardinality(Below(E, R, n)) => m = n
    BY ONLY <1>4, m \in E, n \in E
  <2>2. Position(p, m) = Cardinality(Below(E, R, m)) /\ Position(p, n) = Cardinality(Below(E, R, n))
    BY <1>1
  <2>3. <<m, n>> \in R <=> Earlier(m, n)
    BY <1>2
  <2> QED BY <2>1, <2>2, <2>3
<1>7. \A k \in 0 .. Cardinality(E) - 1 : \E n \in E : Position(p, n) = k
  <2> SUFFICES ASSUME NEW k \in 0 .. Cardinality(E) - 1 PROVE \E n \in E : Position(p, n) = k
    OBVIOUS
  <2>1. PICK n \in E : Cardinality(Below(E, R, n)) = k
    BY <1>4
  <2> QED BY <1>1, <2>1
<1> QED BY <1>5, <1>6, <1>7

\* The turn of an occurrence is its place in the execution of its end.
LEMMA TurnInLine ==
  ASSUME NEW p, IsPlan(p), NEW E, IsEnd(p, E)
  PROVE  /\ IsFiniteSet(Occurrences(E))
         /\ \A x \in Occurrences(E) :
              /\ Turn(p, x) = Cardinality({y \in Occurrences(E) : Sooner(y, x)})
              /\ Turn(p, x) \in 0 .. Cardinality(Occurrences(E)) - 1
         /\ \A x, y \in Occurrences(E) : /\ Sooner(x, y) <=> Turn(p, x) < Turn(p, y)
                                         /\ Turn(p, x) = Turn(p, y) => x = y
<1> DEFINE O == Occurrences(E)
           R == RunOrder(O)
<1>1. ASSUME NEW x \in O
      PROVE  /\ Turn(p, x) = Cardinality(Below(O, R, x))
             /\ Below(O, R, x) = {y \in O : Sooner(y, x)}
  <2>1. x.node \in E
    BY OccurrenceIs
  <2>2. Ends(p, x.node.ch, x.node.kind, {x.node.actor}) = E
    BY <2>1, EndOfSite
  <2>3. Below(O, R, x) = {y \in O : Sooner(y, x)}
    BY DEF Below, RunOrder
  <2> QED BY <2>2, <2>3 DEF Turn
<1>2. ASSUME NEW x \in O, NEW y \in O PROVE <<x, y>> \in R <=> Sooner(x, y)
  BY DEF RunOrder
<1>3. IsFiniteSet(O) /\ IsStrictOrder(O, R)
  BY LineInRun DEF IsEnd
<1> HIDE DEF O, R
<1>4. /\ \A x \in O : Cardinality(Below(O, R, x)) \in 0 .. Cardinality(O) - 1
      /\ \A x, y \in O :
           /\ <<x, y>> \in R <=> Cardinality(Below(O, R, x)) < Cardinality(Below(O, R, y))
           /\ Cardinality(Below(O, R, x)) = Cardinality(Below(O, R, y)) => x = y
      /\ \A k \in 0 .. Cardinality(O) - 1 : \E x \in O : Cardinality(Below(O, R, x)) = k
  BY ONLY <1>3, PlaceInOrder
<1>5. \A x \in O : Turn(p, x) \in 0 .. Cardinality(O) - 1
  BY <1>1, <1>4
<1>6. ASSUME NEW x \in O, NEW y \in O
      PROVE  /\ Sooner(x, y) <=> Turn(p, x) < Turn(p, y)
             /\ Turn(p, x) = Turn(p, y) => x = y
  <2>1. /\ <<x, y>> \in R <=> Cardinality(Below(O, R, x)) < Cardinality(Below(O, R, y))
        /\ Cardinality(Below(O, R, x)) = Cardinality(Below(O, R, y)) => x = y
    BY ONLY <1>4, x \in O, y \in O
  <2>2. Turn(p, x) = Cardinality(Below(O, R, x)) /\ Turn(p, y) = Cardinality(Below(O, R, y))
    BY <1>1
  <2>3. <<x, y>> \in R <=> Sooner(x, y)
    BY <1>2
  <2> QED BY <2>1, <2>2, <2>3
<1>7. \A x \in O : Turn(p, x) = Cardinality({y \in O : Sooner(y, x)})
  <2> SUFFICES ASSUME NEW x \in O PROVE Turn(p, x) = Cardinality({y \in O : Sooner(y, x)})
    OBVIOUS
  <2>1. Turn(p, x) = Cardinality(Below(O, R, x)) /\ Below(O, R, x) = {y \in O : Sooner(y, x)}
    BY <1>1
  <2> QED BY <2>1
<1> QED BY <1>3, <1>5, <1>6, <1>7 DEF O

-----------------------------------------------------------------------------
(* The pairing of the two ends of a channel.                                 *)

\* Zipped sites are those at the same position.
LEMMA ZippedIs ==
  ASSUME NEW p, NEW c, NEW a, NEW m, NEW n
  PROVE  <<m, n>> \in Zipped(p, c, a) <=> /\ m \in PutEnd(p, c) /\ n \in GetEnd(p, c, a)
                                          /\ Position(p, m) = Position(p, n)
BY DEF Zipped, AllPairs, PutEnd, GetEnd

\* Where the sites zip, every one has its partner, in the same order.
LEMMA Partners ==
  ASSUME NEW p, IsPlan(p), NEW c, NEW a, Zips(p, c, a)
  PROVE  /\ \A n \in GetEnd(p, c, a) : \E m \in PutEnd(p, c) : <<m, n>> \in Zipped(p, c, a)
         /\ \A m \in PutEnd(p, c) : \E n \in GetEnd(p, c, a) : <<m, n>> \in Zipped(p, c, a)
         /\ \A m, k \in PutEnd(p, c) : \A n, l \in GetEnd(p, c, a) :
              <<m, n>> \in Zipped(p, c, a) /\ <<k, l>> \in Zipped(p, c, a) =>
                (Earlier(m, k) <=> Earlier(n, l)) /\ (m = k <=> n = l)
<1> DEFINE P == PutEnd(p, c)
           G == GetEnd(p, c, a)
<1>1. IsEnd(p, P) /\ IsEnd(p, G) /\ Cardinality(P) = Cardinality(G)
  <2>1. OneProducer(p, c) /\ Cardinality(P) = Cardinality(G)
    BY DEF Zips, PutEnd, GetEnd
  <2> QED BY <2>1, EndsAreLines
<1>2. /\ \A m \in P : Position(p, m) \in 0 .. Cardinality(P) - 1
      /\ \A m, k \in P : /\ Earlier(m, k) <=> Position(p, m) < Position(p, k)
                         /\ Position(p, m) = Position(p, k) => m = k
      /\ \A i \in 0 .. Cardinality(P) - 1 : \E m \in P : Position(p, m) = i
  BY <1>1, PositionInLine
<1>3. /\ \A n \in G : Position(p, n) \in 0 .. Cardinality(G) - 1
      /\ \A n, l \in G : /\ Earlier(n, l) <=> Position(p, n) < Position(p, l)
                         /\ Position(p, n) = Position(p, l) => n = l
      /\ \A i \in 0 .. Cardinality(G) - 1 : \E n \in G : Position(p, n) = i
  BY <1>1, PositionInLine
<1>4. ASSUME NEW m \in P, NEW n \in G
      PROVE  <<m, n>> \in Zipped(p, c, a) <=> Position(p, m) = Position(p, n)
  BY ZippedIs
<1> HIDE DEF P, G
<1>5. ASSUME NEW n \in G PROVE \E m \in P : <<m, n>> \in Zipped(p, c, a)
  BY <1>1, <1>2, <1>3, <1>4
<1>6. ASSUME NEW m \in P PROVE \E n \in G : <<m, n>> \in Zipped(p, c, a)
  BY <1>1, <1>2, <1>3, <1>4
<1>7. ASSUME NEW m \in P, NEW k \in P, NEW n \in G, NEW l \in G
      PROVE  <<m, n>> \in Zipped(p, c, a) /\ <<k, l>> \in Zipped(p, c, a) =>
               (Earlier(m, k) <=> Earlier(n, l)) /\ (m = k <=> n = l)
  <2> SUFFICES ASSUME <<m, n>> \in Zipped(p, c, a), <<k, l>> \in Zipped(p, c, a)
               PROVE  (Earlier(m, k) <=> Earlier(n, l)) /\ (m = k <=> n = l)
    OBVIOUS
  <2>1. Position(p, m) = Position(p, n) /\ Position(p, k) = Position(p, l)
    BY <1>4
  <2>2. (Earlier(m, k) <=> Position(p, m) < Position(p, k)) /\ (Position(p, m) = Position(p, k) => m = k)
    BY <1>2
  <2>3. (Earlier(n, l) <=> Position(p, n) < Position(p, l)) /\ (Position(p, n) = Position(p, l) => n = l)
    BY <1>3
  <2> QED BY <2>1, <2>2, <2>3
<1> QED BY <1>5, <1>6, <1>7 DEF P, G

\* Without loops an occurrence is its site.
LEMMA TurnIsPosition ==
  ASSUME NEW p, IsPlan(p), StraightLine(p), NEW E, IsEnd(p, E), NEW n \in E
  PROVE  /\ [node |-> n, trip |-> 1] \in Occurrences(E)
         /\ Turn(p, [node |-> n, trip |-> 1]) = Position(p, n)
<1> DEFINE O == Occurrences(E)
           x == [node |-> n, trip |-> 1]
           S == {m \in E : Earlier(m, n)}
           U == {y \in O : Sooner(y, x)}
           f == [m \in S |-> [node |-> m, trip |-> 1]]
<1>1. ASSUME NEW m \in E PROVE m.trips = 1 /\ m.actor = n.actor /\ m.region \in Nat /\ m.pos \in Nat
  BY SiteFields DEF StraightLine, IsLine, IsEnd
<1>2. ASSUME NEW y \in O PROVE y.node \in E /\ y.trip = 1 /\ y = [node |-> y.node, trip |-> 1]
  <2>1. y.node \in E /\ y.trip \in 1 .. y.node.trips /\ y = [node |-> y.node, trip |-> y.trip]
    BY OccurrenceIs
  <2> QED BY <1>1, <2>1
<1>3. ASSUME NEW m \in E PROVE [node |-> m, trip |-> 1] \in O
  <2>1. 1 \in 1 .. m.trips
    BY <1>1
  <2> QED BY <2>1, OccurrenceIs
<1>4. ASSUME NEW m \in E PROVE Earlier(m, n) <=> Sooner([node |-> m, trip |-> 1], x)
  BY <1>1 DEF Earlier, Sooner
<1>5. f \in [S -> U] /\ \A m, k \in S : f[m] = f[k] => m = k
  BY <1>3, <1>4
<1>6. ASSUME NEW y \in U PROVE \E m \in S : f[m] = y
  <2>1. y.node \in S
    BY <1>2, <1>4
  <2> QED BY <1>2, <2>1
<1>7. IsFiniteSet(S)
  BY LineInText, SubsetSize DEF IsEnd
<1>8. Cardinality(S) = Cardinality(U)
  <2> HIDE DEF S, U, f
  <2> QED BY <1>5, <1>6, <1>7, SameSize
<1>9. Position(p, n) = Cardinality(S)
  BY EndOfSite DEF Position
<1>10. Turn(p, x) = Cardinality(U)
  <2>1. \A y \in O : Turn(p, y) = Cardinality({z \in O : Sooner(z, y)})
    BY TurnInLine
  <2> QED BY <1>3, <2>1
<1> QED BY <1>3, <1>8, <1>9, <1>10

-----------------------------------------------------------------------------
(* Plans whose every body is balanced by itself.                             *)

\* A correspondence of puts and gets within every region.
RegionPairing(P, G) ==
  {f \in [P -> G] : /\ \A m \in P : f[m].region = m.region /\ f[m].trips = m.trips
                    /\ \A m, k \in P : f[m] = f[k] => m = k
                    /\ \A n \in G : \E m \in P : f[m] = n}

\* Sets of the same size in every region can be paired region by region.
LEMMA RegionsPair ==
  ASSUME NEW p, IsPlan(p), BalancedPerBody(p), NEW c \in Channel, NEW a \in Dests[c]
  PROVE  RegionPairing(PutEnd(p, c), GetEnd(p, c, a)) # {}
<1> DEFINE P == PutEnd(p, c)
           G == GetEnd(p, c, a)
           B(r) == CHOOSE g : g \in Bijection(InRegion(P, r), InRegion(G, r))
           f == [m \in P |-> B(m.region)[m]]
<1>1. P \subseteq p /\ G \subseteq p /\ IsFiniteSet(P) /\ IsFiniteSet(G)
  <2>1. P \subseteq p /\ G \subseteq p
    BY DEF Ends, PutEnd, GetEnd
  <2> QED BY <2>1, SubsetSize DEF IsPlan
<1>2. ASSUME NEW n \in p
      PROVE  /\ B(n.region) \in [InRegion(P, n.region) -> InRegion(G, n.region)]
             /\ \A m, k \in InRegion(P, n.region) : B(n.region)[m] = B(n.region)[k] => m = k
             /\ \A l \in InRegion(G, n.region) : \E m \in InRegion(P, n.region) : B(n.region)[m] = l
  <2> DEFINE PR == InRegion(P, n.region)
             GR == InRegion(G, n.region)
  <2>1. IsFiniteSet(PR) /\ IsFiniteSet(GR) /\ Cardinality(PR) = Cardinality(GR)
    <3>1. PR \subseteq P /\ GR \subseteq G
      BY DEF InRegion
    <3>2. IsFiniteSet(PR) /\ IsFiniteSet(GR)
      BY <1>1, <3>1, SubsetSize
    <3> QED BY <3>2 DEF BalancedPerBody, PutEnd, GetEnd
  <2> HIDE DEF PR, GR
  <2>2. \E g : g \in Bijection(PR, GR)
    BY <2>1, FS_SameCardinalityBij, Zenon DEF ExistsBijection
  <2>3. (CHOOSE g : g \in Bijection(PR, GR)) \in Bijection(PR, GR)
    BY <2>2, Zenon
  <2>4. B(n.region) \in Bijection(PR, GR)
    BY <2>3, Zenon DEF PR, GR
  <2> DEFINE g == B(n.region)
  <2>5. g \in Bijection(PR, GR)
    BY <2>4
  <2> HIDE DEF B, g
  <2>6. /\ g \in [PR -> GR] /\ \A m, k \in PR : g[m] = g[k] => m = k
        /\ \A l \in GR : \E m \in PR : g[m] = l
    BY <2>5, Fun_BijectionProperties
  <2> QED BY <2>6, Zenon DEF PR, GR, g
<1> HIDE DEF B, P, G
<1>3. ASSUME NEW m \in P PROVE f[m] \in G /\ f[m].region = m.region /\ f[m].trips = m.trips
  <2>1. m \in InRegion(P, m.region) /\ m \in p
    BY <1>1 DEF InRegion
  <2>2. f[m] \in InRegion(G, m.region)
    BY <1>2, <2>1
  <2> QED BY <1>1, <2>1, <2>2 DEF InRegion, BalancedPerBody
<1>4. ASSUME NEW m \in P, NEW k \in P, f[m] = f[k] PROVE m = k
  <2>1. m.region = k.region
    BY <1>3, <1>4
  <2>2. m \in InRegion(P, m.region) /\ k \in InRegion(P, m.region) /\ m \in p
    BY <1>1, <2>1 DEF InRegion
  <2> QED BY <1>2, <1>4, <2>1, <2>2
<1>5. ASSUME NEW n \in G PROVE \E m \in P : f[m] = n
  <2>1. n \in p /\ n \in InRegion(G, n.region)
    BY <1>1 DEF InRegion
  <2>2. PICK m \in InRegion(P, n.region) : B(n.region)[m] = n
    BY <1>2, <2>1
  <2>3. m \in P /\ m.region = n.region
    BY <2>2 DEF InRegion
  <2> QED BY <2>2, <2>3
<1>6. f \in [P -> G]
  BY <1>3
<1>7. f \in RegionPairing(P, G)
  <2> HIDE DEF f
  <2> QED BY <1>3, <1>4, <1>5, <1>6 DEF RegionPairing
<1> QED BY <1>7 DEF P, G

\* As many puts as gets before any region.
RegionsTo(E, r) == {m \in E : m.region < r}

\* The pairing restricts to the regions before any one.
LEMMA RegionSizes ==
  ASSUME NEW p, IsPlan(p), BalancedPerBody(p), NEW c \in Channel, NEW a \in Dests[c], NEW r
  PROVE  /\ IsFiniteSet(RegionsTo(PutEnd(p, c), r))
         /\ IsFiniteSet(RegionsTo(GetEnd(p, c, a), r))
         /\ Cardinality(RegionsTo(PutEnd(p, c), r)) =
              Cardinality(RegionsTo(GetEnd(p, c, a), r))
<1> DEFINE P == PutEnd(p, c)
           G == GetEnd(p, c, a)
           S == RegionsTo(P, r)
           U == RegionsTo(G, r)
<1>1. PICK f \in RegionPairing(P, G) : TRUE
  BY RegionsPair
<1>2. IsFiniteSet(S)
  <2>1. S \subseteq p
    BY DEF Ends, PutEnd, RegionsTo
  <2> QED BY <2>1, SubsetSize DEF IsPlan
<1> HIDE DEF P, G
<1>3. /\ f \in [P -> G]
      /\ \A m \in P : f[m].region = m.region /\ f[m].trips = m.trips
      /\ \A m, k \in P : f[m] = f[k] => m = k
      /\ \A n \in G : \E m \in P : f[m] = n
  BY <1>1 DEF RegionPairing
<1> DEFINE g == [m \in S |-> f[m]]
<1>4. g \in [S -> U] /\ \A m, k \in S : g[m] = g[k] => m = k
  BY <1>3 DEF RegionsTo
<1>5. ASSUME NEW n \in U PROVE \E m \in S : g[m] = n
  <2>1. PICK m \in P : f[m] = n
    BY <1>3 DEF RegionsTo
  <2>2. m \in S
    BY <1>3, <2>1 DEF RegionsTo
  <2> QED BY <2>1, <2>2
<1> HIDE DEF S, U, g
<1>6. IsFiniteSet(U) /\ Cardinality(S) = Cardinality(U)
  BY <1>2, <1>4, <1>5, SameSize
<1> QED BY <1>2, <1>6 DEF S, U, P, G

\* Then the partners of a channel are in the same region.
LEMMA ZipKeepsRegion ==
  ASSUME NEW p, IsPlan(p), BalancedPerBody(p), NEW c \in Channel, NEW a \in Dests[c], Zips(p, c, a),
         NEW m, NEW n, <<m, n>> \in Zipped(p, c, a)
  PROVE  m.region = n.region /\ m.trips = n.trips
<1> DEFINE P == PutEnd(p, c)
           G == GetEnd(p, c, a)
<1>1. m \in P /\ n \in G /\ Position(p, m) = Position(p, n)
  BY ZippedIs
<1>2. IsEnd(p, P) /\ IsEnd(p, G)
  <2>1. OneProducer(p, c)
    BY DEF Zips
  <2> QED BY <2>1, EndsAreLines
<1>3. P \subseteq p /\ G \subseteq p
  BY DEF Ends, PutEnd, GetEnd
<1>4. Position(p, m) = Cardinality({k \in P : Earlier(k, m)})
  <2>1. Ends(p, m.ch, m.kind, {m.actor}) = P
    BY <1>1, <1>2, EndOfSite
  <2> QED BY <2>1 DEF Position
<1>5. Position(p, n) = Cardinality({k \in G : Earlier(k, n)})
  <2>1. Ends(p, n.ch, n.kind, {n.actor}) = G
    BY <1>1, <1>2, EndOfSite
  <2> QED BY <2>1 DEF Position
<1>6. /\ \A k \in P : k.region \in Nat /\ k.pos \in Nat /\ k.actor = m.actor
      /\ \A k \in G : k.region \in Nat /\ k.pos \in Nat /\ k.actor = n.actor
  BY <1>1, <1>2, <1>3, SiteFields DEF IsLine, IsEnd
<1>7. ASSUME NEW E, NEW e \in E, NEW r \in Nat, e.region < r, IsFiniteSet(RegionsTo(E, r)),
             \A k \in E : k.region \in Nat /\ k.pos \in Nat /\ k.actor = e.actor
      PROVE  Cardinality({k \in E : Earlier(k, e)}) < Cardinality(RegionsTo(E, r))
  <2>1. /\ {k \in E : Earlier(k, e)} \subseteq RegionsTo(E, r)
        /\ e \in RegionsTo(E, r) /\ e \notin {k \in E : Earlier(k, e)}
    BY <1>7 DEF Earlier, RegionsTo
  <2> QED BY <1>7, <2>1, SubsetSize
<1>8. ASSUME NEW E, NEW e \in E, IsFiniteSet(E),
             \A k \in E : k.region \in Nat /\ k.pos \in Nat /\ k.actor = e.actor
      PROVE  /\ Cardinality(RegionsTo(E, e.region)) <= Cardinality({k \in E : Earlier(k, e)})
             /\ Cardinality({k \in E : Earlier(k, e)}) \in Nat
  <2>1. RegionsTo(E, e.region) \subseteq {k \in E : Earlier(k, e)}
    BY <1>8 DEF Earlier, RegionsTo
  <2>2. IsFiniteSet({k \in E : Earlier(k, e)})
    BY <1>8, SubsetSize
  <2> QED BY <2>1, <2>2, SubsetSize
<1>9. IsFiniteSet(P) /\ IsFiniteSet(G)
  BY <1>2, LineInText DEF IsEnd
<1>13. ASSUME NEW r
       PROVE  /\ IsFiniteSet(RegionsTo(P, r)) /\ IsFiniteSet(RegionsTo(G, r))
              /\ Cardinality(RegionsTo(P, r)) = Cardinality(RegionsTo(G, r))
              /\ Cardinality(RegionsTo(G, r)) \in Nat
  <2>1. /\ IsFiniteSet(RegionsTo(P, r)) /\ IsFiniteSet(RegionsTo(G, r))
        /\ Cardinality(RegionsTo(P, r)) = Cardinality(RegionsTo(G, r))
    BY RegionSizes
  <2> QED BY <2>1, FS_CardinalityType
<1> HIDE DEF P, G
<1>10. ASSUME m.region < n.region PROVE FALSE
  <2>1. /\ IsFiniteSet(RegionsTo(P, n.region))
        /\ Cardinality(RegionsTo(P, n.region)) = Cardinality(RegionsTo(G, n.region))
        /\ Cardinality(RegionsTo(G, n.region)) \in Nat
    BY <1>13
  <2>2. Position(p, m) < Cardinality(RegionsTo(P, n.region))
    BY <1>1, <1>4, <1>6, <1>7, <1>10, <2>1
  <2>3. Cardinality(RegionsTo(G, n.region)) <= Position(p, n) /\ Position(p, n) \in Nat
    BY <1>1, <1>5, <1>6, <1>8, <1>9
  <2> QED BY <1>1, <2>1, <2>2, <2>3
<1>11. ASSUME n.region < m.region PROVE FALSE
  <2>1. /\ IsFiniteSet(RegionsTo(G, m.region))
        /\ Cardinality(RegionsTo(P, m.region)) = Cardinality(RegionsTo(G, m.region))
        /\ Cardinality(RegionsTo(G, m.region)) \in Nat
    BY <1>13
  <2>2. Position(p, n) < Cardinality(RegionsTo(G, m.region))
    BY <1>1, <1>5, <1>6, <1>7, <1>11, <2>1
  <2>3. Cardinality(RegionsTo(P, m.region)) <= Position(p, m) /\ Position(p, m) \in Nat
    BY <1>1, <1>4, <1>6, <1>8, <1>9
  <2> QED BY <1>1, <2>1, <2>2, <2>3
<1>12. m.region = n.region
  <2>1. m.region \in Nat /\ n.region \in Nat
    BY <1>1, <1>6
  <2> QED BY <1>10, <1>11, <2>1
<1> QED BY <1>1, <1>3, <1>12 DEF BalancedPerBody

\* And their occurrences in a trip come at the same turn.
LEMMA TurnsAgree ==
  ASSUME NEW p, IsPlan(p), BalancedPerBody(p), NEW c \in Channel, NEW a \in Dests[c], Zips(p, c, a),
         NEW m, NEW n, <<m, n>> \in Zipped(p, c, a), NEW t \in 1 .. m.trips
  PROVE  /\ [node |-> m, trip |-> t] \in Occurrences(PutEnd(p, c))
         /\ [node |-> n, trip |-> t] \in Occurrences(GetEnd(p, c, a))
         /\ Turn(p, [node |-> m, trip |-> t]) = Turn(p, [node |-> n, trip |-> t])
<1> DEFINE P == PutEnd(p, c)
           G == GetEnd(p, c, a)
           OP == Occurrences(P)
           OG == Occurrences(G)
           x == [node |-> m, trip |-> t]
           y == [node |-> n, trip |-> t]
           Z == Zipped(p, c, a)
           S == {o \in OP : Sooner(o, x)}
           U == {o \in OG : Sooner(o, y)}
<1>1. m \in P /\ n \in G /\ m.trips = n.trips /\ m.region = n.region
  BY ZippedIs, ZipKeepsRegion
<1>2. x \in OP /\ y \in OG
  BY <1>1, OccurrenceIs
<1>3. IsEnd(p, P) /\ IsEnd(p, G)
  <2>1. OneProducer(p, c)
    BY DEF Zips
  <2> QED BY <2>1, EndsAreLines
<1>4. Turn(p, x) = Cardinality(S) /\ IsFiniteSet(OP)
  BY <1>2, <1>3, TurnInLine
<1>5. Turn(p, y) = Cardinality(U)
  BY <1>2, <1>3, TurnInLine
<1>6. /\ \A l \in G : \E k \in P : <<k, l>> \in Z
      /\ \A k \in P : \E l \in G : <<k, l>> \in Z
      /\ \A k, k2 \in P : \A l, l2 \in G : <<k, l>> \in Z /\ <<k2, l2>> \in Z =>
           (Earlier(k, k2) <=> Earlier(l, l2)) /\ (k = k2 <=> l = l2)
  BY Partners
<1>7. ASSUME NEW k, NEW l, <<k, l>> \in Z
      PROVE  k \in P /\ l \in G /\ k.region = l.region /\ k.trips = l.trips
  <2>1. k.region = l.region /\ k.trips = l.trips
    BY <1>7, ZipKeepsRegion
  <2>2. k \in P /\ l \in G
    BY <1>7, ZippedIs, Zenon
  <2> QED BY <2>1, <2>2
<1> DEFINE z == [k \in P |-> CHOOSE l \in G : <<k, l>> \in Z]
<1>8. ASSUME NEW k \in P PROVE <<k, z[k]>> \in Z /\ z[k] \in G
  BY <1>6
<1>9. /\ \A o \in OP : o.node \in P /\ o.trip \in 1 .. o.node.trips /\ o = [node |-> o.node, trip |-> o.trip]
      /\ \A o \in OG : o.node \in G /\ o.trip \in 1 .. o.node.trips /\ o = [node |-> o.node, trip |-> o.trip]
      /\ \A k \in P : \A s \in 1 .. k.trips : [node |-> k, trip |-> s] \in OP
      /\ \A l \in G : \A s \in 1 .. l.trips : [node |-> l, trip |-> s] \in OG
  BY OccurrenceIs
<1>10. /\ \A k \in P : k.actor = m.actor /\ k.region \in Nat /\ k.pos \in Nat
       /\ \A l \in G : l.actor = n.actor /\ l.region \in Nat /\ l.pos \in Nat
  <2>1. \A k \in p : k.region \in Nat /\ k.pos \in Nat
    BY SiteFields
  <2> QED BY <1>1, <1>3, <2>1 DEF IsLine, IsEnd
<1> HIDE DEF P, G, OP, OG, Z, z
<1>11. ASSUME NEW k, NEW l, <<k, l>> \in Z, NEW s \in Nat
       PROVE  Sooner([node |-> k, trip |-> s], x) <=> Sooner([node |-> l, trip |-> s], y)
  <2>1. Earlier(k, m) <=> Earlier(l, n)
    <3>1. <<m, n>> \in Z
      BY DEF Z
    <3> QED BY <1>1, <1>6, <1>7, <1>11, <3>1
  <2>2. k.region = l.region /\ k \in P /\ l \in G
    BY <1>7, <1>11
  <2>3. k.region = m.region => (k.pos < m.pos <=> l.pos < n.pos)
    BY <1>1, <1>10, <2>1, <2>2 DEF Earlier
  <2> QED BY <1>1, <1>10, <2>2, <2>3 DEF Sooner
<1> DEFINE f == [o \in S |-> [node |-> z[o.node], trip |-> o.trip]]
<1>12. ASSUME NEW o \in S PROVE f[o] \in U
  <2>1. o.node \in P /\ o.trip \in 1 .. o.node.trips /\ o = [node |-> o.node, trip |-> o.trip]
    BY <1>9
  <2>2. <<o.node, z[o.node]>> \in Z
    BY <1>8, <2>1
  <2>3. z[o.node] \in G /\ z[o.node].trips = o.node.trips
    BY <1>7, <2>2
  <2>4. [node |-> z[o.node], trip |-> o.trip] \in OG
    BY <1>9, <2>1, <2>3
  <2>5. o.trip \in Nat
    BY <2>1
  <2>6. Sooner([node |-> z[o.node], trip |-> o.trip], y)
    BY <1>11, <2>1, <2>2, <2>5
  <2> QED BY <2>4, <2>6
<1>13. ASSUME NEW o \in S, NEW u \in S, f[o] = f[u] PROVE o = u
  <2>1. /\ o.node \in P /\ o = [node |-> o.node, trip |-> o.trip]
        /\ u.node \in P /\ u = [node |-> u.node, trip |-> u.trip]
    BY <1>9
  <2>2. z[o.node] = z[u.node] /\ o.trip = u.trip
    BY <1>13
  <2>3. <<o.node, z[o.node]>> \in Z /\ <<u.node, z[o.node]>> \in Z /\ z[o.node] \in G
    BY <1>8, <2>1, <2>2
  <2>4. o.node = u.node
    BY <1>6, <2>1, <2>3
  <2> QED BY <2>1, <2>2, <2>4
<1>14. ASSUME NEW u \in U PROVE \E o \in S : f[o] = u
  <2>1. u.node \in G /\ u.trip \in 1 .. u.node.trips /\ u = [node |-> u.node, trip |-> u.trip]
    BY <1>9
  <2>2. PICK k \in P : <<k, u.node>> \in Z
    BY <1>6, <2>1
  <2>3. z[k] = u.node
    <3>1. <<k, z[k]>> \in Z /\ z[k] \in G
      BY <1>8
    <3> QED BY <1>6, <2>1, <2>2, <3>1
  <2>4. k.trips = u.node.trips
    BY <1>7, <2>2
  <2>5. [node |-> k, trip |-> u.trip] \in OP
    BY <1>9, <2>1, <2>4
  <2>6. u.trip \in Nat
    BY <2>1
  <2>7. Sooner([node |-> k, trip |-> u.trip], x)
    BY <1>11, <2>1, <2>2, <2>6
  <2> QED BY <2>1, <2>3, <2>5, <2>7
<1>15. IsFiniteSet(S)
  BY <1>4, SubsetSize
<1>16. f \in [S -> U]
  BY <1>12
<1>17. Cardinality(S) = Cardinality(U)
  <2> HIDE DEF f, S, U
  <2> QED BY <1>13, <1>14, <1>15, <1>16, SameSize
<1> QED BY <1>2, <1>4, <1>5, <1>17 DEF P, G, OP, OG

\* As many puts as gets up to any trip of any region.
UpTo(O, r, t) == {x \in O : x.node.region < r \/ (x.node.region = r /\ x.trip <= t)}

\* The pairing restricts to the trips up to any one.
LEMMA SlotSizes ==
  ASSUME NEW p, IsPlan(p), BalancedPerBody(p), NEW c \in Channel, NEW a \in Dests[c], NEW r, NEW t
  PROVE  /\ IsFiniteSet(Occurrences(PutEnd(p, c))) /\ IsFiniteSet(Occurrences(GetEnd(p, c, a)))
         /\ Cardinality(UpTo(Occurrences(PutEnd(p, c)), r, t)) =
              Cardinality(UpTo(Occurrences(GetEnd(p, c, a)), r, t))
<1> DEFINE P == PutEnd(p, c)
           G == GetEnd(p, c, a)
           OP == Occurrences(P)
           OG == Occurrences(G)
           S == UpTo(OP, r, t)
           U == UpTo(OG, r, t)
<1>f. PICK f \in RegionPairing(P, G) : TRUE
  BY RegionsPair
<1>1. /\ f \in [P -> G]
      /\ \A m \in P : f[m].region = m.region /\ f[m].trips = m.trips
      /\ \A m, k \in P : f[m] = f[k] => m = k
      /\ \A n \in G : \E m \in P : f[m] = n
  <2> HIDE DEF P, G
  <2> QED BY <1>f DEF RegionPairing
<1>2. IsFiniteSet(OP) /\ IsFiniteSet(OG)
  <2>1. P \subseteq p /\ G \subseteq p
    BY DEF Ends, PutEnd, GetEnd
  <2>2. IsFiniteSet(P) /\ IsFiniteSet(G)
    BY <2>1, SubsetSize DEF IsPlan
  <2> QED BY <2>1, <2>2, SiteFields, OccurrencesFinite
<1>3. /\ \A o \in OP : o.node \in P /\ o.trip \in 1 .. o.node.trips /\ o = [node |-> o.node, trip |-> o.trip]
      /\ \A o \in OG : o.node \in G /\ o.trip \in 1 .. o.node.trips /\ o = [node |-> o.node, trip |-> o.trip]
      /\ \A k \in P : \A s \in 1 .. k.trips : [node |-> k, trip |-> s] \in OP
      /\ \A l \in G : \A s \in 1 .. l.trips : [node |-> l, trip |-> s] \in OG
  BY OccurrenceIs
<1> HIDE DEF P, G, OP, OG
<1> DEFINE g == [o \in S |-> [node |-> f[o.node], trip |-> o.trip]]
<1>4. ASSUME NEW o \in S PROVE g[o] \in U
  <2>1. o \in OP /\ o.node \in P /\ o.trip \in 1 .. f[o.node].trips /\ f[o.node] \in G
    BY <1>1, <1>3 DEF UpTo
  <2>2. [node |-> f[o.node], trip |-> o.trip] \in OG
    BY <1>3, <2>1
  <2>3. f[o.node].region = o.node.region
    BY <1>1, <2>1
  <2> QED BY <2>2, <2>3 DEF UpTo
<1>5. ASSUME NEW o \in S, NEW u \in S, g[o] = g[u] PROVE o = u
  <2>1. /\ o.node \in P /\ o = [node |-> o.node, trip |-> o.trip]
        /\ u.node \in P /\ u = [node |-> u.node, trip |-> u.trip]
    BY <1>3 DEF UpTo
  <2>2. f[o.node] = f[u.node] /\ o.trip = u.trip
    BY <1>5
  <2> QED BY <1>1, <2>1, <2>2
<1>6. ASSUME NEW u \in U PROVE \E o \in S : g[o] = u
  <2>1. u \in OG /\ u.node \in G /\ u.trip \in 1 .. u.node.trips /\ u = [node |-> u.node, trip |-> u.trip]
    BY <1>3 DEF UpTo
  <2>2. PICK k \in P : f[k] = u.node
    BY <1>1, <2>1
  <2>3. k.region = u.node.region /\ k.trips = u.node.trips
    BY <1>1, <2>2
  <2>4. [node |-> k, trip |-> u.trip] \in OP
    BY <1>3, <2>1, <2>3
  <2>5. [node |-> k, trip |-> u.trip] \in S
    BY <2>3, <2>4 DEF UpTo
  <2> QED BY <2>1, <2>2, <2>5
<1>7. IsFiniteSet(S)
  BY <1>2, SubsetSize DEF UpTo
<1>8. g \in [S -> U]
  BY <1>4
<1>9. Cardinality(S) = Cardinality(U)
  <2> HIDE DEF g, S, U
  <2> QED BY <1>5, <1>6, <1>7, <1>8, SameSize
<1> QED BY <1>2, <1>9 DEF P, G, OP, OG

-----------------------------------------------------------------------------
(* The state of a run.                                                       *)

USE DestsAssumption, PlansAssumption

\* Only destinations get.
LEMMA GetterIsDest ==
  ASSUME NEW p, IsPlan(p), Balanced(p), NEW x \in Occurrences(p), x.node.kind = "get"
  PROVE  x.node.actor \in Dests[x.node.ch]
<1> DEFINE c == x.node.ch
           E == Ends(p, c, "get", Actor \ Dests[c])
<1>1. x.node \in p /\ x.trip \in 1 .. x.node.trips /\ x = [node |-> x.node, trip |-> x.trip]
  BY OccurrenceIs
<1>2. c \in Channel /\ x.node.actor \in Actor
  BY <1>1, SiteFields
<1>3. Cardinality(Occurrences(E)) = 0
  BY <1>2 DEF Balanced, Trips
<1>4. IsFiniteSet(Occurrences(E))
  <2>1. E \subseteq p
    BY DEF Ends
  <2>2. IsFiniteSet(E) /\ \A n \in E : n.trips \in Nat
    BY <2>1, SubsetSize, SiteFields DEF IsPlan
  <2> QED BY <2>2, OccurrencesFinite
<1>5. Occurrences(E) = {}
  BY <1>3, <1>4, FS_EmptySet
<1>6. SUFFICES ASSUME x.node.actor \notin Dests[c] PROVE FALSE
  OBVIOUS
<1>7. x.node \in E
  BY <1>1, <1>2, <1>6 DEF Ends
<1> HIDE DEF E
<1>8. [node |-> x.node, trip |-> x.trip] \in Occurrences(E)
  BY <1>1, <1>7, OccurrenceIs
<1> QED BY <1>5, <1>8

\* What an actor has left.
LEMMA LeftIs ==
  ASSUME PlanInv, NEW a \in Actor, NEW x \in left[a]
  PROVE  /\ x \in Occurrences(plan) /\ x.node \in plan /\ x.node.actor = a
         /\ x.trip \in 1 .. x.node.trips /\ x = [node |-> x.node, trip |-> x.trip]
         /\ x.node.ch \in Channel /\ x.node.kind \in {"put", "get"}
         /\ x.node.kind = "get" => a \in Dests[x.node.ch]
<1>1. x \in Occurrences(plan) /\ IsPlan(plan) /\ Balanced(plan)
  BY DEF PlanInv, PlanTypeOK
<1>2. x.node \in plan /\ x.trip \in 1 .. x.node.trips /\ x = [node |-> x.node, trip |-> x.trip]
  BY <1>1, OccurrenceIs
<1>3. x.node.actor = a
  BY DEF PlanInv, InBodyOrder
<1>4. x.node.ch \in Channel /\ x.node.kind \in {"put", "get"}
  BY <1>1, <1>2, SiteFields
<1> QED BY <1>1, <1>2, <1>3, <1>4, GetterIsDest

\* The occurrences of an end of a channel.
LEMMA EndOccurrences ==
  ASSUME NEW p, IsPlan(p), NEW c, NEW a
  PROVE  /\ \A x : x \in Occurrences(PutEnd(p, c)) <=>
              x \in Occurrences(p) /\ x.node.ch = c /\ x.node.kind = "put"
         /\ \A x : x \in Occurrences(GetEnd(p, c, a)) <=>
              x \in Occurrences(p) /\ x.node.ch = c /\ x.node.kind = "get" /\ x.node.actor = a
         /\ IsFiniteSet(Occurrences(PutEnd(p, c))) /\ IsFiniteSet(Occurrences(GetEnd(p, c, a)))
<1>1. \A n : n \in PutEnd(p, c) <=> n \in p /\ n.ch = c /\ n.kind = "put"
  BY SiteFields DEF PutEnd, Ends
<1>2. \A n : n \in GetEnd(p, c, a) <=> n \in p /\ n.ch = c /\ n.kind = "get" /\ n.actor = a
  BY DEF GetEnd, Ends
<1>3. ASSUME NEW E, E \subseteq p
      PROVE  /\ \A x : x \in Occurrences(E) <=> x \in Occurrences(p) /\ x.node \in E
             /\ IsFiniteSet(Occurrences(E))
  <2>1. /\ \A x \in Occurrences(E) : x.node \in E /\ x.trip \in 1 .. x.node.trips
                                     /\ x = [node |-> x.node, trip |-> x.trip]
        /\ \A x \in Occurrences(p) : x.trip \in 1 .. x.node.trips
                                     /\ x = [node |-> x.node, trip |-> x.trip]
        /\ \A n \in E : \A t \in 1 .. n.trips : [node |-> n, trip |-> t] \in Occurrences(E)
        /\ \A n \in p : \A t \in 1 .. n.trips : [node |-> n, trip |-> t] \in Occurrences(p)
    BY OccurrenceIs
  <2>2. ASSUME NEW x \in Occurrences(E) PROVE x \in Occurrences(p) /\ x.node \in E
    BY <1>3, <2>1
  <2>3. ASSUME NEW x \in Occurrences(p), x.node \in E PROVE x \in Occurrences(E)
    <3>1. [node |-> x.node, trip |-> x.trip] \in Occurrences(E)
      BY <2>1, <2>3
    <3> QED BY <2>1, <3>1
  <2>4. IsFiniteSet(Occurrences(E))
    <3>1. IsFiniteSet(E) /\ \A n \in E : n.trips \in Nat
      BY <1>3, SubsetSize, SiteFields DEF IsPlan
    <3> QED BY <3>1, OccurrencesFinite
  <2> QED BY <2>2, <2>3, <2>4
<1>4. PutEnd(p, c) \subseteq p /\ GetEnd(p, c, a) \subseteq p
  BY <1>1, <1>2
<1>5. \A x \in Occurrences(p) : x.node \in p
  BY OccurrenceIs
<1>6. ASSUME NEW x PROVE x \in Occurrences(PutEnd(p, c)) <=>
                           x \in Occurrences(p) /\ x.node.ch = c /\ x.node.kind = "put"
  BY <1>1, <1>3, <1>4, <1>5
<1>7. ASSUME NEW x PROVE x \in Occurrences(GetEnd(p, c, a)) <=>
                           x \in Occurrences(p) /\ x.node.ch = c /\ x.node.kind = "get" /\ x.node.actor = a
  BY <1>2, <1>3, <1>4, <1>5
<1> QED BY <1>3, <1>4, <1>6, <1>7

\* The puts and gets that have been executed.
LEMMA DoneIs ==
  ASSUME PlanInv, NEW c, NEW a
  PROVE  /\ \A x : x \in PutsDone(c) <=> /\ x \in Occurrences(plan) /\ x.node.ch = c /\ x.node.kind = "put"
                                         /\ x \notin left[x.node.actor]
         /\ \A x : x \in GetsDone(c, a) <=>
                     /\ x \in Occurrences(plan) /\ x.node.ch = c /\ x.node.kind = "get" /\ x.node.actor = a
                     /\ x \notin left[a]
         /\ IsFiniteSet(PutsDone(c)) /\ IsFiniteSet(GetsDone(c, a))
<1>1. IsPlan(plan)
  BY DEF PlanInv, PlanTypeOK
<1>2. PutsDone(c) \subseteq Puts(c) /\ GetsDone(c, a) \subseteq Gets(c, a)
  BY DEF PutsDone, GetsDone
<1>3. IsFiniteSet(PutsDone(c)) /\ IsFiniteSet(GetsDone(c, a))
  BY <1>1, <1>2, EndOccurrences, SubsetSize DEF Puts, Gets
<1>4. /\ \A x : x \in Puts(c) <=> x \in Occurrences(plan) /\ x.node.ch = c /\ x.node.kind = "put"
      /\ \A x : x \in Gets(c, a) <=>
           x \in Occurrences(plan) /\ x.node.ch = c /\ x.node.kind = "get" /\ x.node.actor = a
  BY <1>1, EndOccurrences DEF Puts, Gets
<1> QED BY <1>3, <1>4 DEF PutsDone, GetsDone

\* An actor executes an occurrence when all those before it, and no other, have
\* been: its turn is the number of those done.
LEMMA TurnIsDone ==
  ASSUME PlanInv, NEW a \in Actor, NEW x \in left[a], At(a, x), NEW c, c = x.node.ch
  PROVE  /\ x.node.kind = "get" => Turn(plan, x) = Cardinality(GetsDone(c, a))
         /\ x.node.kind = "put" /\ OneProducer(plan, c) => Turn(plan, x) = Cardinality(PutsDone(c))
<1>1. IsPlan(plan)
  BY DEF PlanInv, PlanTypeOK
<1>2. x \in Occurrences(plan) /\ x.node.actor = a
  BY LeftIs
<1>3. ASSUME NEW E, IsEnd(plan, E), x \in Occurrences(E)
      PROVE  \A y \in Occurrences(E) : Sooner(y, x) <=> y \notin left[a]
  <2> SUFFICES ASSUME NEW y \in Occurrences(E) PROVE Sooner(y, x) <=> y \notin left[a]
    OBVIOUS
  <2>1. /\ Sooner(x, y) <=> Turn(plan, x) < Turn(plan, y)
        /\ Sooner(y, x) <=> Turn(plan, y) < Turn(plan, x)
        /\ Turn(plan, x) = Turn(plan, y) => x = y
        /\ Turn(plan, x) \in Int /\ Turn(plan, y) \in Int
    <3>1. /\ \A u \in Occurrences(E) : Turn(plan, u) \in 0 .. Cardinality(Occurrences(E)) - 1
          /\ \A u, v \in Occurrences(E) : /\ Sooner(u, v) <=> Turn(plan, u) < Turn(plan, v)
                                          /\ Turn(plan, u) = Turn(plan, v) => u = v
      BY <1>1, <1>3, TurnInLine
    <3>2. Turn(plan, x) \in Int /\ Turn(plan, y) \in Int
      BY <1>3, <3>1
    <3> QED BY <1>3, <3>1, <3>2
  <2>2. y.node.actor = a /\ y \in Occurrences(plan)
    <3>1. x.node \in E /\ y.node \in E /\ y.trip \in 1 .. y.node.trips /\ y = [node |-> y.node, trip |-> y.trip]
      BY <1>3, OccurrenceIs
    <3>2. y.node.actor = x.node.actor /\ y.node \in plan
      BY <1>3, <3>1 DEF IsEnd, IsLine
    <3>3. [node |-> y.node, trip |-> y.trip] \in Occurrences(plan)
      BY <3>1, <3>2, OccurrenceIs
    <3> QED BY <1>2, <3>1, <3>2, <3>3
  <2>3. y \in left[a] /\ y # x => Sooner(x, y)
    BY DEF At
  <2>4. Sooner(x, y) => y \in left[a]
    BY <2>2 DEF PlanInv, InBodyOrder
  <2> QED BY <2>1, <2>3, <2>4
<1>4. ASSUME x.node.kind = "get" PROVE Turn(plan, x) = Cardinality(GetsDone(c, a))
  <2> DEFINE E == GetEnd(plan, c, a)
  <2>1. IsEnd(plan, E) /\ x \in Occurrences(E)
    BY <1>1, <1>2, <1>4, EndsAreLines, EndOccurrences
  <2>2. {y \in Occurrences(E) : Sooner(y, x)} = GetsDone(c, a)
    <3>1. \A y \in Occurrences(E) : Sooner(y, x) <=> y \notin left[a]
      BY <1>3, <2>1
    <3> QED BY <3>1 DEF GetsDone, Gets
  <2> HIDE DEF E
  <2>3. Turn(plan, x) = Cardinality({y \in Occurrences(E) : Sooner(y, x)})
    BY <1>1, <2>1, TurnInLine
  <2> QED BY <2>2, <2>3
<1>5. ASSUME x.node.kind = "put", OneProducer(plan, c) PROVE Turn(plan, x) = Cardinality(PutsDone(c))
  <2> DEFINE E == PutEnd(plan, c)
  <2>1. IsEnd(plan, E) /\ x \in Occurrences(E)
    BY <1>1, <1>2, <1>5, EndsAreLines, EndOccurrences
  <2>2. \A y \in Occurrences(E) : y.node.actor = a
    <3>1. \A y \in Occurrences(E) : y.node \in E
      BY OccurrenceIs
    <3>2. \A m, n \in E : m.actor = n.actor
      BY <2>1 DEF IsEnd, IsLine
    <3> QED BY <1>2, <2>1, <3>1, <3>2
  <2>3. {y \in Occurrences(E) : Sooner(y, x)} = PutsDone(c)
    <3>1. \A y \in Occurrences(E) : Sooner(y, x) <=> y \notin left[a]
      BY <1>3, <2>1
    <3> QED BY <2>2, <3>1 DEF PutsDone, Puts
  <2> HIDE DEF E
  <2>4. Turn(plan, x) = Cardinality({y \in Occurrences(E) : Sooner(y, x)})
    BY <1>1, <2>1, TurnInLine
  <2> QED BY <2>3, <2>4
<1> QED BY <1>4, <1>5

-----------------------------------------------------------------------------
(* The invariant holds initially and every step preserves it.                *)

\* What executing an occurrence does to what is left and what is done.
LEMMA Executed ==
  ASSUME PlanInv, NEW a \in Actor, NEW x \in left[a], At(a, x), plan' = plan,
         left' = [left EXCEPT ![a] = @ \ {x}]
  PROVE  /\ left' \in [Actor -> SUBSET Occurrences(plan)]
         /\ \A b \in Actor : left'[b] = IF b = a THEN left[a] \ {x} ELSE left[b]
         /\ InBodyOrder'
         /\ \A c : /\ x \notin PutsDone(c) /\ x \notin GetsDone(c, a)
                   /\ PutsDone(c)' = IF c = x.node.ch /\ x.node.kind = "put"
                                     THEN PutsDone(c) \cup {x} ELSE PutsDone(c)
         /\ \A c : \A b \in Actor :
              GetsDone(c, b)' = IF c = x.node.ch /\ x.node.kind = "get" /\ b = a
                                THEN GetsDone(c, b) \cup {x} ELSE GetsDone(c, b)
<1>1. left \in [Actor -> SUBSET Occurrences(plan)] /\ IsPlan(plan)
  BY DEF PlanInv, PlanTypeOK
<1>2. /\ x \in Occurrences(plan) /\ x.node.actor = a
  BY LeftIs
<1>3. ASSUME NEW b \in Actor PROVE left'[b] = IF b = a THEN left[a] \ {x} ELSE left[b]
  BY <1>1
<1>4. left' \in [Actor -> SUBSET Occurrences(plan)]
  BY <1>1
<1>5. InBodyOrder'
  <2> SUFFICES ASSUME NEW b \in Actor
               PROVE  /\ \A y \in left'[b] : y.node.actor = b
                      /\ \A y \in left'[b], z \in Occurrences(plan) :
                           z.node.actor = b /\ Sooner(y, z) => z \in left'[b]
    BY DEF InBodyOrder
  <2>1. left'[b] \subseteq left[b]
    BY <1>3
  <2>2. \A y \in left'[b] : y.node.actor = b
    BY <2>1 DEF PlanInv, InBodyOrder
  <2>3. ASSUME NEW y \in left'[b], NEW z \in Occurrences(plan), z.node.actor = b, Sooner(y, z)
        PROVE  z \in left'[b]
    <3>1. z \in left[b]
      BY <2>1, <2>3 DEF PlanInv, InBodyOrder
    <3>2. CASE b = a /\ z = x
      <4>1. y \in left[a] \ {x}
        BY <1>3, <3>2
      <4>2. Sooner(x, y) /\ Sooner(y, x)
        BY <2>3, <3>2, <4>1 DEF At
      <4>3. /\ x.node.region \in Nat /\ x.node.pos \in Nat /\ x.trip \in Nat
            /\ y.node.region \in Nat /\ y.node.pos \in Nat /\ y.trip \in Nat
        BY <1>1, <4>1, LeftIs, SiteFields
      <4> QED BY <4>2, <4>3 DEF Sooner
    <3> QED BY <1>3, <3>1, <3>2
  <2> QED BY <2>2, <2>3
<1>6. ASSUME NEW c, NEW b \in Actor
      PROVE  /\ PutsDone(c) = {y \in Occurrences(PutEnd(plan, c)) : y \notin left[y.node.actor]}
             /\ PutsDone(c)' = {y \in Occurrences(PutEnd(plan, c)) : y \notin left'[y.node.actor]}
             /\ GetsDone(c, b) = {y \in Occurrences(GetEnd(plan, c, b)) : y \notin left[b]}
             /\ GetsDone(c, b)' = {y \in Occurrences(GetEnd(plan, c, b)) : y \notin left'[b]}
  BY DEF PutsDone, GetsDone, Puts, Gets
<1>7. ASSUME NEW c, NEW b \in Actor
      PROVE  /\ \A y : y \in Occurrences(PutEnd(plan, c)) <=>
                  y \in Occurrences(plan) /\ y.node.ch = c /\ y.node.kind = "put"
             /\ \A y : y \in Occurrences(GetEnd(plan, c, b)) <=>
                  y \in Occurrences(plan) /\ y.node.ch = c /\ y.node.kind = "get" /\ y.node.actor = b
  BY <1>1, EndOccurrences
<1>8. \A y \in Occurrences(plan) : y.node.actor \in Actor
  BY <1>1, OccurrenceIs, SiteFields
<1>9. ASSUME NEW c PROVE x \notin PutsDone(c) /\ x \notin GetsDone(c, a)
  BY <1>2 DEF PutsDone, GetsDone
<1>10. ASSUME NEW c
       PROVE  PutsDone(c)' = IF c = x.node.ch /\ x.node.kind = "put"
                             THEN PutsDone(c) \cup {x} ELSE PutsDone(c)
  <2>1. \A y : y \in PutsDone(c) <=> y \in Occurrences(PutEnd(plan, c)) /\ y \notin left[y.node.actor]
    BY <1>6
  <2>2. \A y : y \in PutsDone(c)' <=> y \in Occurrences(PutEnd(plan, c)) /\ y \notin left'[y.node.actor]
    BY <1>6
  <2>3. \A y \in Occurrences(plan) : y \notin left'[y.node.actor] <=> y \notin left[y.node.actor] \/ y = x
    BY <1>2, <1>3, <1>8
  <2>4. ASSUME NEW y
        PROVE  y \in PutsDone(c)' <=> y \in PutsDone(c) \/ (y = x /\ c = x.node.ch /\ x.node.kind = "put")
    <3>1. y \in Occurrences(PutEnd(plan, c)) <=>
            y \in Occurrences(plan) /\ y.node.ch = c /\ y.node.kind = "put"
      BY <1>2, <1>7
    <3>2. y \in Occurrences(plan) => (y \notin left'[y.node.actor] <=> y \notin left[y.node.actor] \/ y = x)
      BY <2>3
    <3>3. y = x => y \in Occurrences(plan)
      BY <1>2
    <3> QED BY <2>1, <2>2, <3>1, <3>2, <3>3
  <2> HIDE DEF PutsDone
  <2> QED BY <2>4
<1>11. ASSUME NEW c, NEW b \in Actor
       PROVE  GetsDone(c, b)' = IF c = x.node.ch /\ x.node.kind = "get" /\ b = a
                                THEN GetsDone(c, b) \cup {x} ELSE GetsDone(c, b)
  <2>1. \A y : y \in GetsDone(c, b) <=> y \in Occurrences(GetEnd(plan, c, b)) /\ y \notin left[b]
    BY <1>6
  <2>2. \A y : y \in GetsDone(c, b)' <=> y \in Occurrences(GetEnd(plan, c, b)) /\ y \notin left'[b]
    BY <1>6
  <2>3. \A y \in Occurrences(plan) :
          y.node.actor = b => (y \notin left'[b] <=> y \notin left[b] \/ (y = x /\ b = a))
    BY <1>2, <1>3
  <2>4. \A y : y \in GetsDone(c, b)' <=>
                 y \in GetsDone(c, b) \/ (y = x /\ c = x.node.ch /\ x.node.kind = "get" /\ b = a)
    BY <1>2, <1>7, <2>1, <2>2, <2>3
  <2> QED BY <2>4
<1> QED BY <1>3, <1>4, <1>5, <1>9, <1>10, <1>11

\* In the initial state nothing is done.
LEMMA PlanInitInv == PlanInit => PlanInv
<1> SUFFICES ASSUME PlanInit PROVE PlanInv
  OBVIOUS
<1>1. IsPlan(plan)
  BY DEF PlanInit
<1>2. Balanced(plan) /\ verdict = Checked(plan) /\ verdict \in {"CHANNEL-CYCLE", "accepted"}
  BY DEF PlanInit, Checked
<1>3. ASSUME NEW a \in Actor
      PROVE  \A x : x \in left[a] <=> x \in Occurrences(plan) /\ x.node.actor = a
  <2> DEFINE E == {n \in plan : n.actor = a}
  <2>1. left[a] = Occurrences(E)
    BY DEF PlanInit
  <2>2. /\ \A x \in Occurrences(E) : /\ x.node \in E /\ x.trip \in 1 .. x.node.trips
                                     /\ x = [node |-> x.node, trip |-> x.trip]
        /\ \A n \in E : \A t \in 1 .. n.trips : [node |-> n, trip |-> t] \in Occurrences(E)
    BY OccurrenceIs
  <2>3. /\ \A x \in Occurrences(plan) : /\ x.node \in plan /\ x.trip \in 1 .. x.node.trips
                                        /\ x = [node |-> x.node, trip |-> x.trip]
        /\ \A n \in plan : \A t \in 1 .. n.trips : [node |-> n, trip |-> t] \in Occurrences(plan)
    BY OccurrenceIs
  <2>4. \A n : n \in E <=> n \in plan /\ n.actor = a
    OBVIOUS
  <2> HIDE DEF E
  <2>5. ASSUME NEW x \in Occurrences(E) PROVE x \in Occurrences(plan) /\ x.node.actor = a
    BY <2>2, <2>3, <2>4
  <2>6. ASSUME NEW x \in Occurrences(plan), x.node.actor = a PROVE x \in Occurrences(E)
    BY <2>2, <2>3, <2>4, <2>6
  <2> QED BY <2>1, <2>5, <2>6
<1>4. left \in [Actor -> SUBSET Occurrences(plan)]
  <2>1. left = [a \in Actor |-> left[a]]
    BY DEF PlanInit
  <2> QED BY <1>3, <2>1
<1>5. /\ DOMAIN queue = Channel /\ fed = {}
      /\ \A c \in Channel : queue[c] = [a \in Dests[c] |-> <<>>]
  BY DEF PlanInit
<1>6. PlanTypeOK
  <2>1. ASSUME NEW c \in Channel PROVE queue[c] \in [Dests[c] -> Seq(Occurrences(plan))]
    <3>1. queue[c] = [a \in Dests[c] |-> <<>>] /\ <<>> \in Seq(Occurrences(plan))
      BY <1>5
    <3> QED BY <3>1
  <2>2. fed \subseteq Occurrences(plan) \X Occurrences(plan)
    BY <1>5
  <2> QED BY <1>1, <1>2, <1>4, <1>5, <2>1, <2>2 DEF PlanTypeOK
<1>7. InBodyOrder
  BY <1>3 DEF InBodyOrder
<1>8. \A x \in Occurrences(plan) : x.node.actor \in Actor /\ x \in left[x.node.actor]
  BY <1>1, <1>3, OccurrenceIs, SiteFields
<1>9. ASSUME NEW c, NEW a \in Actor PROVE PutsDone(c) = {} /\ GetsDone(c, a) = {}
  <2>1. \A x \in Occurrences(PutEnd(plan, c)) : x \in left[x.node.actor]
    BY <1>1, <1>8, EndOccurrences
  <2>2. \A x \in Occurrences(GetEnd(plan, c, a)) : x \in left[a]
    BY <1>1, <1>8, EndOccurrences
  <2> QED BY <2>1, <2>2 DEF PutsDone, GetsDone, Puts, Gets
<1>10. Counted
  <2> SUFFICES ASSUME NEW c \in Channel, NEW a \in Dests[c]
               PROVE  Cardinality(PutsDone(c)) = Len(queue[c][a]) + Cardinality(GetsDone(c, a))
    BY DEF Counted
  <2>1. queue[c][a] = <<>> /\ PutsDone(c) = {} /\ GetsDone(c, a) = {}
    BY <1>5, <1>9
  <2> QED BY <2>1, FS_EmptySet
<1>11. Waiting
  BY <1>5 DEF Waiting
<1>12. FedInTurn
  BY <1>5 DEF FedInTurn
<1>13. NoCycleDone
  <2> SUFFICES ASSUME StraightLine(plan)
               PROVE  NodesDone = {}
    BY DEF NoCycleDone
  <2>1. ASSUME NEW n \in plan PROVE \E x \in left[n.actor] : x.node = n
    <3>1. n.trips = 1 /\ n.actor \in Actor
      BY <1>1, SiteFields DEF StraightLine
    <3>2. [node |-> n, trip |-> 1] \in Occurrences(plan)
      BY <3>1, OccurrenceIs
    <3>3. [node |-> n, trip |-> 1] \in left[n.actor]
      BY <1>3, <3>1, <3>2
    <3> QED BY <3>3
  <2> QED BY <2>1 DEF NodesDone
<1> QED BY <1>2, <1>6, <1>7, <1>10, <1>11, <1>12, <1>13 DEF PlanInv

\* A channel edge goes from a put to a get of the channel.
LEMMA GraphEdge ==
  ASSUME NEW p, IsPlan(p), NEW e \in Graph(p)
  PROVE  /\ e = <<e[1], e[2]>> /\ e[1] \in p /\ e[2] \in p
         /\ \/ Earlier(e[1], e[2])
            \/ \E c \in Channel : \E a \in Dests[c] :
                 /\ e \in Pairs(p, c, a)
                 /\ e[1] \in PutEnd(p, c) /\ e[2] \in GetEnd(p, c, a) /\ e[2].kind = "get"
<1>1. CASE e \in ProgramEdges(p)
  BY <1>1 DEF ProgramEdges
<1>2. CASE e \in ChannelEdges(p)
  <2>0. PICK c \in Channel : e \in UNION {Pairs(p, c, a) : a \in Dests[c]}
    BY <1>2 DEF ChannelEdges
  <2>1. PICK a \in Dests[c] : e \in Pairs(p, c, a)
    BY <2>0
  <2>2. e \in AllPairs(p, c, a)
    BY <2>1 DEF Pairs, Zipped
  <2>3. e = <<e[1], e[2]>> /\ e[1] \in PutEnd(p, c) /\ e[2] \in GetEnd(p, c, a)
    BY <2>2 DEF AllPairs, PutEnd, GetEnd
  <2>4. e[1] \in p /\ e[2] \in p /\ e[2].kind = "get"
    BY <2>3 DEF PutEnd, GetEnd, Ends
  <2> QED BY <2>1, <2>3, <2>4
<1> QED BY <1>1, <1>2 DEF Graph

\* On straight-line code a site has one occurrence.
LEMMA StraightOccurrence ==
  ASSUME PlanInv, StraightLine(plan), NEW b \in Actor, NEW y \in left[b]
  PROVE  y = [node |-> y.node, trip |-> 1]
<1>1. y.node \in plan /\ y.trip \in 1 .. y.node.trips /\ y = [node |-> y.node, trip |-> y.trip]
  BY LeftIs
<1>2. y.node.trips = 1
  BY <1>1 DEF StraightLine
<1>3. y.trip = 1
  BY <1>1, <1>2
<1> QED BY <1>1, <1>3

\* Executing a site whose channel predecessors are done closes no cycle.
LEMMA NoCycleStep ==
  ASSUME PlanInv, NEW a \in Actor, NEW x \in left[a], At(a, x), plan' = plan,
         left' = [left EXCEPT ![a] = @ \ {x}],
         StraightLine(plan) /\ OneToOne(plan) =>
           \A e \in Graph(plan) : e[2] = x.node => Earlier(e[1], e[2]) \/ e[1] \in NodesDone
  PROVE  NoCycleDone'
<1> SUFFICES ASSUME StraightLine(plan), OneToOne(plan)
             PROVE  /\ \A e \in Graph(plan) : e[2] \in NodesDone' => e[1] \in NodesDone'
                    /\ \A nodes \in SUBSET NodesDone' : nodes # {} => HasFirst(nodes, Graph(plan))
  BY DEF NoCycleDone
<1>1. /\ \A e \in Graph(plan) : e[2] \in NodesDone => e[1] \in NodesDone
      /\ \A nodes \in SUBSET NodesDone : nodes # {} => HasFirst(nodes, Graph(plan))
  BY DEF PlanInv, NoCycleDone
<1>2. IsPlan(plan)
  BY DEF PlanInv, PlanTypeOK
<1>3. /\ x.node \in plan /\ x.node.actor = a /\ x.node \notin NodesDone
  BY LeftIs DEF NodesDone
<1>4. \A n \in plan : n \in NodesDone' <=> n \in NodesDone \/ n = x.node
  <2> SUFFICES ASSUME NEW n \in plan PROVE n \in NodesDone' <=> n \in NodesDone \/ n = x.node
    OBVIOUS
  <2>1. n.actor \in Actor
    BY <1>2, SiteFields
  <2>2. n \in NodesDone' <=> \A y \in left'[n.actor] : y.node # n
    BY DEF NodesDone
  <2>3. n \in NodesDone <=> \A y \in left[n.actor] : y.node # n
    BY DEF NodesDone
  <2>4. left'[n.actor] = IF n.actor = a THEN left[a] \ {x} ELSE left[n.actor]
    BY <2>1, Executed
  <2>5. \A y \in left[a] : y.node = x.node => y = x
    BY StraightOccurrence
  <2> QED BY <1>3, <2>2, <2>3, <2>4, <2>5
<1>5. NodesDone' \subseteq plan /\ NodesDone \subseteq plan
  BY DEF NodesDone
<1>6. ASSUME NEW e \in Graph(plan), e[2] = x.node PROVE e[1] \in NodesDone
  <2>1. CASE Earlier(e[1], e[2])
    <3>1. e[1] \in plan /\ e[1].actor = a
      BY <1>2, <1>3, <1>6, <2>1, GraphEdge DEF Earlier
    <3>2. ASSUME NEW y \in left[a], y.node = e[1] PROVE FALSE
      <4>1. y = [node |-> y.node, trip |-> 1] /\ x = [node |-> x.node, trip |-> 1]
        BY StraightOccurrence
      <4>2. /\ x.node.region \in Nat /\ x.node.pos \in Nat /\ x.trip = 1
            /\ y.node.region \in Nat /\ y.node.pos \in Nat /\ y.trip = 1
        BY <1>2, <1>3, <3>1, <3>2, <4>1, SiteFields
      <4>3. y # x /\ Sooner(y, x)
        BY <1>6, <2>1, <3>2, <4>2 DEF Earlier, Sooner
      <4>4. Sooner(x, y)
        BY <4>3 DEF At
      <4> QED BY <4>2, <4>3, <4>4 DEF Sooner
    <3> QED BY <3>1, <3>2 DEF NodesDone
  <2> QED BY <1>6, <2>1
<1>7. ASSUME NEW e \in Graph(plan), e[2] \in NodesDone' PROVE e[1] \in NodesDone'
  <2>1. e[1] \in plan /\ e[2] \in plan
    BY <1>2, GraphEdge
  <2> QED BY <1>1, <1>4, <1>6, <1>7, <2>1
<1>8. ASSUME NEW nodes \in SUBSET NodesDone', nodes # {} PROVE HasFirst(nodes, Graph(plan))
  <2> DEFINE rest == nodes \ {x.node}
  <2>1. rest \in SUBSET NodesDone
    BY <1>4, <1>5
  <2>2. CASE rest = {}
    <3>1. nodes = {x.node}
      BY <1>8, <2>2
    <3>2. <<x.node, x.node>> \notin Graph(plan)
      BY <1>3, <1>6
    <3> QED BY <3>1, <3>2 DEF HasFirst
  <2>3. CASE rest # {}
    <3>1. PICK n \in rest : \A m \in rest : <<m, n>> \notin Graph(plan)
      BY <1>1, <2>1, <2>3 DEF HasFirst
    <3>2. <<x.node, n>> \notin Graph(plan)
      <4>1. n \in NodesDone
        BY <2>1
      <4>2. SUFFICES ASSUME <<x.node, n>> \in Graph(plan) PROVE FALSE
        OBVIOUS
      <4>3. x.node \in NodesDone
        BY <1>1, <4>1, <4>2
      <4> QED BY <1>3, <4>3
    <3>3. \A m \in nodes : <<m, n>> \notin Graph(plan)
      BY <3>1, <3>2
    <3> QED BY <3>1, <3>3 DEF HasFirst
  <2> QED BY <2>2, <2>3
<1> QED BY <1>7, <1>8

\* A put is appended to every queue of its channel.
LEMMA PutStep ==
  ASSUME PlanInv, NEW a \in Actor, NEW x \in left[a], Put(a, x)
  PROVE  PlanInv'
<1> DEFINE ch == x.node.ch
<1>1. /\ At(a, x) /\ x.node.kind = "put" /\ plan' = plan /\ verdict' = verdict /\ fed' = fed
      /\ left' = [left EXCEPT ![a] = @ \ {x}]
  BY DEF Put
<1>2. /\ IsPlan(plan) /\ DOMAIN queue = Channel
      /\ \A c \in Channel : queue[c] \in [Dests[c] -> Seq(Occurrences(plan))]
      /\ fed \subseteq Occurrences(plan) \X Occurrences(plan)
      /\ verdict \in {"CHANNEL-CYCLE", "accepted"} /\ verdict = Checked(plan) /\ Balanced(plan)
  BY DEF PlanInv, PlanTypeOK
<1>3. x \in Occurrences(plan) /\ ch \in Channel
  BY LeftIs
<1>4. queue' = [queue EXCEPT ![ch] = [d \in Dests[ch] |-> Append(queue[ch][d], x)]]
  <2>1. queue' = [queue EXCEPT ![ch] = [d \in DOMAIN queue[ch] |-> Append(queue[ch][d], x)]]
    BY DEF Put
  <2>2. DOMAIN queue[ch] = Dests[ch]
    BY <1>2, <1>3
  <2> QED BY <2>1, <2>2
<1> HIDE DEF ch
<1>5. /\ DOMAIN queue' = Channel
      /\ \A c \in Channel :
           queue'[c] = IF c = ch THEN [d \in Dests[ch] |-> Append(queue[ch][d], x)] ELSE queue[c]
  BY <1>2, <1>4
<1>6. ASSUME NEW c \in Channel, NEW d \in Dests[c]
      PROVE  /\ queue'[c][d] = IF c = ch THEN Append(queue[c][d], x) ELSE queue[c][d]
             /\ queue[c][d] \in Seq(Occurrences(plan))
  BY <1>2, <1>5
<1>7. /\ left' \in [Actor -> SUBSET Occurrences(plan)]
      /\ InBodyOrder'
      /\ \A c : x \notin PutsDone(c)
      /\ \A c : PutsDone(c)' = IF c = ch THEN PutsDone(c) \cup {x} ELSE PutsDone(c)
      /\ \A c : \A b \in Actor : GetsDone(c, b)' = GetsDone(c, b)
  <2>1. x.node.kind # "get"
    BY <1>1
  <2>2. /\ left' \in [Actor -> SUBSET Occurrences(plan)] /\ InBodyOrder'
        /\ \A c : x \notin PutsDone(c)
        /\ \A c : PutsDone(c)' = IF c = x.node.ch /\ x.node.kind = "put"
                                 THEN PutsDone(c) \cup {x} ELSE PutsDone(c)
        /\ \A c : \A b \in Actor :
             GetsDone(c, b)' = IF c = x.node.ch /\ x.node.kind = "get" /\ b = a
                               THEN GetsDone(c, b) \cup {x} ELSE GetsDone(c, b)
    BY <1>1, Executed
  <2> HIDE DEF PutsDone, GetsDone
  <2> QED BY <1>1, <2>1, <2>2 DEF ch
<1>8. PlanTypeOK'
  <2>1. ASSUME NEW c \in Channel PROVE queue'[c] \in [Dests[c] -> Seq(Occurrences(plan))]
    <3>1. ASSUME NEW d \in Dests[c] PROVE queue'[c][d] \in Seq(Occurrences(plan))
      <4>1. Append(queue[c][d], x) \in Seq(Occurrences(plan))
        BY <1>3, <1>6
      <4> QED BY <1>6, <4>1
    <3>2. queue'[c] = [d \in Dests[c] |-> queue'[c][d]]
      BY <1>2, <1>5
    <3> QED BY <3>1, <3>2
  <2> QED BY <1>1, <1>2, <1>5, <1>7, <2>1 DEF PlanTypeOK
<1>9. ASSUME NEW c \in Channel
      PROVE  /\ Cardinality(PutsDone(c)') = IF c = ch THEN Cardinality(PutsDone(c)) + 1
                                            ELSE Cardinality(PutsDone(c))
             /\ Cardinality(PutsDone(c)) \in Nat
             /\ \A b \in Dests[c] : Cardinality(GetsDone(c, b)) \in Nat
  <2>1. IsFiniteSet(PutsDone(c)) /\ \A b \in Dests[c] : IsFiniteSet(GetsDone(c, b))
    BY DoneIs
  <2>2. x \notin PutsDone(c)
    BY <1>7
  <2>3. Cardinality(PutsDone(c) \cup {x}) = Cardinality(PutsDone(c)) + 1
    BY <2>1, <2>2, FS_AddElement
  <2> QED BY <1>7, <2>1, <2>3, FS_CardinalityType
<1>10. Counted'
  <2> SUFFICES ASSUME NEW c \in Channel, NEW b \in Dests[c]
               PROVE  Cardinality(PutsDone(c)') = Len(queue'[c][b]) + Cardinality(GetsDone(c, b)')
    BY <1>1 DEF Counted
  <2>1. Cardinality(PutsDone(c)) = Len(queue[c][b]) + Cardinality(GetsDone(c, b))
    BY DEF PlanInv, Counted
  <2>2. GetsDone(c, b)' = GetsDone(c, b)
    BY <1>7
  <2>3. Len(queue'[c][b]) = IF c = ch THEN Len(queue[c][b]) + 1 ELSE Len(queue[c][b])
    <3>1. queue'[c][b] = IF c = ch THEN Append(queue[c][b], x) ELSE queue[c][b]
      BY <1>6
    <3>2. Len(Append(queue[c][b], x)) = Len(queue[c][b]) + 1
      BY <1>3, <1>6
    <3> QED BY <3>1, <3>2
  <2>4. Len(queue[c][b]) \in Nat
    BY <1>6
  <2> QED BY <1>9, <2>1, <2>2, <2>3, <2>4
<1>11. Waiting'
  <2> SUFFICES ASSUME NEW c \in Channel, NEW b \in Dests[c], NEW k \in 1 .. Len(queue'[c][b])
               PROVE  /\ queue'[c][b][k] \in PutsDone(c)'
                      /\ OneProducer(plan, c) =>
                           Turn(plan, queue'[c][b][k]) = Cardinality(GetsDone(c, b)) + k - 1
    BY <1>1, <1>7 DEF Waiting
  <2>1. Len(queue[c][b]) \in Nat
    BY <1>6
  <2>a. queue'[c][b] = IF c = ch THEN Append(queue[c][b], x) ELSE queue[c][b]
    BY <1>6
  <2>b. /\ Len(Append(queue[c][b], x)) = Len(queue[c][b]) + 1
        /\ \A i \in 1 .. Len(queue[c][b]) : Append(queue[c][b], x)[i] = queue[c][b][i]
        /\ Append(queue[c][b], x)[Len(queue[c][b]) + 1] = x
    BY <1>3, <1>6
  <2>2. CASE k \in 1 .. Len(queue[c][b])
    <3>1. queue'[c][b][k] = queue[c][b][k]
      BY <2>2, <2>a, <2>b
    <3>2. /\ queue[c][b][k] \in PutsDone(c)
          /\ OneProducer(plan, c) =>
               Turn(plan, queue[c][b][k]) = Cardinality(GetsDone(c, b)) + k - 1
      BY <2>2 DEF PlanInv, Waiting
    <3> QED BY <1>7, <3>1, <3>2
  <2>3. CASE k \notin 1 .. Len(queue[c][b])
    <3>1. c = ch /\ k = Len(queue[c][b]) + 1 /\ queue'[c][b][k] = x
      BY <2>1, <2>3, <2>a, <2>b
    <3>2. x \in PutsDone(c)'
      BY <1>7, <3>1
    <3>3. Cardinality(PutsDone(c)) = Len(queue[c][b]) + Cardinality(GetsDone(c, b))
      BY DEF PlanInv, Counted
    <3>4. OneProducer(plan, c) => Turn(plan, x) = Cardinality(PutsDone(c))
      BY <1>1, <3>1, TurnIsDone DEF ch
    <3> QED BY <1>9, <2>1, <3>1, <3>2, <3>3, <3>4
  <2> QED BY <2>2, <2>3
<1>12. FedInTurn'
  <2> SUFFICES ASSUME NEW pair \in fed
               PROVE  \E c \in Channel : \E b \in Dests[c] :
                        /\ pair[1] \in PutsDone(c)' /\ pair[2] \in GetsDone(c, b)'
                        /\ OneProducer(plan, c) => Turn(plan, pair[1]) = Turn(plan, pair[2])
    BY <1>1 DEF FedInTurn
  <2>1. PICK c \in Channel : \E b \in Dests[c] :
          /\ pair[1] \in PutsDone(c) /\ pair[2] \in GetsDone(c, b)
          /\ OneProducer(plan, c) => Turn(plan, pair[1]) = Turn(plan, pair[2])
    BY DEF PlanInv, FedInTurn
  <2>2. PutsDone(c) \subseteq PutsDone(c)' /\ \A b \in Dests[c] : GetsDone(c, b)' = GetsDone(c, b)
    BY <1>7
  <2> QED BY <2>1, <2>2
<1>13. NoCycleDone'
  <2>1. ASSUME NEW e \in Graph(plan), e[2] = x.node PROVE Earlier(e[1], e[2])
    BY <1>1, <1>2, <2>1, GraphEdge
  <2> QED BY <1>1, <2>1, NoCycleStep
<1>14. (Balanced(plan) /\ verdict = Checked(plan))'
  BY <1>1, <1>2
<1> QED BY <1>7, <1>8, <1>10, <1>11, <1>12, <1>13, <1>14 DEF PlanInv

\* A get takes the oldest put from its own queue.
LEMMA GetStep ==
  ASSUME PlanInv, NEW a \in Actor, NEW x \in left[a], Get(a, x)
  PROVE  PlanInv'
<1> DEFINE ch == x.node.ch
           h == Head(queue[ch][a])
<1>1. /\ At(a, x) /\ x.node.kind = "get" /\ plan' = plan /\ verdict' = verdict
      /\ left' = [left EXCEPT ![a] = @ \ {x}]
      /\ fed' = fed \cup {<<h, x>>} /\ queue[ch][a] # <<>>
      /\ queue' = [queue EXCEPT ![ch][a] = Tail(@)]
  BY DEF Get
<1>2. /\ IsPlan(plan) /\ DOMAIN queue = Channel
      /\ \A c \in Channel : queue[c] \in [Dests[c] -> Seq(Occurrences(plan))]
      /\ fed \subseteq Occurrences(plan) \X Occurrences(plan)
      /\ verdict \in {"CHANNEL-CYCLE", "accepted"} /\ verdict = Checked(plan) /\ Balanced(plan)
  BY DEF PlanInv, PlanTypeOK
<1>3. x \in Occurrences(plan) /\ ch \in Channel /\ a \in Dests[ch]
  BY <1>1, LeftIs
<1>4. queue[ch][a] \in Seq(Occurrences(plan)) /\ Len(queue[ch][a]) \in Nat \ {0} /\ h = queue[ch][a][1]
  BY <1>1, <1>2, <1>3
<1> HIDE DEF ch, h
<1>5. /\ DOMAIN queue' = Channel
      /\ \A c \in Channel : DOMAIN queue'[c] = DOMAIN queue[c]
      /\ \A c \in Channel : \A d \in Dests[c] :
           queue'[c][d] = IF c = ch /\ d = a THEN Tail(queue[c][d]) ELSE queue[c][d]
  BY <1>1, <1>2, <1>3
<1>6. ASSUME NEW c \in Channel, NEW d \in Dests[c] PROVE queue[c][d] \in Seq(Occurrences(plan))
  BY <1>2
<1>7. /\ left' \in [Actor -> SUBSET Occurrences(plan)]
      /\ InBodyOrder'
      /\ \A c : x \notin GetsDone(c, a)
      /\ \A c : PutsDone(c)' = PutsDone(c)
      /\ \A c : \A b \in Actor :
           GetsDone(c, b)' = IF c = ch /\ b = a THEN GetsDone(c, b) \cup {x} ELSE GetsDone(c, b)
  <2>1. x.node.kind # "put"
    BY <1>1
  <2>2. /\ left' \in [Actor -> SUBSET Occurrences(plan)] /\ InBodyOrder'
        /\ \A c : x \notin GetsDone(c, a)
        /\ \A c : PutsDone(c)' = IF c = x.node.ch /\ x.node.kind = "put"
                                 THEN PutsDone(c) \cup {x} ELSE PutsDone(c)
        /\ \A c : \A b \in Actor :
             GetsDone(c, b)' = IF c = x.node.ch /\ x.node.kind = "get" /\ b = a
                               THEN GetsDone(c, b) \cup {x} ELSE GetsDone(c, b)
    BY <1>1, Executed
  <2> HIDE DEF PutsDone, GetsDone
  <2> QED BY <1>1, <2>1, <2>2 DEF ch
<1>8. h \in PutsDone(ch) /\ (OneProducer(plan, ch) => Turn(plan, h) = Turn(plan, x))
  <2>1. 1 \in 1 .. Len(queue[ch][a])
    BY <1>4
  <2>2. /\ h \in PutsDone(ch)
        /\ OneProducer(plan, ch) => Turn(plan, h) = Cardinality(GetsDone(ch, a)) + 1 - 1
    BY <1>3, <1>4, <2>1 DEF PlanInv, Waiting
  <2>3. Turn(plan, x) = Cardinality(GetsDone(ch, a)) /\ Cardinality(GetsDone(ch, a)) \in Nat
    BY <1>1, TurnIsDone, DoneIs, FS_CardinalityType DEF ch
  <2> QED BY <2>2, <2>3
<1>9. PlanTypeOK'
  <2>1. ASSUME NEW c \in Channel PROVE queue'[c] \in [Dests[c] -> Seq(Occurrences(plan))]
    <3>1. ASSUME NEW d \in Dests[c] PROVE queue'[c][d] \in Seq(Occurrences(plan))
      <4>1. queue[c][d] \in Seq(Occurrences(plan))
        BY <1>6
      <4>2. c = ch /\ d = a => Tail(queue[c][d]) \in Seq(Occurrences(plan))
        BY <1>1, <4>1
      <4> QED BY <1>5, <4>1, <4>2
    <3>2. queue'[c] = [d \in Dests[c] |-> queue'[c][d]]
      <4>1. queue[c] \in [Dests[c] -> Seq(Occurrences(plan))] /\ DOMAIN queue'[c] = Dests[c]
        BY <1>2, <1>5
      <4>2. queue' = [queue EXCEPT ![ch] = [queue[ch] EXCEPT ![a] = Tail(queue[ch][a])]]
        BY <1>1
      <4>3. queue'[c] = IF c = ch THEN [queue[ch] EXCEPT ![a] = Tail(queue[ch][a])] ELSE queue[c]
        BY <1>2, <4>2
      <4> QED BY <4>1, <4>3
    <3> QED BY <3>1, <3>2
  <2>2. h \in Occurrences(plan)
    BY <1>8, DoneIs
  <2>3. fed' \subseteq Occurrences(plan) \X Occurrences(plan)
    BY <1>1, <1>2, <1>3, <2>2
  <2> QED BY <1>1, <1>2, <1>5, <1>7, <2>1, <2>3 DEF PlanTypeOK
<1>10. ASSUME NEW c \in Channel, NEW b \in Dests[c]
       PROVE  /\ Cardinality(GetsDone(c, b)') = IF c = ch /\ b = a THEN Cardinality(GetsDone(c, b)) + 1
                                                ELSE Cardinality(GetsDone(c, b))
              /\ Cardinality(GetsDone(c, b)) \in Nat
  <2>1. IsFiniteSet(GetsDone(c, b)) /\ b \in Actor
    BY DoneIs
  <2>2. b = a => Cardinality(GetsDone(c, b) \cup {x}) = Cardinality(GetsDone(c, b)) + 1
    BY <1>7, <2>1, FS_AddElement
  <2> QED BY <1>7, <2>1, <2>2, FS_CardinalityType
<1>11. Counted'
  <2> SUFFICES ASSUME NEW c \in Channel, NEW b \in Dests[c]
               PROVE  Cardinality(PutsDone(c)') = Len(queue'[c][b]) + Cardinality(GetsDone(c, b)')
    BY <1>1 DEF Counted
  <2>1. Cardinality(PutsDone(c)) = Len(queue[c][b]) + Cardinality(GetsDone(c, b))
    BY DEF PlanInv, Counted
  <2>2. PutsDone(c)' = PutsDone(c)
    BY <1>7
  <2>3. Len(queue'[c][b]) = IF c = ch /\ b = a THEN Len(queue[c][b]) - 1 ELSE Len(queue[c][b])
    <3>1. queue'[c][b] = IF c = ch /\ b = a THEN Tail(queue[c][b]) ELSE queue[c][b]
      BY <1>5
    <3>2. queue[c][b] # <<>> => Len(Tail(queue[c][b])) = Len(queue[c][b]) - 1
      BY <1>6
    <3>3. c = ch /\ b = a => queue[c][b] # <<>>
      BY <1>1
    <3> QED BY <3>1, <3>2, <3>3
  <2>4. Len(queue[c][b]) \in Nat
    BY <1>6
  <2> QED BY <1>10, <2>1, <2>2, <2>3, <2>4
<1>12. Waiting'
  <2> SUFFICES ASSUME NEW c \in Channel, NEW b \in Dests[c], NEW k \in 1 .. Len(queue'[c][b])
               PROVE  /\ queue'[c][b][k] \in PutsDone(c)
                      /\ OneProducer(plan, c) =>
                           Turn(plan, queue'[c][b][k]) = Cardinality(GetsDone(c, b)') + k - 1
    BY <1>1, <1>7 DEF Waiting
  <2>1. Len(queue[c][b]) \in Nat /\ queue[c][b] \in Seq(Occurrences(plan))
    BY <1>6
  <2>2. CASE c = ch /\ b = a
    <3>1. queue'[c][b] = Tail(queue[c][b]) /\ queue[c][b] # <<>>
      BY <1>1, <1>5, <2>2
    <3>2. k \in Nat \ {0} /\ k + 1 \in 1 .. Len(queue[c][b]) /\ queue'[c][b][k] = queue[c][b][k + 1]
      BY <2>1, <3>1
    <3>3. /\ queue[c][b][k + 1] \in PutsDone(c)
          /\ OneProducer(plan, c) =>
               Turn(plan, queue[c][b][k + 1]) = Cardinality(GetsDone(c, b)) + (k + 1) - 1
      BY <3>2 DEF PlanInv, Waiting
    <3> QED BY <1>10, <2>2, <3>2, <3>3
  <2>3. CASE ~(c = ch /\ b = a)
    <3>1. queue'[c][b] = queue[c][b]
      BY <1>5, <2>3
    <3>2. /\ queue[c][b][k] \in PutsDone(c)
          /\ OneProducer(plan, c) =>
               Turn(plan, queue[c][b][k]) = Cardinality(GetsDone(c, b)) + k - 1
      BY <3>1 DEF PlanInv, Waiting
    <3> QED BY <1>10, <2>3, <3>1, <3>2
  <2> QED BY <2>2, <2>3
<1>13. FedInTurn'
  <2> SUFFICES ASSUME NEW pair \in fed'
               PROVE  \E c \in Channel : \E b \in Dests[c] :
                        /\ pair[1] \in PutsDone(c)' /\ pair[2] \in GetsDone(c, b)'
                        /\ OneProducer(plan, c) => Turn(plan, pair[1]) = Turn(plan, pair[2])
    BY <1>1 DEF FedInTurn
  <2>1. CASE pair \in fed
    <3>1. PICK c \in Channel : \E b \in Dests[c] :
            /\ pair[1] \in PutsDone(c) /\ pair[2] \in GetsDone(c, b)
            /\ OneProducer(plan, c) => Turn(plan, pair[1]) = Turn(plan, pair[2])
      BY <2>1 DEF PlanInv, FedInTurn
    <3>2. PutsDone(c)' = PutsDone(c) /\ \A b \in Dests[c] : GetsDone(c, b) \subseteq GetsDone(c, b)'
      BY <1>7
    <3> QED BY <3>1, <3>2
  <2>2. CASE pair = <<h, x>>
    <3>1. h \in PutsDone(ch)' /\ x \in GetsDone(ch, a)'
      BY <1>3, <1>7, <1>8
    <3> QED BY <1>3, <1>8, <2>2, <3>1
  <2> QED BY <1>1, <2>1, <2>2
<1>14. NoCycleDone'
  <2>1. ASSUME StraightLine(plan), OneToOne(plan), NEW e \in Graph(plan), e[2] = x.node,
               ~Earlier(e[1], e[2])
        PROVE  e[1] \in NodesDone
    <3> DEFINE m == e[1]
               n == e[2]
               P == PutEnd(plan, ch)
               G == GetEnd(plan, ch, a)
               y == [node |-> m, trip |-> 1]
    <3>1. PICK c \in Channel : \E b \in Dests[c] :
            e \in Pairs(plan, c, b) /\ e[1] \in PutEnd(plan, c) /\ e[2] \in GetEnd(plan, c, b)
      BY <1>2, <2>1, GraphEdge
    <3>2. PICK b \in Dests[c] :
            e \in Pairs(plan, c, b) /\ e[1] \in PutEnd(plan, c) /\ e[2] \in GetEnd(plan, c, b)
      BY <3>1
    <3>3. c = ch /\ b = a
      <4>1. n.ch = c /\ n.actor = b
        BY <3>2 DEF GetEnd, Ends
      <4> QED BY <2>1, <4>1, LeftIs DEF ch
    <3>4. Zips(plan, ch, a) /\ e = <<m, n>> /\ m \in P /\ n \in G
      BY <1>2, <1>3, <2>1, <3>2, <3>3, GraphEdge DEF OneToOne
    <3>5. <<m, n>> \in Zipped(plan, ch, a)
      BY <3>2, <3>3, <3>4 DEF Pairs
    <3>6. Position(plan, m) = Position(plan, n)
      BY <3>5, ZippedIs
    <3>7. OneProducer(plan, ch) /\ IsEnd(plan, P) /\ IsEnd(plan, G)
      BY <1>2, <3>4, EndsAreLines DEF Zips
    <3>8. y \in Occurrences(P) /\ Turn(plan, y) = Position(plan, m)
      BY <1>2, <2>1, <3>4, <3>7, TurnIsPosition
    <3>9. Turn(plan, x) = Position(plan, n)
      <4>1. x = [node |-> n, trip |-> 1]
        BY <2>1, StraightOccurrence
      <4> QED BY <1>2, <2>1, <3>4, <3>7, <4>1, TurnIsPosition
    <3>10. h \in Occurrences(P)
      BY <1>8 DEF PutsDone, Puts
    <3>11. h = y
      <4>1. \A u, v \in Occurrences(P) : Turn(plan, u) = Turn(plan, v) => u = v
        BY <1>2, <3>7, TurnInLine
      <4>2. Turn(plan, h) = Turn(plan, y)
        BY <1>8, <3>6, <3>7, <3>8, <3>9
      <4> QED BY <3>8, <3>10, <4>1, <4>2
    <3>12. y \notin left[m.actor]
      BY <1>8, <3>11 DEF PutsDone
    <3>13. m \in plan /\ m.actor \in Actor
      BY <1>2, GraphEdge, SiteFields
    <3>14. ASSUME NEW z \in left[m.actor], z.node = m PROVE FALSE
      <4>1. z = [node |-> z.node, trip |-> 1]
        BY <2>1, <3>13, StraightOccurrence
      <4> QED BY <3>12, <3>14, <4>1
    <3> QED BY <3>13, <3>14 DEF NodesDone
  <2> QED BY <1>1, <2>1, NoCycleStep
<1>15. (Balanced(plan) /\ verdict = Checked(plan))'
  BY <1>1, <1>2
<1> QED BY <1>7, <1>9, <1>11, <1>12, <1>13, <1>14, <1>15 DEF PlanInv

\* The invariant is inductive, for every family of plans and every fan-out.
THEOREM PlanInductive == PlanSpec => []PlanInv
<1>1. ASSUME PlanInv, [PlanNext]_planVars PROVE PlanInv'
  <2>1. CASE PlanNext
    <3>1. PICK a \in Actor : \E x \in left[a] : Put(a, x) \/ Get(a, x)
      BY <2>1 DEF PlanNext
    <3> QED BY <1>1, <3>1, PutStep, GetStep
  <2>2. CASE UNCHANGED planVars
    <3>1. plan' = plan /\ verdict' = verdict /\ left' = left /\ queue' = queue /\ fed' = fed
      BY <2>2 DEF planVars
    <3>2. PlanTypeOK' /\ InBodyOrder' /\ (Balanced(plan) /\ verdict = Checked(plan))'
      BY <1>1, <3>1 DEF PlanInv, PlanTypeOK, InBodyOrder
    <3>3. NodesDone' = NodesDone
      BY <3>1 DEF NodesDone
    <3>4. \A c, b : PutsDone(c)' = PutsDone(c) /\ GetsDone(c, b)' = GetsDone(c, b)
      BY <3>1 DEF PutsDone, GetsDone, Puts, Gets
    <3>5. Counted' /\ Waiting'
      BY <1>1, <3>1, <3>4 DEF PlanInv, Counted, Waiting
    <3>6. FedInTurn' /\ NoCycleDone'
      BY <1>1, <3>1, <3>3, <3>4 DEF PlanInv, FedInTurn, NoCycleDone
    <3> QED BY <3>2, <3>5, <3>6 DEF PlanInv
  <2> QED BY <1>1, <2>1, <2>2
<1> QED BY <1>1, PlanInitInv, PTL DEF PlanSpec

-----------------------------------------------------------------------------
(* What the invariant says of a run that hangs.                              *)

\* The variables stay in their types.
THEOREM PlanTypeCorrect == PlanSpec => []PlanTypeOK
<1>1. PlanInv => PlanTypeOK
  BY DEF PlanInv
<1> QED BY <1>1, PlanInductive, PTL

\* An actor that waits has got all that was put; what it waits for is not put.
LEMMA Starved ==
  ASSUME PlanInv, NEW a \in Actor, NEW x \in left[a], WaitsAt(a, x), NEW c, c = x.node.ch
  PROVE  /\ At(a, x) /\ c \in Channel /\ a \in Dests[c] /\ x \in Gets(c, a) \ GetsDone(c, a)
         /\ Cardinality(PutsDone(c)) = Cardinality(GetsDone(c, a))
         /\ Turn(plan, x) = Cardinality(PutsDone(c))
         /\ Cardinality(PutsDone(c)) \in Nat
<1>1. At(a, x) /\ x.node.kind = "get" /\ queue[c][a] = <<>>
  BY DEF WaitsAt
<1>2. x \in Occurrences(plan) /\ c \in Channel /\ a \in Dests[c] /\ x.node.actor = a /\ IsPlan(plan)
  BY <1>1, LeftIs DEF PlanInv, PlanTypeOK
<1>3. x \in Gets(c, a) \ GetsDone(c, a)
  BY <1>1, <1>2, EndOccurrences DEF Gets, GetsDone
<1>4. IsFiniteSet(GetsDone(c, a)) /\ IsFiniteSet(PutsDone(c))
  BY DoneIs
<1>5. Cardinality(GetsDone(c, a)) \in Nat /\ Cardinality(PutsDone(c)) \in Nat
  BY <1>4, FS_CardinalityType
<1>6. Cardinality(PutsDone(c)) = Len(queue[c][a]) + Cardinality(GetsDone(c, a))
  BY <1>2 DEF PlanInv, Counted
<1>7. Cardinality(PutsDone(c)) = Cardinality(GetsDone(c, a))
  BY <1>1, <1>5, <1>6
<1>8. Turn(plan, x) = Cardinality(GetsDone(c, a))
  BY <1>1, TurnIsDone
<1> QED BY <1>1, <1>2, <1>3, <1>5, <1>7, <1>8

\* With one producer, the puts done are the first ones.
LEMMA DoneComesFirst ==
  ASSUME PlanInv, NEW c, OneProducer(plan, c), NEW x \in PutsDone(c)
  PROVE  Turn(plan, x) < Cardinality(PutsDone(c))
<1> DEFINE P == PutEnd(plan, c)
           S == {y \in Occurrences(P) : Sooner(y, x)}
<1>1. IsPlan(plan) /\ IsEnd(plan, P)
  BY EndsAreLines DEF PlanInv, PlanTypeOK
<1>2. x \in Occurrences(P) /\ x \in Occurrences(plan) /\ x \notin left[x.node.actor]
  BY DoneIs DEF PutsDone, Puts
<1>3. Turn(plan, x) = Cardinality(S)
  BY <1>1, <1>2, TurnInLine
<1>4. ASSUME NEW y \in S PROVE y \in PutsDone(c)
  <2>1. y.node \in P /\ x.node \in P
    BY <1>2, OccurrenceIs
  <2>2. y.node.actor = x.node.actor
    BY <1>1, <2>1 DEF IsEnd, IsLine
  <2>3. x.node.actor \in Actor
    BY <1>1, <1>2, OccurrenceIs, SiteFields
  <2>4. y \notin left[y.node.actor]
    BY <1>2, <2>2, <2>3 DEF PlanInv, InBodyOrder
  <2> QED BY <2>4 DEF PutsDone, Puts
<1>5. x \notin S
  <2>1. x.node.region \in Nat /\ x.node.pos \in Nat /\ x.trip \in Nat
    BY <1>1, <1>2, OccurrenceIs, SiteFields
  <2> QED BY <2>1 DEF Sooner
<1>6. IsFiniteSet(PutsDone(c)) /\ S \subseteq PutsDone(c)
  BY <1>4, DoneIs
<1> QED BY <1>3, <1>5, <1>6, SubsetSize

\* So the partner of a get that waits, at the same turn, is still to be put.
LEMMA PartnerIsLeft ==
  ASSUME PlanInv, NEW a \in Actor, NEW x \in left[a], WaitsAt(a, x), NEW c, c = x.node.ch,
         OneProducer(plan, c), NEW y \in Puts(c), Turn(plan, y) = Turn(plan, x)
  PROVE  y.node.actor \in Actor /\ y \in left[y.node.actor]
<1>1. Turn(plan, x) = Cardinality(PutsDone(c)) /\ Cardinality(PutsDone(c)) \in Nat
  BY Starved
<1>2. y \notin PutsDone(c)
  BY <1>1, DoneComesFirst
<1>3. y.node.actor \in Actor
  <2>1. IsPlan(plan)
    BY DEF PlanInv, PlanTypeOK
  <2>2. y \in Occurrences(PutEnd(plan, c))
    BY DEF Puts
  <2>3. y.node \in plan
    BY <2>2, OccurrenceIs DEF PutEnd, Ends
  <2> QED BY <2>1, <2>3, SiteFields
<1> QED BY <1>2, <1>3 DEF PutsDone

\* In a balanced plan somebody still has a put to make on a channel that an
\* actor waits at.
THEOREM HangsInCircles == PlanSpec => []OnlyCirclesHang
<1>1. ASSUME PlanInv PROVE OnlyCirclesHang
  <2> SUFFICES ASSUME NEW a \in Actor, NEW x \in left[a], WaitsAt(a, x)
               PROVE  \E b \in Actor : \E y \in left[b] : y.node.ch = x.node.ch /\ y.node.kind = "put"
    BY DEF OnlyCirclesHang
  <2> DEFINE c == x.node.ch
  <2>1. /\ c \in Channel /\ a \in Dests[c] /\ x \in Gets(c, a) \ GetsDone(c, a)
        /\ Cardinality(PutsDone(c)) = Cardinality(GetsDone(c, a))
    BY <1>1, Starved
  <2>2. IsPlan(plan) /\ Balanced(plan)
    BY <1>1 DEF PlanInv, PlanTypeOK
  <2>3. Cardinality(Puts(c)) = Cardinality(Gets(c, a))
    BY <2>1, <2>2 DEF Balanced, Trips, Puts, Gets, PutEnd, GetEnd
  <2>4. IsFiniteSet(Gets(c, a)) /\ GetsDone(c, a) \subseteq Gets(c, a)
    BY <2>2, EndOccurrences DEF Gets, GetsDone
  <2>5. Cardinality(GetsDone(c, a)) < Cardinality(Gets(c, a)) /\ Cardinality(Gets(c, a)) \in Nat
    BY <2>1, <2>4, SubsetSize
  <2>6. PutsDone(c) # Puts(c)
    BY <2>1, <2>3, <2>5
  <2>7. PICK y \in Puts(c) : y \in left[y.node.actor]
    BY <2>6 DEF PutsDone
  <2>8. y \in Occurrences(plan) /\ y.node.ch = c /\ y.node.kind = "put"
    <3>1. y \in Occurrences(PutEnd(plan, c))
      BY DEF Puts
    <3> HIDE DEF c
    <3> QED BY <2>2, <3>1, EndOccurrences
  <2>9. y.node.actor \in Actor
    BY <2>2, <2>8, OccurrenceIs, SiteFields
  <2> QED BY <2>7, <2>8, <2>9
<1> QED BY <1>1, PlanInductive, PTL

\* In the text of a body a site has the one before it as program predecessor.
LEMMA PredecessorInText ==
  ASSUME NEW p, IsPlan(p), NEW m \in p, NEW n \in p, Earlier(m, n)
  PROVE  \E k \in p : <<k, n>> \in Graph(p) /\ (k = m \/ Earlier(m, k)) /\ Earlier(k, n)
<1> DEFINE E == {k \in p : k.actor = n.actor}
           R == TextOrder(E)
           K == Cardinality(E)
           place(k) == Cardinality(Below(E, R, k))
           C == {k \in E : (k = m \/ Earlier(m, k)) /\ Earlier(k, n)}
           D == {K - place(k) : k \in C}
<1>1. IsLine(p, E) /\ m \in C /\ n \in E
  BY DEF IsLine, Earlier
<1>2. IsFiniteSet(E) /\ IsStrictOrder(E, R)
  BY <1>1, LineInText
<1>3. \A k, l \in E : <<k, l>> \in R <=> Earlier(k, l)
  BY DEF TextOrder
<1> HIDE DEF E, R
<1>4. /\ \A k \in E : place(k) \in 0 .. K - 1
      /\ \A k, l \in E : <<k, l>> \in R <=> place(k) < place(l)
  <2>1. /\ \A k \in E : Cardinality(Below(E, R, k)) \in 0 .. Cardinality(E) - 1
        /\ \A k, l \in E :
             /\ <<k, l>> \in R <=> Cardinality(Below(E, R, k)) < Cardinality(Below(E, R, l))
             /\ Cardinality(Below(E, R, k)) = Cardinality(Below(E, R, l)) => k = l
        /\ \A i \in 0 .. Cardinality(E) - 1 : \E k \in E : Cardinality(Below(E, R, k)) = i
    BY ONLY <1>2, PlaceInOrder
  <2> QED BY <2>1
<1>5. K \in Nat
  BY <1>2, FS_CardinalityType
<1> HIDE DEF K, place
<1>6. D \subseteq Nat /\ D # {}
  <2>1. \A k \in C : K - place(k) \in Nat
    BY <1>4, <1>5
  <2> QED BY <1>1, <2>1
<1>7. PICK d \in D : \A e \in D : d <= e
  BY <1>6, LeastNat
<1>8. PICK k \in C : d = K - place(k)
  BY <1>7
<1>9. ASSUME NEW l \in p, Earlier(k, l), Earlier(l, n) PROVE FALSE
  <2>1. l \in E
    BY <1>9 DEF E, Earlier
  <2>2. m = l \/ Earlier(m, l)
    <3>1. m \in E /\ <<k, l>> \in R
      BY <1>1, <1>3, <1>8, <1>9, <2>1
    <3>2. m # k => <<m, k>> \in R
      BY <1>3, <1>8, <3>1
    <3>3. m # k => <<m, l>> \in R
      BY <1>2, <1>8, <2>1, <3>1, <3>2 DEF IsStrictOrder
    <3> QED BY <1>3, <1>9, <2>1, <3>1, <3>3
  <2>3. l \in C /\ k \in E
    BY <1>8, <1>9, <2>1, <2>2
  <2>4. place(k) < place(l)
    BY <1>3, <1>4, <1>9, <2>1, <2>3
  <2>5. place(k) \in Int /\ place(l) \in Int
    BY <1>4, <2>1, <2>3
  <2>6. K - place(k) <= K - place(l)
    BY <1>7, <1>8, <2>3
  <2> QED BY <1>5, <2>4, <2>5, <2>6
<1>10. k \in p /\ Earlier(k, n) /\ (k = m \/ Earlier(m, k))
  BY <1>8 DEF E
<1>11. <<k, n>> \in ProgramEdges(p)
  BY <1>9, <1>10 DEF ProgramEdges
<1> QED BY <1>10, <1>11 DEF Graph

\* Where the channel has a producer and a consumer, the partner of a get that
\* waits is still to be put, in the same trip.
LEMMA PairedPutIsLeft ==
  ASSUME PlanInv, NEW a \in Actor, NEW x \in left[a], WaitsAt(a, x), NEW c, c = x.node.ch,
         Zips(plan, c, a), StraightLine(plan) \/ BalancedPerBody(plan)
  PROVE  \E m \in plan : /\ <<m, x.node>> \in Graph(plan)
                         /\ m.actor \in Actor /\ [node |-> m, trip |-> x.trip] \in left[m.actor]
                         /\ BalancedPerBody(plan) => m.region = x.node.region
<1> DEFINE n == x.node
           P == PutEnd(plan, c)
           G == GetEnd(plan, c, a)
<1>1. IsPlan(plan) /\ c \in Channel /\ a \in Dests[c] /\ x \in Occurrences(G)
  BY Starved DEF PlanInv, PlanTypeOK, Gets
<1>2. n \in G /\ x.trip \in 1 .. n.trips /\ x = [node |-> n, trip |-> x.trip]
  BY <1>1, OccurrenceIs
<1>3. PICK m \in P : <<m, n>> \in Zipped(plan, c, a)
  BY <1>1, <1>2, Partners
<1>4. OneProducer(plan, c) /\ IsEnd(plan, P) /\ IsEnd(plan, G)
  BY <1>1, EndsAreLines DEF Zips
<1>5. m \in plan /\ Position(plan, m) = Position(plan, n)
  BY <1>3, ZippedIs DEF PutEnd, Ends
<1>6. <<m, n>> \in Graph(plan)
  <2>1. <<m, n>> \in Pairs(plan, c, a)
    BY <1>3 DEF Pairs
  <2>2. <<m, n>> \in UNION {Pairs(plan, c, b) : b \in Dests[c]}
    BY <1>1, <2>1
  <2> QED BY <1>1, <2>2 DEF Graph, ChannelEdges
<1> DEFINE y == [node |-> m, trip |-> x.trip]
<1>7. y \in Occurrences(P) /\ Turn(plan, y) = Turn(plan, x)
  <2>1. CASE StraightLine(plan)
    <3>1. x.trip = 1
      <4>1. x = [node |-> x.node, trip |-> 1]
        BY <2>1, StraightOccurrence
      <4> QED BY <4>1
    <3>2. y = [node |-> m, trip |-> 1] /\ x = [node |-> n, trip |-> 1]
      BY <1>2, <3>1
    <3> HIDE DEF y
    <3>3. y \in Occurrences(P) /\ Turn(plan, y) = Position(plan, m)
      BY <1>1, <1>4, <2>1, <3>2, TurnIsPosition
    <3>4. Turn(plan, x) = Position(plan, n)
      BY <1>1, <1>2, <1>4, <2>1, <3>2, TurnIsPosition
    <3> QED BY <1>5, <3>3, <3>4
  <2>2. CASE BalancedPerBody(plan)
    <3>1. x.trip \in 1 .. m.trips
      BY <1>1, <1>2, <1>3, <2>2, ZipKeepsRegion
    <3>2. y \in Occurrences(P) /\ Turn(plan, y) = Turn(plan, [node |-> n, trip |-> x.trip])
      BY <1>1, <1>3, <2>2, <3>1, TurnsAgree
    <3> QED BY <1>2, <3>2
  <2> QED BY <2>1, <2>2
<1>8. y.node.actor \in Actor /\ y \in left[y.node.actor]
  <2>1. y \in Puts(c)
    BY <1>7 DEF Puts
  <2> HIDE DEF y
  <2> QED BY <1>4, <1>7, <2>1, PartnerIsLeft
<1>9. BalancedPerBody(plan) => m.region = n.region
  BY <1>1, <1>3, ZipKeepsRegion
<1> QED BY <1>5, <1>6, <1>8, <1>9

\* A first site of those left is where its actor waits.
LEMMA WaitsAtFirst ==
  ASSUME PlanInv, Stuck, NEW a \in Actor, NEW x \in left[a], NEW S,
         \A y \in left[a] : Sooner(y, x) => y.node \in S /\ Earlier(y.node, x.node),
         \A y \in left[a], k \in plan :
           Sooner(y, x) /\ Earlier(y.node, k) /\ Earlier(k, x.node) => k \in S,
         \A m \in S : <<m, x.node>> \notin Graph(plan)
  PROVE  WaitsAt(a, x)
<1>1. PICK y \in left[a] : WaitsAt(a, y)
  BY DEF Stuck, Returned
<1>2. SUFFICES ASSUME y # x PROVE FALSE
  BY <1>1
<1>3. Sooner(y, x)
  BY <1>1, <1>2 DEF WaitsAt, At
<1>4. y.node \in S /\ Earlier(y.node, x.node)
  BY <1>3
<1>5. IsPlan(plan) /\ y.node \in plan /\ x.node \in plan
  BY LeftIs DEF PlanInv, PlanTypeOK
<1>6. PICK k \in plan : <<k, x.node>> \in Graph(plan) /\ (k = y.node \/ Earlier(y.node, k))
                          /\ Earlier(k, x.node)
  BY <1>4, <1>5, PredecessorInText
<1>7. k \in S
  BY <1>3, <1>4, <1>6
<1> QED BY <1>6, <1>7

\* On straight-line code with one producer and one consumer per index, the
\* acyclicity check decides whether the plan hangs.
THEOREM StraightLineIsExact == PlanSpec => []ExactOnStraightLine
<1>1. ASSUME PlanInv, StraightLine(plan), OneToOne(plan), verdict = "accepted", Stuck PROVE FALSE
  <2> DEFINE S == plan \ NodesDone
  <2>1. IsPlan(plan) /\ Acyclic(plan)
    BY <1>1 DEF PlanInv, PlanTypeOK, Checked
  <2>2. \A b \in Actor : \A y \in left[b] : y.node \in S
    BY <1>1, LeftIs DEF NodesDone
  <2>3. S # {} /\ S \in SUBSET plan
    BY <1>1, <2>2 DEF Stuck, Completed, Returned
  <2>4. PICK n \in S : \A m \in S : <<m, n>> \notin Graph(plan)
    BY <2>1, <2>3 DEF Acyclic, HasFirst
  <2>5. PICK x \in left[n.actor] : x.node = n
    BY <2>4 DEF NodesDone
  <2> DEFINE a == n.actor
  <2>6. a \in Actor /\ n \in plan
    BY <2>1, <2>4, SiteFields
  <2>7. x = [node |-> n, trip |-> 1] /\ \A y \in left[a] : y = [node |-> y.node, trip |-> 1] /\ y.node.actor = a
    BY <1>1, <2>5, <2>6, StraightOccurrence, LeftIs
  <2>8. \A y \in left[a] : Sooner(y, x) => y.node \in S /\ Earlier(y.node, x.node)
    <3> SUFFICES ASSUME NEW y \in left[a], Sooner(y, x) PROVE Earlier(y.node, x.node)
      BY <2>2, <2>6
    <3>1. x.trip = 1 /\ y.trip = 1 /\ y.node.actor = x.node.actor
      BY <2>5, <2>7
    <3> QED BY <3>1 DEF Sooner, Earlier
  <2>9. ASSUME NEW y \in left[a], NEW k \in plan, Sooner(y, x), Earlier(y.node, k), Earlier(k, x.node)
        PROVE  k \in S
    <3>1. k.trips = 1 /\ k.actor = a
      BY <1>1, <2>5, <2>9 DEF StraightLine, Earlier
    <3> DEFINE o == [node |-> k, trip |-> 1]
    <3>2. o \in Occurrences(plan)
      BY <3>1, OccurrenceIs
    <3>3. Sooner(y, o)
      <4>1. y.trip = 1 /\ o.trip = 1 /\ o.node = k
        BY <2>7
      <4> QED BY <2>9, <4>1 DEF Sooner, Earlier
    <3>4. o \in left[a]
      BY <1>1, <2>6, <3>1, <3>2, <3>3 DEF PlanInv, InBodyOrder
    <3> QED BY <2>2, <2>6, <3>4
  <2>10. WaitsAt(a, x)
    <3> HIDE DEF S
    <3>1. \A m \in S : <<m, x.node>> \notin Graph(plan)
      BY <2>4, <2>5
    <3> QED BY <1>1, <2>5, <2>6, <2>8, <2>9, <3>1, WaitsAtFirst
  <2>11. Zips(plan, x.node.ch, a)
    <3>1. x.node.ch \in Channel /\ a \in Dests[x.node.ch]
      BY <1>1, <2>5, <2>6, <2>10, Starved
    <3> QED BY <1>1, <3>1 DEF OneToOne
  <2>12. PICK m \in plan : /\ <<m, x.node>> \in Graph(plan)
                           /\ m.actor \in Actor /\ [node |-> m, trip |-> x.trip] \in left[m.actor]
    BY <1>1, <2>5, <2>6, <2>10, <2>11, PairedPutIsLeft
  <2>13. m \in S
    <3>1. [node |-> m, trip |-> x.trip].node = m
      OBVIOUS
    <3> QED BY <2>2, <2>12, <3>1
  <2> QED BY <2>4, <2>5, <2>12, <2>13
<1>2. ASSUME PlanInv, StraightLine(plan), OneToOne(plan), verdict = "CHANNEL-CYCLE", Completed
      PROVE  FALSE
  <2>1. IsPlan(plan) /\ ~Acyclic(plan)
    BY <1>2 DEF PlanInv, PlanTypeOK, Checked
  <2>2. plan \subseteq NodesDone
    BY <1>2, <2>1, SiteFields DEF NodesDone, Completed, Returned
  <2>3. \A nodes \in SUBSET NodesDone : nodes # {} => HasFirst(nodes, Graph(plan))
    BY <1>2 DEF PlanInv, NoCycleDone
  <2> QED BY <2>1, <2>2, <2>3 DEF Acyclic
<1>3. PlanInv => ExactOnStraightLine
  BY <1>1, <1>2 DEF ExactOnStraightLine
<1> QED BY <1>3, PlanInductive, PTL

\* Of the actors that wait, some are in the first trip anyone waits in.
LEMMA FirstSlot ==
  ASSUME PlanInv, Stuck
  PROVE  \E a \in Actor : \E x \in left[a] : \A b \in Actor : \A y \in left[b] :
           \/ x.node.region < y.node.region
           \/ x.node.region = y.node.region /\ x.trip <= y.trip
<1> DEFINE L == UNION {left[a] : a \in Actor}
           Rs == {x.node.region : x \in L}
<1>1. \A x \in L : x.node.region \in Nat /\ x.trip \in Nat
  <2> SUFFICES ASSUME NEW a \in Actor, NEW x \in left[a] PROVE x.node.region \in Nat /\ x.trip \in Nat
    OBVIOUS
  <2>1. IsPlan(plan)
    BY DEF PlanInv, PlanTypeOK
  <2> QED BY <2>1, LeftIs, SiteFields
<1>2. L # {}
  BY DEF Stuck, Completed, Returned
<1>3. Rs \subseteq Nat /\ Rs # {}
  BY <1>1, <1>2
<1>4. PICK r \in Rs : \A s \in Rs : r <= s
  BY <1>3, LeastNat
<1> DEFINE Ts == {x.trip : x \in {z \in L : z.node.region = r}}
<1>5. Ts \subseteq Nat /\ Ts # {}
  BY <1>1, <1>4
<1>6. PICK t \in Ts : \A s \in Ts : t <= s
  BY <1>5, LeastNat
<1>7. PICK x \in L : x.node.region = r /\ x.trip = t
  BY <1>6
<1>8. ASSUME NEW y \in L PROVE r < y.node.region \/ (r = y.node.region /\ t <= y.trip)
  <2>1. r <= y.node.region /\ r \in Nat /\ y.node.region \in Nat
    BY <1>1, <1>3, <1>4
  <2>2. r = y.node.region => t <= y.trip
    BY <1>6
  <2> QED BY <2>1, <2>2
<1> QED BY <1>7, <1>8

\* The puts of a channel up to that trip: one of those the get that waits is
\* short of is still to be made.
LEMMA ShortOfAPut ==
  ASSUME PlanInv, BalancedPerBody(plan), NEW a \in Actor, NEW x \in left[a], WaitsAt(a, x),
         NEW c, c = x.node.ch
  PROVE  \E y \in Puts(c) : /\ y.node.actor \in Actor /\ y \in left[y.node.actor]
                            /\ \/ y.node.region < x.node.region
                               \/ y.node.region = x.node.region /\ y.trip <= x.trip
<1> DEFINE r == x.node.region
           t == x.trip
           U == UpTo(Gets(c, a), r, t)
           V == UpTo(Puts(c), r, t)
<1>1. /\ At(a, x) /\ c \in Channel /\ a \in Dests[c] /\ x \in Gets(c, a) \ GetsDone(c, a)
      /\ Cardinality(PutsDone(c)) = Cardinality(GetsDone(c, a)) /\ Cardinality(PutsDone(c)) \in Nat
  BY Starved
<1>2. IsPlan(plan)
  BY DEF PlanInv, PlanTypeOK
<1>3. IsFiniteSet(Puts(c)) /\ IsFiniteSet(Gets(c, a)) /\ Cardinality(V) = Cardinality(U)
  BY <1>1, <1>2, SlotSizes DEF Puts, Gets
<1>4. ASSUME NEW y \in GetsDone(c, a) PROVE y \in U
  <2>a. y \in Gets(c, a)
    BY DEF GetsDone
  <2>1. y \in Occurrences(plan) /\ y.node.actor = a /\ y \notin left[a] /\ y \in Gets(c, a)
    BY <2>a, DoneIs
  <2>2. ~Sooner(x, y)
    BY <2>1 DEF PlanInv, InBodyOrder
  <2>3. /\ x.node \in plan /\ x.node.actor = a /\ x.trip \in Nat
        /\ y.node \in plan /\ y.trip \in Nat
    BY <2>1, LeftIs, OccurrenceIs
  <2>4. x.node.region \in Nat /\ y.node.region \in Nat
    BY <1>2, <2>3, SiteFields
  <2>5. y.node.region < r \/ (y.node.region = r /\ y.trip <= t)
    BY <2>2, <2>3, <2>4 DEF Sooner
  <2> QED BY <2>1, <2>5 DEF UpTo
<1>5. x \in U /\ U \subseteq Gets(c, a) /\ V \subseteq Puts(c)
  <2>1. x.trip <= x.trip
    BY LeftIs
  <2> QED BY <1>1, <2>1 DEF UpTo
<1>6. IsFiniteSet(U) /\ IsFiniteSet(V)
  BY <1>3, <1>5, SubsetSize
<1>7. Cardinality(GetsDone(c, a)) < Cardinality(U) /\ Cardinality(U) \in Nat
  BY <1>1, <1>4, <1>5, <1>6, SubsetSize
<1>8. PICK y \in V : y \notin PutsDone(c)
  <2>1. SUFFICES ASSUME V \subseteq PutsDone(c) PROVE FALSE
    OBVIOUS
  <2>2. IsFiniteSet(PutsDone(c))
    BY DoneIs
  <2>3. Cardinality(V) <= Cardinality(PutsDone(c))
    BY <2>1, <2>2, SubsetSize
  <2> QED BY <1>1, <1>3, <1>7, <2>3
<1>9. y \in Puts(c) /\ y \in left[y.node.actor]
  BY <1>5, <1>8 DEF PutsDone
<1>10. y.node.actor \in Actor
  <2>1. y \in Occurrences(PutEnd(plan, c))
    BY <1>9 DEF Puts
  <2>2. y.node \in plan
    BY <2>1, OccurrenceIs DEF PutEnd, Ends
  <2> QED BY <1>2, <2>2, SiteFields
<1> QED BY <1>8, <1>9, <1>10 DEF UpTo

\* With loops: if every body is balanced by itself, an accepted plan never hangs.
LEMMA AcceptedNeverHangs ==
  ASSUME PlanInv, BalancedPerBody(plan), verdict = "accepted", Stuck
  PROVE  FALSE
<1>1. IsPlan(plan) /\ Acyclic(plan)
  BY DEF PlanInv, PlanTypeOK, Checked
<1>2. PICK a0 \in Actor : \E x0 \in left[a0] : \A b \in Actor : \A y \in left[b] :
        \/ x0.node.region < y.node.region
        \/ x0.node.region = y.node.region /\ x0.trip <= y.trip
  BY FirstSlot
<1>3. PICK x0 \in left[a0] : \A b \in Actor : \A y \in left[b] :
        \/ x0.node.region < y.node.region
        \/ x0.node.region = y.node.region /\ x0.trip <= y.trip
  BY <1>2
<1> DEFINE r == x0.node.region
           t == x0.trip
           S == {n \in plan : n.region = r /\ [node |-> n, trip |-> t] \in left[n.actor]}
<1>4. x0.node \in S /\ r \in Nat /\ t \in Nat
  <2>1. x0.node \in plan /\ x0.node.actor = a0 /\ x0 = [node |-> x0.node, trip |-> x0.trip] /\ t \in Nat
    BY LeftIs
  <2> QED BY <1>1, <2>1, SiteFields
<1>5. PICK n \in S : \A m \in S : <<m, n>> \notin Graph(plan)
  <2>1. S \in SUBSET plan /\ S # {}
    BY <1>4
  <2> HIDE DEF S
  <2> QED BY <1>1, <2>1 DEF Acyclic, HasFirst
<1> DEFINE a == n.actor
           x == [node |-> n, trip |-> t]
<1>6. a \in Actor /\ x \in left[a] /\ n \in plan /\ n.region = r /\ x.node = n /\ x.trip = t
  BY <1>1, <1>5, SiteFields
<1> HIDE DEF a, x
<1>7. ASSUME NEW b \in Actor, NEW y \in left[b]
      PROVE  /\ r < y.node.region \/ (r = y.node.region /\ t <= y.trip)
             /\ y.node \in plan /\ y.node.actor = b /\ y = [node |-> y.node, trip |-> y.trip]
             /\ y.trip \in 1 .. y.node.trips
             /\ y.node.region \in Nat /\ y.node.pos \in Nat /\ y.trip \in Nat
  <2>1. /\ y.node \in plan /\ y.node.actor = b /\ y = [node |-> y.node, trip |-> y.trip]
        /\ y.trip \in 1 .. y.node.trips
    BY LeftIs
  <2>2. y.node.region \in Nat /\ y.node.pos \in Nat /\ y.node.trips \in Nat
    BY <1>1, <2>1, SiteFields
  <2>3. r < y.node.region \/ (r = y.node.region /\ t <= y.trip)
    BY <1>3
  <2> QED BY <2>1, <2>2, <2>3
<1>8. ASSUME NEW b \in Actor, NEW y \in left[b],
             y.node.region < r \/ (y.node.region = r /\ y.trip <= t)
      PROVE  y.node \in S /\ y.trip = t /\ y.node.region = r
  <2>1. y.node.region = r /\ y.trip = t
    BY <1>4, <1>7, <1>8
  <2> QED BY <1>7, <2>1
<1>9. ASSUME NEW y \in left[a], Sooner(y, x)
      PROVE  /\ y.node \in S /\ Earlier(y.node, n)
             /\ y.trip = t /\ y.node.region = r /\ y.node.pos < n.pos
  <2>1. y.node.region < r \/ (y.node.region = r /\ y.trip <= t)
    BY <1>4, <1>6, <1>7, <1>9 DEF Sooner
  <2>2. y.node \in S /\ y.trip = t /\ y.node.region = r
    BY <1>6, <1>8, <2>1
  <2>3. y.node.pos < n.pos
    BY <1>4, <1>6, <1>9, <2>2 DEF Sooner
  <2>4. y.node.actor = n.actor
    BY <1>6, <1>7 DEF a
  <2> QED BY <1>6, <2>2, <2>3, <2>4 DEF Earlier
<1>10. ASSUME NEW y \in left[a], NEW k \in plan, Sooner(y, x), Earlier(y.node, k), Earlier(k, n)
       PROVE  k \in S
  <2>1. /\ y.trip = t /\ y.node.region = r /\ y.node.actor = a /\ y.node \in plan
        /\ y.trip \in 1 .. y.node.trips
    BY <1>6, <1>7, <1>9, <1>10
  <2>2. k.region \in Nat /\ k.region = r /\ k.actor = a /\ y.node.pos < k.pos
    <3>1. k.region \in Nat
      BY <1>1, SiteFields
    <3> QED BY <1>4, <1>6, <1>10, <2>1, <3>1 DEF Earlier
  <2>3. k.trips = y.node.trips
    BY <1>1, <2>1, <2>2 DEF IsPlan
  <2> DEFINE o == [node |-> k, trip |-> t]
  <2>4. o \in Occurrences(plan)
    BY <2>1, <2>3, OccurrenceIs
  <2>5. Sooner(y, o)
    <3>1. o.node = k /\ o.trip = t
      OBVIOUS
    <3> HIDE DEF o
    <3> QED BY <2>1, <2>2, <3>1 DEF Sooner
  <2>6. o \in left[a]
    BY <1>6, <2>2, <2>4, <2>5 DEF PlanInv, InBodyOrder
  <2> QED BY <2>2, <2>6
<1>11. WaitsAt(a, x)
  <2>1. \A m \in S : <<m, x.node>> \notin Graph(plan)
    BY <1>5, <1>6
  <2>2. /\ \A y \in left[a] : Sooner(y, x) => y.node \in S /\ Earlier(y.node, x.node)
        /\ \A y \in left[a], k \in plan :
             Sooner(y, x) /\ Earlier(y.node, k) /\ Earlier(k, x.node) => k \in S
    BY <1>6, <1>9, <1>10
  <2> HIDE DEF S
  <2> QED BY <1>6, <2>1, <2>2, WaitsAtFirst
<1> DEFINE c == n.ch
<1>12. c \in Channel /\ a \in Dests[c] /\ x \in Gets(c, a)
  BY <1>6, <1>11, Starved
<1>13. CASE Zips(plan, c, a)
  <2>1. PICK m \in plan : /\ <<m, n>> \in Graph(plan)
                          /\ m.actor \in Actor /\ [node |-> m, trip |-> t] \in left[m.actor]
                          /\ m.region = r
    BY <1>6, <1>11, <1>13, PairedPutIsLeft
  <2>2. m \in S
    BY <2>1
  <2> QED BY <1>5, <2>1, <2>2
<1>14. CASE ~Zips(plan, c, a)
  <2>1. PICK y \in Puts(c) : /\ y.node.actor \in Actor /\ y \in left[y.node.actor]
                             /\ \/ y.node.region < r
                                \/ y.node.region = r /\ y.trip <= t
    BY <1>6, <1>11, ShortOfAPut
  <2>2. y.node \in S
    BY <1>8, <2>1
  <2>3. <<y.node, n>> \in AllPairs(plan, c, a)
    <3>1. y.node \in PutEnd(plan, c) /\ n \in GetEnd(plan, c, a)
      BY <1>6, <1>12, <2>1, OccurrenceIs DEF Puts, Gets
    <3> QED BY <3>1 DEF AllPairs, PutEnd, GetEnd
  <2>4. <<y.node, n>> \in UNION {Pairs(plan, c, b) : b \in Dests[c]}
    BY <1>12, <1>14, <2>3 DEF Pairs
  <2>5. <<y.node, n>> \in Graph(plan)
    BY <1>12, <2>4 DEF Graph, ChannelEdges
  <2> QED BY <1>5, <2>2, <2>5
<1> QED BY <1>13, <1>14

\* And every get is fed by the put it is paired with, in the same trip.
LEMMA PairingIsReal ==
  ASSUME PlanInv, BalancedPerBody(plan), OneToOne(plan)
  PROVE  FedAsPaired
<1> SUFFICES ASSUME NEW pair \in fed
             PROVE  /\ <<pair[1].node, pair[2].node>> \in Zipped(plan, pair[2].node.ch, pair[2].node.actor)
                    /\ pair[1].trip = pair[2].trip
  BY DEF FedAsPaired
<1> DEFINE x == pair[1]
           y == pair[2]
<1>1. IsPlan(plan)
  BY DEF PlanInv, PlanTypeOK
<1>2. PICK c \in Channel : \E a \in Dests[c] :
        /\ x \in PutsDone(c) /\ y \in GetsDone(c, a)
        /\ OneProducer(plan, c) => Turn(plan, x) = Turn(plan, y)
  BY DEF PlanInv, FedInTurn
<1>3. PICK a \in Dests[c] :
        /\ x \in PutsDone(c) /\ y \in GetsDone(c, a)
        /\ OneProducer(plan, c) => Turn(plan, x) = Turn(plan, y)
  BY <1>2
<1> HIDE DEF x, y
<1> DEFINE P == PutEnd(plan, c)
           G == GetEnd(plan, c, a)
           n == y.node
<1>4. Zips(plan, c, a) /\ OneProducer(plan, c) /\ IsEnd(plan, P)
  BY <1>1, EndsAreLines DEF OneToOne, Zips
<1>5. x \in Occurrences(P) /\ y \in Occurrences(G) /\ n.ch = c /\ n.actor = a
  <2>1. x \in Occurrences(P) /\ y \in Occurrences(G)
    BY <1>3 DEF PutsDone, Puts, GetsDone, Gets
  <2>2. y.node.ch = c /\ y.node.actor = a
    BY <1>3, DoneIs
  <2> QED BY <2>1, <2>2
<1>6. n \in G /\ y.trip \in 1 .. n.trips /\ y = [node |-> n, trip |-> y.trip]
  BY <1>5, OccurrenceIs
<1>7. PICK m \in P : <<m, n>> \in Zipped(plan, c, a)
  BY <1>1, <1>4, <1>6, Partners
<1>8. y.trip \in 1 .. m.trips
  BY <1>1, <1>4, <1>6, <1>7, ZipKeepsRegion
<1> DEFINE z == [node |-> m, trip |-> y.trip]
<1>9. z \in Occurrences(P) /\ Turn(plan, z) = Turn(plan, y)
  <2>1. z \in Occurrences(P) /\ Turn(plan, z) = Turn(plan, [node |-> n, trip |-> y.trip])
    BY <1>1, <1>4, <1>7, <1>8, TurnsAgree
  <2> QED BY <1>6, <2>1
<1>10. x = z
  <2> HIDE DEF z
  <2>1. \A u, v \in Occurrences(P) : Turn(plan, u) = Turn(plan, v) => u = v
    BY <1>1, <1>4, TurnInLine
  <2> QED BY <1>3, <1>4, <1>5, <1>9, <2>1
<1>11. x.node = m /\ x.trip = y.trip
  BY <1>10
<1> QED BY <1>5, <1>7, <1>11 DEF x, y

\* With loops, the acyclicity check is safe for plans whose every body is
\* balanced by itself, and the pairing of the graph is what happens.
THEOREM BalancedBodiesAreSafe == PlanSpec => []PerBodyIsSafe
<1>1. PlanInv => PerBodyIsSafe
  BY AcceptedNeverHangs, PairingIsReal DEF PerBodyIsSafe
<1> QED BY <1>1, PlanInductive, PTL

=============================================================================
