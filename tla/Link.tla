-------------------------------- MODULE Link --------------------------------
(***************************************************************************)
(* One core-to-core link of spatial/m5tt_emit.py, for any plan: the n-th     *)
(* payload lands in the region the n-th get names, the producer may run      *)
(* `credit` payloads ahead, and two counting semaphores that are never       *)
(* reset order the two cores.  The NoC delivers the bytes of a write in any  *)
(* order until its barrier.                                                  *)
(***************************************************************************)
EXTENDS Integers

CONSTANTS N,      \* payloads the link carries, trip counts expanded
          Byte    \* bytes of the consumer's L1

ASSUME NAssumption == N \in Nat

VARIABLES
  landing,  \* landing[n]: the bytes payload n lands in
  credit,   \* how many payloads may be in flight
  prod,     \* the producer: at its wait, writing, or about to signal
  todo,     \* bytes of the current payload that have not arrived yet
  sent,     \* the producer's counter
  cons,     \* the consumer: "use" between two gets, "wait" inside one
  got,      \* the consumer's counter
  full,     \* semaphore on the consumer: payloads delivered
  empty,    \* semaphore on the producer: payloads given back
  mem       \* mem[b]: the payload byte b belongs to

static   == <<landing, credit>>
producer == <<prod, todo, sent>>
consumer == <<cons, got>>
vars     == <<static, producer, consumer, full, empty, mem>>

Payload   == 0 .. N - 1
NoPayload == -1

-----------------------------------------------------------------------------
(* The credit of the link, read off the sequence of landing regions.        *)

Overlaps(one, two) == one \intersect two # {}

\* Two payloads `gap` apart on the link land on a common byte.
AliasAt(gap) == \E n \in 0 .. N - 1 - gap : Overlaps(landing[n], landing[n + gap])

\* Mutant: the gap itself is allowed in flight, one payload more.
CreditPlusOne(c) ==
  \/ c \in 2 .. N /\ AliasAt(c - 1) /\ \A gap \in 1 .. c - 2 : ~AliasAt(gap)
  \/ c = (IF N > 1 THEN N ELSE 1) /\ \A gap \in 1 .. N - 1 : ~AliasAt(gap)

\* The smallest gap at which two payloads overlap, all of them if none does.
IsCredit(c) ==
  /\ \A gap \in 1 .. c - 1 : ~AliasAt(gap)
  /\ \/ c \in 1 .. N - 1 /\ AliasAt(c)
     \/ c = IF N > 1 THEN N ELSE 1

\* What put number n waits for on `empty`.
EmptyNeeded(n) == IF n < credit - 1 THEN 0 ELSE n - (credit - 1)

-----------------------------------------------------------------------------
Init ==
  /\ landing \in [Payload -> SUBSET Byte \ {{}}]
  /\ credit \in 1 .. N + 1 /\ IsCredit(credit)
  /\ prod = "wait" /\ todo = {} /\ sent = 0
  /\ cons = "use" /\ got = 0
  /\ full = 0 /\ empty = 0
  /\ mem = [b \in Byte |-> NoPayload]

WaitEmpty ==
  /\ prod = "wait" /\ sent < N
  /\ empty >= EmptyNeeded(sent)
  /\ prod' = "write"
  /\ todo' = landing[sent]
  /\ UNCHANGED <<static, sent, consumer, full, empty, mem>>

\* One byte of the write arrives.
Arrive ==
  /\ prod = "write"
  /\ \E b \in todo :
       /\ mem' = [mem EXCEPT ![b] = sent]
       /\ todo' = todo \ {b}
  /\ UNCHANGED <<static, prod, sent, consumer, full, empty>>

\* Mutant: the write is only issued, not waited for.
BarrierMissing ==
  /\ prod = "write"
  /\ prod' = "signal"
  /\ UNCHANGED <<static, todo, sent, consumer, full, empty, mem>>

Barrier ==
  /\ prod = "write" /\ todo = {}
  /\ prod' = "signal"
  /\ UNCHANGED <<static, todo, sent, consumer, full, empty, mem>>

\* Mutant: the kernel's counter is not incremented.
SignalUncounted ==
  /\ prod = "signal"
  /\ full' = full + 1
  /\ prod' = "wait"
  /\ UNCHANGED <<static, todo, sent, consumer, empty, mem>>

Signal ==
  /\ prod = "signal"
  /\ full' = full + 1
  /\ sent' = sent + 1
  /\ prod' = "wait"
  /\ UNCHANGED <<static, todo, consumer, empty, mem>>

\* Mutant: the region is given back by the get that takes it.
ReleaseOwn ==
  /\ cons = "use" /\ got < N
  /\ empty' = empty + 1
  /\ cons' = "wait"
  /\ UNCHANGED <<static, producer, got, full, mem>>

\* The next get begins: the previous payload has been read for the last time.
Release ==
  /\ cons = "use" /\ got < N
  /\ empty' = IF got > 0 THEN empty + 1 ELSE empty
  /\ cons' = "wait"
  /\ UNCHANGED <<static, producer, got, full, mem>>

WaitFull ==
  /\ cons = "wait"
  /\ full >= got + 1
  /\ got' = got + 1
  /\ cons' = "use"
  /\ UNCHANGED <<static, producer, full, empty, mem>>

Producer == WaitEmpty \/ Arrive \/ Barrier \/ Signal
Consumer == Release \/ WaitFull

Finished == sent = N /\ got = N
Return   == Finished /\ UNCHANGED vars

Next == Producer \/ Consumer \/ Return

\* Each core runs its kernel, and the NoC delivers what was written.
Fairness == WF_vars(Producer) /\ WF_vars(Consumer)

Spec == Init /\ [][Next]_vars /\ Fairness

-----------------------------------------------------------------------------
(* Properties.                                                              *)

\* The variables stay in their types, the counters within the payloads.
TypeOK ==
  /\ landing \in [Payload -> SUBSET Byte]
  /\ credit \in 1 .. N + 1
  /\ prod \in {"wait", "write", "signal"}
  /\ todo \in SUBSET Byte
  /\ sent \in 0 .. N
  /\ cons \in {"use", "wait"}
  /\ got \in 0 .. N
  /\ full \in 0 .. N
  /\ empty \in 0 .. N
  /\ mem \in [Byte -> Payload \union {NoPayload}]

\* While the consumer uses payload got - 1, every byte of its region holds it:
\* all of it has arrived, and nothing sent since has landed on it.
IntactWhileUsed ==
  cons = "use" /\ got > 0 => \A b \in landing[got - 1] : mem[b] = got - 1

\* The link is a FIFO of `credit` slots, which hands over all N payloads.
Fifo == INSTANCE BoundedFifo
          WITH depth <- credit, put <- full, taken <- got, freed <- empty
ImplementsFifo == Fifo!Spec
=============================================================================
