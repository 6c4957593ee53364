----------------------------- MODULE CascadeTT -----------------------------
(***************************************************************************)
(* The cascade plan as spatial/m5tt_emit.py emits it: one kernel per core,  *)
(* which reads its tiles from DRAM itself; each link of the chain a remote   *)
(* write of the whole accumulator into the next core's recv, in the same    *)
(* place every trip, so that one partial sum may be in flight; only the     *)
(* tail writes to DRAM.                                                     *)
(***************************************************************************)
EXTENDS CascadePlan

VARIABLES
  chain,   \* the direction of the chain, fixed by the rank of the herd
  op,      \* op[p]: what core p does next
  step,    \* step[p]: trip of the streaming loop
  tile,    \* tile[p]: trip of the row tile in L1
  acc,     \* acc[p]: the accumulator
  recv,    \* recv[p]: the buffer the chain delivers into
  full,    \* full[k]: semaphore of link k, on its consumer
  empty,   \* empty[k]: semaphore of link k, on its producer
  putn,    \* putn[p]: the kernel's counter Cascade_put_n
  getn,    \* getn[p]: the kernel's counter Cascade_get_n
  drainn,  \* the tail's counter C2L3_put_n, its place in the segment's loop
  l3       \* l3[n]: the sum in DRAM for the row tile of trip n

data == <<tile, acc, recv>>
sems == <<full, empty, putn, getn>>
ctl  == <<op, step>>
out  == <<drainn, l3>>
vars == <<chain, ctl, data, sems, out>>

Op == {"stage", "load", "compute", "release", "wait_full", "accumulate",
       "wait_empty", "write", "signal", "drain", "done"}

IsHead(p) == p = Head(chain)
IsTail(p) == p = Tail(chain)

-----------------------------------------------------------------------------
\* Two partial sums that are one get apart land in the same recv.
AliasGaps == IF T > 1 THEN 1 .. T - 1 ELSE {}

\* Mutant: the credit of the halo, two partial sums in flight.
TwoCredits == 2

Credit == IF AliasGaps = {}
          THEN 1
          ELSE CHOOSE g \in AliasGaps : \A h \in AliasGaps : g <= h

\* What put number n waits for on `empty`.
EmptyNeeded(n) == IF n < Credit - 1 THEN 0 ELSE n - (Credit - 1)

-----------------------------------------------------------------------------
Init ==
  /\ chain \in Direction
  /\ op    = [p \in PE |-> "stage"]
  /\ step  = [p \in PE |-> 0]
  /\ tile  = [p \in PE |-> Junk]
  /\ acc   = [p \in PE |-> Unwritten]
  /\ recv  = [p \in PE |-> Unwritten]
  /\ full  = [k \in Link |-> 0]
  /\ empty = [k \in Link |-> 0]
  /\ putn  = [p \in PE |-> 0]
  /\ getn  = [p \in PE |-> 0]
  /\ drainn = 0
  /\ l3    = [n \in Trip |-> Unwritten]

Goto(p, o) == op' = [op EXCEPT ![p] = o]

\* Entry of trip n of the streaming loop, or its exit.
EnterTrip(p, n) ==
  /\ step' = [step EXCEPT ![p] = n]
  /\ Goto(p, IF n < T THEN "load" ELSE "done")

\* The resident tile, read once.
Stage(p) ==
  /\ op[p] = "stage"
  /\ EnterTrip(p, 0)
  /\ UNCHANGED <<chain, data, sems, out>>

\* The streamed tile of this trip.
Load(p) ==
  /\ op[p] = "load"
  /\ tile' = [tile EXCEPT ![p] = step[p]]
  /\ Goto(p, "compute")
  /\ UNCHANGED <<chain, step, acc, recv, sems, out>>

AfterCompute(p) == Goto(p, IF IsHead(p) THEN "wait_empty" ELSE "release")

\* Mutant: the accumulator is zeroed once, not every trip.
ComputeOn(p) ==
  /\ op[p] = "compute"
  /\ acc' = [acc EXCEPT ![p] = Plus(IF step[p] = 0 THEN Zero ELSE @, Share(p, tile[p]))]
  /\ AfterCompute(p)
  /\ UNCHANGED <<chain, step, tile, recv, sems, out>>

\* The accumulator is zeroed, then this PE's share is added.
Compute(p) ==
  /\ op[p] = "compute"
  /\ acc' = [acc EXCEPT ![p] = Plus(Zero, Share(p, tile[p]))]
  /\ AfterCompute(p)
  /\ UNCHANGED <<chain, step, tile, recv, sems, out>>

\* A get of the chain first gives back the slot of the previous one.
Release(p) ==
  /\ op[p] = "release"
  /\ empty' = IF getn[p] > 0 THEN [empty EXCEPT ![GetIndex(chain, p)] = @ + 1] ELSE empty
  /\ Goto(p, "wait_full")
  /\ UNCHANGED <<chain, step, data, full, putn, getn, out>>

WaitFull(p) ==
  /\ op[p] = "wait_full"
  /\ full[GetIndex(chain, p)] >= getn[p] + 1
  /\ getn' = [getn EXCEPT ![p] = @ + 1]
  /\ Goto(p, "accumulate")
  /\ UNCHANGED <<chain, step, data, full, empty, putn, out>>

\* Mutant: the tail drains its own share only.
AccumulateUnlessTail(p) ==
  /\ op[p] = "accumulate"
  /\ acc' = IF IsTail(p) THEN acc ELSE [acc EXCEPT ![p] = Plus(@, recv[p])]
  /\ Goto(p, IF IsTail(p) THEN "drain" ELSE "wait_empty")
  /\ UNCHANGED <<chain, step, tile, recv, sems, out>>

Accumulate(p) ==
  /\ op[p] = "accumulate"
  /\ acc' = [acc EXCEPT ![p] = Plus(@, recv[p])]
  /\ Goto(p, IF IsTail(p) THEN "drain" ELSE "wait_empty")
  /\ UNCHANGED <<chain, step, tile, recv, sems, out>>

WaitEmpty(p) ==
  /\ op[p] = "wait_empty"
  /\ empty[PutIndex(chain, p)] >= EmptyNeeded(putn[p])
  /\ Goto(p, "write")
  /\ UNCHANGED <<chain, step, data, sems, out>>

\* The whole accumulator, written into the receiver's L1, and its barrier.
Write(p) ==
  /\ op[p] = "write"
  /\ recv' = [recv EXCEPT ![Receiver(chain, p)] = acc[p]]
  /\ Goto(p, "signal")
  /\ UNCHANGED <<chain, step, tile, acc, sems, out>>

Signal(p) ==
  /\ op[p] = "signal"
  /\ full' = [full EXCEPT ![PutIndex(chain, p)] = @ + 1]
  /\ putn' = [putn EXCEPT ![p] = @ + 1]
  /\ EnterTrip(p, step[p] + 1)
  /\ UNCHANGED <<chain, data, empty, getn, out>>

\* The tail writes the tile's sum to DRAM. No loop of the herd is the
\* segment's drain loop: the counter of the drains is the row tile.
Drain(p) ==
  /\ op[p] = "drain"
  /\ l3' = [l3 EXCEPT ![drainn] = acc[p]]
  /\ drainn' = drainn + 1
  /\ EnterTrip(p, step[p] + 1)
  /\ UNCHANGED <<chain, data, sems>>

-----------------------------------------------------------------------------
Get(p)  == Release(p) \/ WaitFull(p) \/ Accumulate(p)
Put(p)  == WaitEmpty(p) \/ Write(p) \/ Signal(p)
Core(p) == Stage(p) \/ Load(p) \/ Compute(p) \/ Get(p) \/ Put(p) \/ Drain(p)

Finished == \A p \in PE : op[p] = "done"
Return   == Finished /\ UNCHANGED vars

Next == (\E p \in PE : Core(p)) \/ Return

\* Each core runs its own kernel; a satisfied wait stays satisfied.
Fairness == \A p \in PE : WF_vars(Core(p))

Spec == Init /\ [][Next]_vars /\ Fairness

-----------------------------------------------------------------------------
(* Properties.                                                              *)

\* The variables stay in their types: no core leaves its kernel's trips.
TypeOK ==
  /\ chain \in Direction
  /\ op    \in [PE -> Op]
  /\ step  \in [PE -> 0 .. T]
  /\ tile  \in [PE -> Trip \union {Junk}]
  /\ acc   \in [PE -> Sum]
  /\ recv  \in [PE -> Sum]
  /\ full  \in [Link -> Nat]
  /\ empty \in [Link -> Nat]
  /\ putn  \in [PE -> Nat]
  /\ getn  \in [PE -> Nat]
  /\ drainn \in Nat
  /\ l3    \in [Trip -> Sum]

\* What a PE adds to its own share is the sum of all the PEs before it in the
\* chain, every share of this very trip, whichever way the chain runs.
ReceivesPrefix ==
  \A p \in PE : op[p] = "accumulate" => recv[p] = SumOver(Before(chain, p), step[p])

\* recv is written only when its owner has added what was there: the one slot
\* is never written under a sum still in use.
SlotIsFree ==
  \A p \in PE : op[p] \in {"write", "signal"} =>
    LET q == Receiver(chain, p) IN getn[q] = putn[p] /\ op[q] # "accumulate"

\* The chain implements the reduction: whole sums, in order, all of them.
Past     == {"release", "wait_full", "accumulate", "wait_empty", "write", "signal", "drain"}
computed == [p \in PE |-> step[p] + (IF op[p] \in Past THEN 1 ELSE 0)]
whole    == CHOOSE n \in 0 .. T :
              /\ \A m \in 0 .. n - 1 : l3[m] = SumOver(PE, m)
              /\ n < T => l3[n] # SumOver(PE, n)
Abstract == INSTANCE Reduction WITH shares <- computed, sums <- whole
ImplementsReduction == Abstract!Spec
=============================================================================
