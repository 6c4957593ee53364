------------------------------- MODULE HaloTT -------------------------------
(***************************************************************************)
(* The halo plan as spatial/m5tt_emit.py emits it: one kernel per core, L3 *)
(* reached by the core itself, and each core-to-core link a direct write    *)
(* into the consumer's L1 guarded by two counting semaphores that are never *)
(* reset.  `full` lives on the consumer and counts delivered strips,        *)
(* `empty` lives on the producer and counts the landing regions released.   *)
(*                                                                         *)
(* A core is an actor; a step of it is one blocking wait, one transfer with *)
(* its barrier, one semaphore increment, or one loop nest over a strip.     *)
(***************************************************************************)
EXTENDS HaloPlan

VARIABLES
  op,      \* op[p]: what core p does next
  dir,     \* dir[p]: the channel the put or get in progress is on
  step,    \* step[p]: trip of the timestep loop
  own,     \* own[p][b]: plane held by the owned rows of buffer b
  ghost,   \* ghost[p][b][d]: plane held by the band channel d lands in
  cols,    \* cols[p][b]: plane the boundary columns come from
  full,    \* full[p][d]: semaphore on consumer p, strips delivered
  empty,   \* empty[p][d]: semaphore on producer p, regions released
  putn,    \* putn[p][d]: the kernel's counter d_put_n
  getn,    \* getn[p][d]: the kernel's counter d_get_n
  l3       \* l3[p][n]: plane held by p's rows of U[lo + n] in DRAM

strips == <<own, ghost, cols>>
sems   == <<full, empty, putn, getn>>
ctl    == <<op, dir, step>>
vars   == <<ctl, strips, sems, l3>>

Op == {"fill", "copy", "wait_empty", "write", "signal",
       "release", "wait_full", "update", "drain", "done"}

-----------------------------------------------------------------------------
(* Static analysis of the emitter: where the n-th strip of a link lands,    *)
(* and how many strips may be in flight.                                    *)

\* R-TT-B: the n-th put feeds the n-th get, which lands in that trip's source.
Landing(n) == Source(n)

\* The gaps at which two payloads of one link land in the same region.
AliasGaps == {g \in 1 .. T - 1 : \E i \in 0 .. T - 1 - g : Landing(i) = Landing(i + g)}

\* Mutant: one landing region in flight, a FIFO of depth one.
OneCredit == 1

Credit == IF AliasGaps = {}
          THEN IF T > 1 THEN T ELSE 1
          ELSE CHOOSE g \in AliasGaps : \A h \in AliasGaps : g <= h

\* What put number n waits for on `empty`.
EmptyNeeded(n) == IF n < Credit - 1 THEN 0 ELSE n - (Credit - 1)

-----------------------------------------------------------------------------
Init ==
  /\ op    = [p \in PE |-> "fill"]
  /\ dir   = [p \in PE |-> "ToNorth"]
  /\ step  = [p \in PE |-> 0]
  /\ own   = [p \in PE |-> [b \in Buf |-> Junk]]
  /\ ghost = [p \in PE |-> [b \in Buf |-> [d \in Dir |-> Junk]]]
  /\ cols  = [p \in PE |-> [b \in Buf |-> Junk]]
  /\ full  = [p \in PE |-> [d \in Dir |-> 0]]
  /\ empty = [p \in PE |-> [d \in Dir |-> 0]]
  /\ putn  = [p \in PE |-> [d \in Dir |-> 0]]
  /\ getn  = [p \in PE |-> [d \in Dir |-> 0]]
  /\ l3    = [p \in PE |-> [n \in 0 .. T |-> IF n = 0 THEN 0 ELSE Junk]]

\* Core p moves on to operation o, on channel d.
Goto(p, o, d) ==
  /\ op'  = [op EXCEPT ![p] = o]
  /\ dir' = [dir EXCEPT ![p] = d]

\* Both puts come before both gets, the north channel first each time.
AfterPut(p) ==
  IF dir[p] = "ToNorth" THEN Goto(p, "wait_empty", "ToSouth")
                        ELSE Goto(p, "release", "ToNorth")
AfterGet(p) ==
  IF dir[p] = "ToNorth" THEN Goto(p, "release", "ToSouth")
                        ELSE Goto(p, "update", "ToNorth")

\* Entry of trip n of the timestep loop, or its exit.
EnterTrip(p, n) ==
  /\ step' = [step EXCEPT ![p] = n]
  /\ Goto(p, IF n < T THEN "wait_empty" ELSE "done", "ToNorth")

-----------------------------------------------------------------------------
(* Prologue: stage plane lo with its ghost bands, then seed both buffers.   *)

Fill(p) ==
  /\ op[p] = "fill"
  /\ own'   = [own EXCEPT ![p]["cur"] = l3[p][0]]
  /\ ghost' = [ghost EXCEPT ![p]["cur"] =
                 [d \in Dir |-> IF GetGuard(p, d) THEN l3[GetPeer(p, d)][0] ELSE 0]]
  /\ cols'  = [cols EXCEPT ![p]["cur"] = 0]
  /\ Goto(p, "copy", "ToNorth")
  /\ UNCHANGED <<step, sems, l3>>

\* Mutant: only the interior of `next` is seeded, not its boundary.
CopyInterior(p) ==
  /\ op[p] = "copy"
  /\ own'   = [own EXCEPT ![p]["next"] = own[p]["cur"]]
  /\ EnterTrip(p, 0)
  /\ UNCHANGED <<ghost, cols, sems, l3>>

Copy(p) ==
  /\ op[p] = "copy"
  /\ own'   = [own EXCEPT ![p]["next"] = own[p]["cur"]]
  /\ ghost' = [ghost EXCEPT ![p]["next"] = ghost[p]["cur"]]
  /\ cols'  = [cols EXCEPT ![p]["next"] = cols[p]["cur"]]
  /\ EnterTrip(p, 0)
  /\ UNCHANGED <<sems, l3>>

-----------------------------------------------------------------------------
(* A put: wait for the slot, write remotely and barrier, then signal.       *)

WaitEmpty(p) ==
  LET d == dir[p] IN
  /\ op[p] = "wait_empty"
  /\ PutGuard(p, d)
  /\ empty[p][d] >= EmptyNeeded(putn[p][d])
  /\ Goto(p, "write", d)
  /\ UNCHANGED <<step, strips, sems, l3>>

\* Mutant: the strip is sent from the buffer the trip is about to overwrite.
WriteStale(p) ==
  LET d == dir[p] IN
  /\ op[p] = "write"
  /\ ghost' = [ghost EXCEPT ![PutPeer(p, d)][Landing(step[p])][d] =
                 own[p][Destination(step[p])]]
  /\ Goto(p, "signal", d)
  /\ UNCHANGED <<step, own, cols, sems, l3>>

Write(p) ==
  LET d == dir[p] IN
  /\ op[p] = "write"
  /\ ghost' = [ghost EXCEPT ![PutPeer(p, d)][Landing(step[p])][d] =
                 own[p][Source(step[p])]]
  /\ Goto(p, "signal", d)
  /\ UNCHANGED <<step, own, cols, sems, l3>>

Signal(p) ==
  LET d == dir[p] IN
  /\ op[p] = "signal"
  /\ full' = [full EXCEPT ![PutPeer(p, d)][d] = @ + 1]
  /\ putn' = [putn EXCEPT ![p][d] = @ + 1]
  /\ AfterPut(p)
  /\ UNCHANGED <<step, strips, empty, getn, l3>>

SkipPut(p) ==
  /\ op[p] = "wait_empty"
  /\ ~PutGuard(p, dir[p])
  /\ AfterPut(p)
  /\ UNCHANGED <<step, strips, sems, l3>>

-----------------------------------------------------------------------------
(* A get: release the region of the previous strip, then wait for the next. *)

\* Mutant: the first get releases a region it never took.
ReleaseAlways(p) ==
  LET d == dir[p] IN
  /\ op[p] = "release"
  /\ GetGuard(p, d)
  /\ empty' = [empty EXCEPT ![GetPeer(p, d)][d] = @ + 1]
  /\ Goto(p, "wait_full", d)
  /\ UNCHANGED <<step, strips, full, putn, getn, l3>>

Release(p) ==
  LET d == dir[p] IN
  /\ op[p] = "release"
  /\ GetGuard(p, d)
  /\ empty' = IF getn[p][d] > 0
              THEN [empty EXCEPT ![GetPeer(p, d)][d] = @ + 1]
              ELSE empty
  /\ Goto(p, "wait_full", d)
  /\ UNCHANGED <<step, strips, full, putn, getn, l3>>

\* Mutant: the wait lets the get run one strip early.
WaitFullEarly(p) ==
  LET d == dir[p] IN
  /\ op[p] = "wait_full"
  /\ full[p][d] >= getn[p][d]
  /\ getn' = [getn EXCEPT ![p][d] = @ + 1]
  /\ AfterGet(p)
  /\ UNCHANGED <<step, strips, full, empty, putn, l3>>

WaitFull(p) ==
  LET d == dir[p] IN
  /\ op[p] = "wait_full"
  /\ full[p][d] >= getn[p][d] + 1
  /\ getn' = [getn EXCEPT ![p][d] = @ + 1]
  /\ AfterGet(p)
  /\ UNCHANGED <<step, strips, full, empty, putn, l3>>

SkipGet(p) ==
  /\ op[p] = "release"
  /\ ~GetGuard(p, dir[p])
  /\ AfterGet(p)
  /\ UNCHANGED <<step, strips, sems, l3>>

-----------------------------------------------------------------------------
(* The update of one plane, and its drain to L3.                            *)

Update(p) ==
  LET s == Source(step[p]) IN
  /\ op[p] = "update"
  /\ own' = [own EXCEPT ![p][Destination(step[p])] =
               Updated(p, step[p], own[p][s], ghost[p][s], cols[p][s])]
  /\ Goto(p, "drain", "ToNorth")
  /\ UNCHANGED <<step, ghost, cols, sems, l3>>

\* Mutant: the drain stores the buffer the update read.
DrainSource(p) ==
  LET b == Source(step[p]) IN
  /\ op[p] = "drain"
  /\ l3' = [l3 EXCEPT ![p][step[p] + 1] = IF cols[p][b] = 0 THEN own[p][b] ELSE Junk]
  /\ EnterTrip(p, step[p] + 1)
  /\ UNCHANGED <<strips, sems>>

\* The strip is put back whole: owned rows with their boundary columns.
Drain(p) ==
  LET b == Destination(step[p]) IN
  /\ op[p] = "drain"
  /\ l3' = [l3 EXCEPT ![p][step[p] + 1] = IF cols[p][b] = 0 THEN own[p][b] ELSE Junk]
  /\ EnterTrip(p, step[p] + 1)
  /\ UNCHANGED <<strips, sems>>

-----------------------------------------------------------------------------
Put(p)  == WaitEmpty(p) \/ Write(p) \/ Signal(p) \/ SkipPut(p)
Get(p)  == Release(p) \/ WaitFull(p) \/ SkipGet(p)
Core(p) == Fill(p) \/ Copy(p) \/ Put(p) \/ Get(p) \/ Update(p) \/ Drain(p)

\* Every kernel has returned.
Finished == \A p \in PE : op[p] = "done"
Return   == Finished /\ UNCHANGED vars

Next == (\E p \in PE : Core(p)) \/ Return

\* Each core runs its own kernel and never stops of itself; a wait spins on
\* a counter that only grows, so once satisfied it stays so.
Fairness == \A p \in PE : WF_vars(Core(p))

Spec == Init /\ [][Next]_vars /\ Fairness

-----------------------------------------------------------------------------
(* Properties.                                                              *)

\* The variables stay in their types: no core leaves its kernel's trips.
TypeOK ==
  /\ op    \in [PE -> Op]
  /\ dir   \in [PE -> Dir]
  /\ step  \in [PE -> 0 .. T]
  /\ own   \in [PE -> [Buf -> Tag]]
  /\ ghost \in [PE -> [Buf -> [Dir -> Tag]]]
  /\ cols  \in [PE -> [Buf -> Tag]]
  /\ full  \in [PE -> [Dir -> Nat]]
  /\ empty \in [PE -> [Dir -> Nat]]
  /\ putn  \in [PE -> [Dir -> Nat]]
  /\ getn  \in [PE -> [Dir -> Nat]]
  /\ l3    \in [PE -> [0 .. T -> Tag]]

\* Every update reads its own rows and both ghost bands at exactly the plane
\* it advances: no strip is early, late, or half replaced by the next one,
\* although the neighbours write into the buffer without asking again.
FreshAtUpdate ==
  \A p \in PE : op[p] = "update" =>
    LET s == Source(step[p]) IN Fresh(p, step[p], own[p][s], ghost[p][s], cols[p][s])

\* Nothing orders a neighbour's first writes after this core's own staging of
\* the same band.  They may land before or during it, and it is harmless only
\* because no more than strip 0 can, which carries the plane being staged.
EarlyStripHarmless ==
  \A p \in PE : \A d \in Dir :
    PutGuard(p, d) /\ op[PutPeer(p, d)] \in {"fill", "copy"} =>
      /\ step[p] = 0
      /\ putn[p][d] <= 1
      /\ \A b \in Buf : ghost[PutPeer(p, d)][b][d] \in {0, Junk}

\* Neighbours are never more than one plane apart.
NeighbourSkew ==
  \A p \in PE : \A d \in Dir :
    PutGuard(p, d) => step[p] - step[PutPeer(p, d)] \in -1 .. 1

\* The semaphores at the end: `full` counted every strip, and `empty` ends
\* one short of it ("which is correct and not a leak").
FinalCounts ==
  Finished => \A p \in PE : \A d \in Dir : PutGuard(p, d) =>
    /\ full[PutPeer(p, d)][d] = T
    /\ empty[p][d] = IF T > 0 THEN T - 1 ELSE 0

\* Whether the wait core p stands on is satisfied.
CanStep(p) ==
  \/ op[p] \notin {"wait_empty", "wait_full", "done"}
  \/ op[p] = "wait_empty" /\ (PutGuard(p, dir[p]) => empty[p][dir[p]] >= EmptyNeeded(putn[p][dir[p]]))
  \/ op[p] = "wait_full" /\ full[p][dir[p]] >= getn[p][dir[p]] + 1

\* No circular wait: while a kernel has not returned, some core can step.
NoCircularWait == ~Finished => \E p \in PE : CanStep(p)

\* L3 receives plane n + 1 of a PE's rows only after plane n, and a plane
\* once written back is never written again.
DrainedInOrder ==
  [][\A p \in PE : \A n \in 1 .. T :
       l3'[p][n] # l3[p][n] => /\ l3[p][n] = Junk
                               /\ l3[p][n - 1] = n - 1
                               /\ l3'[p][n] = n]_vars

-----------------------------------------------------------------------------
(* The plan implements the Jacobi iteration.                                *)

Largest(i, j) == IF i < j THEN j ELSE i

planesDone  == [p \in PE |-> Largest(0, Largest(own[p]["cur"], own[p]["next"]))]
planesInL3  == [p \in PE |-> CHOOSE n \in -1 .. T :
                  /\ \A m \in 0 .. n : l3[p][m] = m
                  /\ n < T => l3[p][n + 1] # n + 1]

Abstract == INSTANCE Jacobi WITH planes <- planesDone, stored <- planesInL3
ImplementsJacobi == Abstract!Spec
=============================================================================
