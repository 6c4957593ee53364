------------------------------- MODULE WaveTT -------------------------------
(***************************************************************************)
(* The wavefront plan as spatial/m5tt_emit.py emits it: one kernel per core, *)
(* WestIn, EastOut and the row drains as DRAM transfers of the core itself,  *)
(* and each link of West a remote write into the east core's edge_in, in the *)
(* same place every row, so that one strip may be in flight.                *)
(***************************************************************************)
EXTENDS WavePlan

VARIABLES
  op,       \* op[p]: what core p does next
  step,     \* step[p]: trip of the row loop
  ghost,    \* ghost[p][b]: row of the ghost cell of buffer b
  band,     \* band[p][b]: row of the own columns of buffer b
  edgeIn,   \* edgeIn[p]: row of the scalar that arrives from the west
  edgeOut,  \* edgeOut[p]: row of the scalar that leaves to the east
  full,     \* full[p]: semaphore on consumer p
  empty,    \* empty[p]: semaphore on producer p
  putn,     \* putn[p]: the kernel's counter West_put_n
  getn,     \* getn[p]: the kernel's counter West_get_n
  l3,       \* l3[p][r]: row held by p's columns of row r in DRAM
  east      \* east[r]: row held by the last column of row r

data == <<ghost, band, edgeIn, edgeOut>>
sems == <<full, empty, putn, getn>>
vars == <<op, step, data, sems, l3, east>>

Op == {"stage", "west_in", "release", "wait_full", "copy_edge", "score",
       "wait_empty", "write", "signal", "east_out", "drain", "done"}

-----------------------------------------------------------------------------
\* Two payloads of a link that are one get apart land in the same edge_in.
AliasGaps == IF T > 1 THEN 1 .. T - 1 ELSE {}

\* Mutant: the credit of the halo, two strips in flight.
TwoCredits == 2

Credit == IF AliasGaps = {}
          THEN 1
          ELSE CHOOSE g \in AliasGaps : \A h \in AliasGaps : g <= h

EmptyNeeded(n) == IF n < Credit - 1 THEN 0 ELSE n - (Credit - 1)

Init ==
  /\ op      = [p \in PE |-> "stage"]
  /\ step    = [p \in PE |-> 0]
  /\ ghost   = [p \in PE |-> [b \in Buf |-> Junk]]
  /\ band    = [p \in PE |-> [b \in Buf |-> Junk]]
  /\ edgeIn  = [p \in PE |-> Junk]
  /\ edgeOut = [p \in PE |-> Junk]
  /\ full    = [p \in PE |-> 0]
  /\ empty   = [p \in PE |-> 0]
  /\ putn    = [p \in PE |-> 0]
  /\ getn    = [p \in PE |-> 0]
  /\ l3      = [p \in PE |-> [r \in 0 .. T |-> IF r = 0 THEN 0 ELSE Junk]]
  /\ east    = [r \in 0 .. T |-> IF r = 0 THEN 0 ELSE Junk]

Goto(p, o) == op' = [op EXCEPT ![p] = o]

\* Entry of trip n of the row loop, or its exit.
EnterTrip(p, n) ==
  /\ step' = [step EXCEPT ![p] = n]
  /\ Goto(p, IF n = T THEN "done" ELSE IF p = 0 THEN "west_in" ELSE "release")

\* Mutant: the row before the first is not set.
StageNothing(p) ==
  /\ op[p] = "stage"
  /\ EnterTrip(p, 0)
  /\ UNCHANGED <<data, sems, l3, east>>

\* The read operands are staged and the row before the first is zeroed, the
\* value the operand has there.
Stage(p) ==
  /\ op[p] = "stage"
  /\ ghost' = [ghost EXCEPT ![p]["prev"] = 0]
  /\ band'  = [band EXCEPT ![p]["prev"] = 0]
  /\ EnterTrip(p, 0)
  /\ UNCHANGED <<edgeIn, edgeOut, sems, l3, east>>

-----------------------------------------------------------------------------
(* One row.                                                                 *)

\* The west edge of the first PE is the boundary column in DRAM.
WestIn(p) ==
  /\ op[p] = "west_in"
  /\ edgeIn' = [edgeIn EXCEPT ![p] = step[p] + 1]
  /\ Goto(p, "copy_edge")
  /\ UNCHANGED <<step, ghost, band, edgeOut, sems, l3, east>>

Release(p) ==
  /\ op[p] = "release"
  /\ empty' = IF getn[p] > 0 THEN [empty EXCEPT ![p - 1] = @ + 1] ELSE empty
  /\ Goto(p, "wait_full")
  /\ UNCHANGED <<step, data, full, putn, getn, l3, east>>

\* Mutant: the wait lets the get run one strip early.
WaitFullEarly(p) ==
  /\ op[p] = "wait_full"
  /\ full[p] >= getn[p]
  /\ getn' = [getn EXCEPT ![p] = @ + 1]
  /\ Goto(p, "copy_edge")
  /\ UNCHANGED <<step, data, full, empty, putn, l3, east>>

WaitFull(p) ==
  /\ op[p] = "wait_full"
  /\ full[p] >= getn[p] + 1
  /\ getn' = [getn EXCEPT ![p] = @ + 1]
  /\ Goto(p, "copy_edge")
  /\ UNCHANGED <<step, data, full, empty, putn, l3, east>>

CopyEdge(p) ==
  /\ op[p] = "copy_edge"
  /\ ghost' = [ghost EXCEPT ![p][Current(step[p])] = edgeIn[p]]
  /\ Goto(p, "score")
  /\ UNCHANGED <<step, band, edgeIn, edgeOut, sems, l3, east>>

\* The columns of the row, then its last cell to edge_out.
Score(p) ==
  LET n == step[p]
      row == Scored(n, band[p][Previous(n)], ghost[p][Previous(n)], ghost[p][Current(n)])
  IN
  /\ op[p] = "score"
  /\ band'    = [band EXCEPT ![p][Current(n)] = row]
  /\ edgeOut' = [edgeOut EXCEPT ![p] = row]
  /\ Goto(p, IF p = Last THEN "east_out" ELSE "wait_empty")
  /\ UNCHANGED <<step, ghost, edgeIn, sems, l3, east>>

WaitEmpty(p) ==
  /\ op[p] = "wait_empty"
  /\ empty[p] >= EmptyNeeded(putn[p])
  /\ Goto(p, "write")
  /\ UNCHANGED <<step, data, sems, l3, east>>

Write(p) ==
  /\ op[p] = "write"
  /\ edgeIn' = [edgeIn EXCEPT ![p + 1] = edgeOut[p]]
  /\ Goto(p, "signal")
  /\ UNCHANGED <<step, ghost, band, edgeOut, sems, l3, east>>

Signal(p) ==
  /\ op[p] = "signal"
  /\ full' = [full EXCEPT ![p + 1] = @ + 1]
  /\ putn' = [putn EXCEPT ![p] = @ + 1]
  /\ Goto(p, "drain")
  /\ UNCHANGED <<step, data, empty, getn, l3, east>>

\* The east edge of the last PE is the last column, in DRAM.
EastOut(p) ==
  /\ op[p] = "east_out"
  /\ east' = [east EXCEPT ![step[p] + 1] = edgeOut[p]]
  /\ Goto(p, "drain")
  /\ UNCHANGED <<step, data, sems, l3>>

\* The own columns of the row; those of the last PE hold the last column too.
Drain(p) ==
  LET row == band[p][Current(step[p])] IN
  /\ op[p] = "drain"
  /\ l3'   = [l3 EXCEPT ![p][step[p] + 1] = row]
  /\ east' = IF p = Last THEN [east EXCEPT ![step[p] + 1] = row] ELSE east
  /\ EnterTrip(p, step[p] + 1)
  /\ UNCHANGED <<data, sems>>

-----------------------------------------------------------------------------
Get(p)  == WestIn(p) \/ Release(p) \/ WaitFull(p)
Put(p)  == WaitEmpty(p) \/ Write(p) \/ Signal(p) \/ EastOut(p)
Core(p) == Stage(p) \/ Get(p) \/ CopyEdge(p) \/ Score(p) \/ Put(p) \/ Drain(p)

Finished == \A p \in PE : op[p] = "done"
Return   == Finished /\ UNCHANGED vars

Next == (\E p \in PE : Core(p)) \/ Return

\* Each core runs its own kernel; a satisfied wait stays satisfied.
Fairness == \A p \in PE : WF_vars(Core(p))

Spec == Init /\ [][Next]_vars /\ Fairness

-----------------------------------------------------------------------------
(* Properties.                                                              *)

\* The variables stay in their types.
TypeOK ==
  /\ op      \in [PE -> Op]
  /\ step    \in [PE -> 0 .. T]
  /\ ghost   \in [PE -> [Buf -> Row]]
  /\ band    \in [PE -> [Buf -> Row]]
  /\ edgeIn  \in [PE -> Row]
  /\ edgeOut \in [PE -> Row]
  /\ full    \in [PE -> Nat]
  /\ empty   \in [PE -> Nat]
  /\ putn    \in [PE -> Nat]
  /\ getn    \in [PE -> Nat]
  /\ l3      \in [PE -> [0 .. T -> Row]]
  /\ east    \in [0 .. T -> Row]

\* A row is scored from the row before it, in the own columns and in the ghost
\* cell, and from the west neighbour's cell of the same row: the one landing
\* place of a link is never overwritten before it is copied.
ReadyAtScore ==
  \A p \in PE : op[p] = "score" =>
    LET n == step[p] IN
    Ready(n, band[p][Previous(n)], ghost[p][Previous(n)], ghost[p][Current(n)])

\* The skew is emergent: no core is more than one row ahead of its neighbour,
\* in either direction, and a core ahead of the one to its west has not yet
\* got past the get of that row.
Skew ==
  \A p \in PE : p > 0 =>
    /\ step[p - 1] - step[p] \in -1 .. 1
    /\ step[p] > step[p - 1] => op[p] \in {"release", "wait_full", "done"}

\* The plan implements the wavefront order of the kernel, every row to L3.
Largest(i, j) == IF i < j THEN j ELSE i
rowsDone  == [p \in PE |-> Largest(0, Largest(band[p]["prev"], band[p]["cur"]))]
rowsInL3  == [p \in PE |-> CHOOSE n \in -1 .. T :
                /\ \A m \in 0 .. n : l3[p][m] = m
                /\ n < T => l3[p][n + 1] # n + 1]
Abstract  == INSTANCE Wavefront WITH rows <- rowsDone, stored <- rowsInL3
ImplementsWavefront == Abstract!Spec
=============================================================================
