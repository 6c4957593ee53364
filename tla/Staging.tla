------------------------------ MODULE Staging -------------------------------
(***************************************************************************)
(* What spatial/m4_mapping.py makes of an accepted mapping when no clause     *)
(* says how its operands are delivered: a tile of every operand in each       *)
(* element's memory, filled from L3 and drained to it, with a cascade if the  *)
(* reduction crosses elements; or a refusal.  A plan is run as the project's  *)
(* interpreter of plans runs it (tests/helpers/plan_interp.py), on cells       *)
(* instead of numbers: a value is which cells were read into it, how often.   *)
(* How long the arrays in L3 are is left out: past its end an array has cells  *)
(* no kernel names.                                                         *)
(***************************************************************************)
EXTENDS Legality

VARIABLES
  plan,       \* its code is "none", "planned", or why there is no plan
  drained     \* what the written operand holds after the run, cell by cell

stagingVars == <<source, schedule, kernel, at, map, verdict, plan, drained>>

-----------------------------------------------------------------------------
(* Tiles and their movement.  An operand is one matrix: that of its first     *)
(* access, which every other must share.                                      *)

PlaceRoot(r)    == RootOf(kernel, schedule.place[r])
Matrix(op)      == Accesses(op)[1].m
OneMap(op)      == \A ref \in Range(Accesses(op)) : ref.m = Matrix(op)
Moves(op, root) == \E row \in Range(Matrix(op)) : row[root] # 0
Operands        == DOMAIN kernel.bytes
TheStatement    == kernel.statements[1]
Low(root)       == source.axes[root].lo

InnerHalf(root)  == {c \in Range(map.frame) : c.root = root /\ c.half = "inner"}
Tiled(root)      == InnerHalf(root) # {}
TileFactor(root) == IF Tiled(root) THEN (CHOOSE c \in InnerHalf(root) : TRUE).extent ELSE 1
TileExtent(root) == IF Tiled(root) THEN TileFactor(root) ELSE kernel.extents[root]

Support(row) == {k \in DOMAIN row : row[k] # 0}

\* Each dimension of the array runs along at most one axis, step by step.
Rectangular(op) ==
  \A row \in Range(Matrix(op)) :
    Cardinality(Support(row)) <= 1 /\ \A k \in DOMAIN row : Magnitude(row[k]) <= 1

TileShape(op) ==
  [d \in DOMAIN Matrix(op) |->
     LET axes == Support(Matrix(op)[d])
     IN IF axes = {} THEN 1 ELSE TileExtent(CHOOSE k \in axes : TRUE)]

\* The coordinates that are rows of time on their own, outermost first.
SigmaAxes ==
  LET single == SelectSeq(map.sigma, LAMBDA row : \E k \in DOMAIN row : row = Unit(Len(row), k))
  IN [r \in DOMAIN single |-> CHOOSE k \in DOMAIN single[r] : single[r][k] = 1]

\* The tiles that take turns on one element, and those that move an operand's.
TemporalAxes ==
  SelectSeq(SigmaAxes, LAMBDA k : /\ map.frame[k].half = "outer" /\ map.frame[k].extent # 1
                                  /\ map.frame[k].name \notin Range(schedule.place))
MovedAxes(op) == SelectSeq(TemporalAxes, LAMBDA k : Moves(op, map.frame[k].root))

\* The coordinate an operand is fetched again per, 0 if it stays resident.
NoAxis == 0
StreamingAxis(op) == IF MovedAxes(op) = <<>> THEN NoAxis ELSE MovedAxes(op)[1]

\* What is written is allocated once, whatever moves it.
Streamed == {op \in Operands \ kernel.written : StreamingAxis(op) # NoAxis}
BodyAxis == IF Streamed = {} THEN NoAxis ELSE StreamingAxis(CHOOSE op \in Streamed : TRUE)

-----------------------------------------------------------------------------
(* Delivery.                                                                *)

ConstantAlong(op) == {r \in DOMAIN schedule.place : ~Moves(op, PlaceRoot(r))}

Delivery(op) ==
  IF op = kernel.reduction.target /\ map.rSpace # <<>> THEN "CASCADE"
  ELSE IF ConstantAlong(op) # {} THEN "MULTICAST"
  ELSE IF Stays(op) THEN "STATIONARY"
  ELSE "FORWARD"

Chained == map.rSpace # <<>>
ChainAxis ==
  Min({r \in DOMAIN schedule.place : map.rSpace[1][PlaceRoot(r)] # 0})

\* How often a loop over the tiles of a coordinate turns, in kernel units.
TripValues(k) ==
  IF k = NoAxis THEN {0}
  ELSE LET root == map.frame[k].root
       IN {Low(root) + n * TileFactor(root) : n \in 0 .. map.frame[k].extent - 1}

\* What the tiles take up, as the mapping counts it.
StagedBytes ==
  LET Doubled(op) == \/ \E r \in Range(map.repeats) : r > 1
                     \/ op \in Range(schedule.doubleBuffer) /\ op \in Streamed
      Bytes(op) == kernel.bytes[op] * FoldLeft(LAMBDA x, y : x * y, 1, TileShape(op))
                   * (IF Doubled(op) THEN 2 ELSE 1)
  IN FoldSet(LAMBDA op, sum : sum + Bytes(op), 0, Operands)

\* A chain receives into a buffer of its own, as large as the accumulator.
ReceiveBytes ==
  IF ~Chained THEN 0
  ELSE LET target == kernel.reduction.target
       IN kernel.bytes[target] * FoldLeft(LAMBDA x, y : x * y, 1, TileShape(target))
          * (IF \E r \in Range(map.repeats) : r > 1 THEN 2 ELSE 1)

\* Why there is no plan: "later" and "limit" are declared limits, "forward" is
\* for another protocol, "unbalanced" is the self-check's; "defect" is a
\* disagreement the compiler reports as its own.
PlanCode ==
  LET target == TheStatement.target.op
      accumulates == kernel.reduction # NoReduction
      OneAxisPerDim == \A row \in Range(Matrix(target)) : Support(row) # {}
  IN IF \E op \in Operands : ~OneMap(op) THEN "later"
     ELSE IF \E op \in Operands : Delivery(op) = "FORWARD" THEN "forward"
     ELSE IF Len(kernel.statements) # 1 \/ \E op \in Operands : ~Rectangular(op) THEN "later"
     ELSE IF Chained /\ schedule.grid[ChainAxis] < 2 THEN "later"
     ELSE IF Delivery(target) = "MULTICAST" THEN "later"
     ELSE IF \E op \in Streamed : StreamingAxis(op) # BodyAxis
       THEN IF Chained THEN "later" ELSE "limit"
     ELSE IF accumulates /\ ~OneAxisPerDim THEN "later"
     ELSE IF ~Chained /\ Streamed = {} THEN "defect"
     ELSE IF StagedBytes # L1Bytes \/ StagedBytes + ReceiveBytes > L1Usable THEN "defect"
     ELSE IF Chained /\ Cardinality(TripValues(StreamingAxis(target)))
                        # Cardinality(TripValues(BodyAxis)) THEN "unbalanced"
     ELSE "planned"

NoPlan == [code |-> "none"]

\* Of a plan: each operand's first access, tile, streaming coordinate and the
\* directions it is multicast along, and the coordinate of the body's loop.
Plan ==
  [code   |-> "planned",
   first  |-> [op \in Operands |-> Accesses(op)[1]],
   shape  |-> [op \in Operands |-> TileShape(op)],
   stream |-> [op \in Operands |-> StreamingAxis(op)],
   along  |-> [op \in Operands |-> IF Delivery(op) = "MULTICAST" THEN ConstantAlong(op) ELSE {}],
   body   |-> BodyAxis]

-----------------------------------------------------------------------------
(* Running a plan: it is run to its end, or raises (`at` = "raised").          *)

Elements == {p \in [DOMAIN schedule.grid -> 0 .. Max(Range(schedule.grid)) - 1] :
               \A r \in DOMAIN p : p[r] < schedule.grid[r]}

\* Where the tiles of element p start, on trip t of the loop over coordinate k.
OriginPoint(p, k, t) ==
  LET carriers(root) == {r \in DOMAIN schedule.place : PlaceRoot(r) = root}
      Share(root) == IF carriers(root) = {} THEN 0 ELSE p[Max(carriers(root))] * TileFactor(root)
  IN [root \in DOMAIN kernel.names |->
        IF k # NoAxis /\ map.frame[k].root = root THEN t ELSE Low(root) + Share(root)]

\* The region of an operand is that of its first access.
RegionOrigin(op, point) == Cell(plan.first[op], point)

InTile(op, slot) == \A d \in DOMAIN slot : slot[d] \in 0 .. plan.shape[op][d] - 1

\* The one index a multicast is put on serves a whole line of elements.
SentFrom(op, p) == IF plan.along[op] = {} THEN p ELSE [p EXCEPT ![Min(plan.along[op])] = 0]

\* The loops of an element's body: over a tile, or over all of an untiled axis.
NestValues(k) == IF Tiled(k) THEN 0 .. TileFactor(k) - 1
                 ELSE Low(k) .. Low(k) + kernel.extents[k] - 1

\* The loops that zero an accumulator start at 0.
ZeroValues(k) == 0 .. TileExtent(k) - 1

Points(Values(_)) ==
  {v \in [DOMAIN kernel.names -> UNION {Values(k) : k \in DOMAIN kernel.names}] :
     \A k \in DOMAIN v : v[k] \in Values(k)}

\* One turn of a nest: element, trip and loop variables, with the iteration it
\* stands for and where in memory the element's tiles start.
Turns(points) ==
  UNION {UNION {LET origin == OriginPoint(p, plan.body, t) IN
    {[p |-> p, t |-> t, v |-> v, origin |-> origin,
      iteration |-> [k \in DOMAIN v |-> IF Tiled(k) THEN origin[k] + v[k] ELSE v[k]]]
     : v \in points} : t \in TripValues(plan.body)} : p \in Elements}

Subscripts(ref, w) ==
  Added(Cell(ref, w.iteration), Scaled(-1, RegionOrigin(ref.op, w.origin)))

\* A buffer of n has the subscripts -n to n - 1: those below 0 count from its end.
InBuffer(ref, w) ==
  LET n == plan.shape[ref.op]
  IN \A d \in DOMAIN n : Subscripts(ref, w)[d] \in -n[d] .. n[d] - 1

Slot(ref, w) ==
  LET n == plan.shape[ref.op] IN [d \in DOMAIN n |-> Subscripts(ref, w)[d] % n[d]]

IsAccumulation == TheStatement.kind = "accumulate"

\* Every load and every store is of a subscript its buffer has.
NoIndexError ==
  /\ \A w \in Turns(Points(NestValues)) :
       \A ref \in {TheStatement.target} \union Range(TheStatement.reads) : InBuffer(ref, w)
  /\ IsAccumulation =>
       \A w \in Turns(Points(ZeroValues)) : InBuffer(TheStatement.target, w)

\* Memory nothing was stored to.
Junk == <<>>

\* The cell a load finds in its tile: what the fill put there on this trip.
Loaded(ref, w) ==
  LET filled == OriginPoint(SentFrom(ref.op, w.p), plan.stream[ref.op], w.t)
  IN IF ref.op \in kernel.written THEN Junk
     ELSE Added(RegionOrigin(ref.op, filled), Slot(ref, w))

\* How often each tuple of cells was read into a value; only the last store of a
\* plain assignment counts.
Tally(items, Key(_), Reads(_), accumulates) ==
  LET latest == {w \in items : \A u \in items \ {w} : LexLess(Key(u), Key(w))}
      stores == IF accumulates THEN items ELSE latest
      read   == [w \in stores |-> Reads(w)]
  IN [r \in Range(read) |-> Cardinality({w \in stores : read[w] = r})]

\* A drain [p, t] hands a tile to L3: once per element, or once per trip at the
\* end of the chain.
Drains ==
  IF ~Chained THEN [p : Elements, t : {0}]
  ELSE [p : {[r \in DOMAIN schedule.grid |-> 0]},
        t : TripValues(plan.stream[TheStatement.target.op])]

\* Mutant: the chain's drain does not follow the tiles.
DrainOriginFixed(e) ==
  RegionOrigin(TheStatement.target.op, OriginPoint(e.p, NoAxis, e.t))

DrainOrigin(e) ==
  LET op == TheStatement.target.op
  IN RegionOrigin(op, OriginPoint(e.p, IF Chained THEN plan.stream[op] ELSE NoAxis, e.t))

\* The turns whose stores are in a tile when it is drained: the chain adds up
\* what its elements stored on one trip.
InDrain(w, e) == IF Chained THEN w.t = e.t ELSE w.p = e.p

\* L3 after the last drain: where tiles overlap, the later one stays.
Drained ==
  LET target == TheStatement.target
      turns  == Turns(Points(NestValues))
      slots  == [w \in turns |-> Slot(target, w)]
      reads  == [w \in turns |->
                   [i \in DOMAIN TheStatement.reads |-> Loaded(TheStatement.reads[i], w)]]
      zeroed == {Slot(target, w) : w \in Turns(Points(ZeroValues))}
      origin == [e \in Drains |-> DrainOrigin(e)]
      Key(w)   == <<w.t>> \o w.v
      Reads(w) == reads[w]
      Place(cell, e) == Added(cell, Scaled(-1, origin[e]))
      Covering(cell) == {e \in Drains : InTile(target.op, Place(cell, e))}
      Final(cell) == CHOOSE e \in Covering(cell) : \A f \in Covering(cell) \ {e} :
                       LexLess(f.p, e.p) \/ (f.p = e.p /\ f.t < e.t)
      Content(e, slot) ==
        IF IsAccumulation /\ slot \notin zeroed THEN Junk
        ELSE Tally({w \in turns : slots[w] = slot /\ InDrain(w, e)}, Key, Reads, IsAccumulation)
  IN [cell \in {Cell(target, p) : p \in Box} |->
        IF Covering(cell) = {} THEN Junk ELSE Content(Final(cell), Place(cell, Final(cell)))]

-----------------------------------------------------------------------------
Legal == Next /\ UNCHANGED <<plan, drained>>

\* No protocol of its own is asked for.
Undirected == schedule.exchanges = {} /\ schedule.broadcasts = {} /\ schedule.windows = {}

MakePlan ==
  /\ at = "accepted" /\ Undirected
  /\ at' = IF PlanCode = "planned" THEN "planned" ELSE "declined"
  /\ plan' = IF PlanCode = "planned" THEN Plan ELSE [code |-> PlanCode]
  /\ UNCHANGED <<source, schedule, kernel, map, verdict, drained>>

RunPlan ==
  /\ at = "planned"
  /\ IF NoIndexError
     THEN at' = "run" /\ drained' = Drained
     ELSE at' = "raised" /\ UNCHANGED drained
  /\ UNCHANGED <<source, schedule, kernel, map, verdict, plan>>

StagingInit == Init /\ plan = NoPlan /\ drained = <<>>
StagingNext == Legal \/ MakePlan \/ RunPlan
StagingSpec == StagingInit /\ [][StagingNext]_stagingVars

-----------------------------------------------------------------------------
\* What Python leaves in the written operand, starting from zeros.
Wanted ==
  LET s == source.body[1]
      loads == IF s.form = "call" /\ AddsTo(s) THEN Tail(s.loads) ELSE s.loads
      Reads(p) == [i \in DOMAIN loads |-> Cell(loads[i], p)]
      Key(p)   == p
  IN [cell \in {Cell(s.target, p) : p \in Box} |->
        Tally({p \in Box : Cell(s.target, p) = cell}, Key, Reads, AddsTo(s))]

\* The mappings that are planned right: no tile's inner handle is placed, an
\* untiled axis of the target starts at 0, one loop at most moves an operand's
\* tile, and the target's only on a chain, and every subscript grows with its axis.
Foreseen ==
  /\ \A x \in Range(schedule.place) : map.frame[Position(map.frame, x)].half # "inner"
  /\ \A k \in DOMAIN kernel.names : Moves(TheStatement.target.op, k) => Tiled(k) \/ Low(k) = 0
  /\ \A op \in Operands : Len(MovedAxes(op)) <= IF op \in kernel.written /\ ~Chained THEN 0 ELSE 1
  /\ \A op \in Operands : \A row \in Range(Matrix(op)) : \A k \in DOMAIN row : row[k] >= 0

\* Tiles, multicasts, the order of fills, the chain and the drains together leave
\* in L3 what the kernel computes, and no load or store misses its buffer: every
\* cell that is read is the one the kernel names, as often as it names it, whoever
\* reads it on whichever trip.
ComputesKernel ==
  at \in {"run", "raised"} /\ Foreseen => at = "run" /\ drained = Wanted

\* The promise to a user, unrestricted: what is accepted is run in the order of
\* its data flow, and its plan, if there is one, computes the kernel and is
\* never a defect of the compiler's own.
ServedAsWritten ==
  /\ AcceptedIsCausal
  /\ plan.code # "defect" /\ at # "raised"
  /\ at = "run" => drained = Wanted
=============================================================================
