------------------------------ MODULE Legality ------------------------------
(***************************************************************************)
(* The legality checker, spatial/m3_legality.py, on the kernels the front    *)
(* end captures and the schedules the clause builder accepts: eleven checks  *)
(* in a fixed order, one action each, on the map of iterations to time       *)
(* (sigma) and to processing elements (pi).  The first check that fails      *)
(* refuses the schedule.                                                     *)
(*                                                                         *)
(* A schedule is [grid, tiles, place, skew, sequential, stationary,          *)
(* reductions, broadcasts, windows, exchanges, doubleBuffer, target], names  *)
(* being those of module Schedule; no grid is <<>>, no skew is <<>>.         *)
(***************************************************************************)
EXTENDS Frontend

CONSTANTS
  Cases,      \* pairs of a source kernel and a schedule of it
  L1Usable    \* bytes of a core's memory that buffers may take

ASSUME L1UsableAssumption == L1Usable \in Nat

VARIABLES
  source, schedule,
  kernel,     \* the captured kernel
  at,         \* the next check
  map,        \* what the checks so far have worked out
  verdict     \* "none", "accepted", or why the schedule is refused

vars == <<source, schedule, kernel, at, map, verdict>>

-----------------------------------------------------------------------------
(* Frames: the axes after tiling, outermost first.                          *)

Outer(ax) == Append(ax, "0")
Inner(ax) == Append(ax, "1")

\* Replaces an axis by its two halves.
Halved(frame, tile) ==
  LET Split(c) == IF c.name = tile.axis
                  THEN << [name |-> Outer(c.name), root |-> c.root, half |-> "outer",
                           extent |-> c.extent \div tile.factor, weight |-> tile.factor],
                          [name |-> Inner(c.name), root |-> c.root, half |-> "inner",
                           extent |-> tile.factor, weight |-> 1] >>
                  ELSE <<c>>
  IN FlattenSeq([k \in DOMAIN frame |-> Split(frame[k])])

\* Each coordinate: the kernel axis it is of, its extent, and what one step of
\* it is worth there.
Frame(kern, sched) ==
  FoldLeft(Halved,
           [k \in DOMAIN kern.names |->
              [name |-> kern.names[k], root |-> k, half |-> "whole",
               extent |-> kern.extents[k], weight |-> 1]],
           sched.tiles)

Positions(frame, name) == {k \in DOMAIN frame : frame[k].name = name}
Position(frame, name)  == CHOOSE k \in Positions(frame, name) : TRUE
FrameNames(frame)      == {c.name : c \in Range(frame)}

\* The kernel axis of any handle, tiled or not.
RootOf(kern, name) == CHOOSE k \in DOMAIN kern.names : IsPrefix(kern.names[k], name)
RootName(kern, name) == kern.names[RootOf(kern, name)]

\* The extent of any handle, a tiled axis included.
ExtentOf(kern, frame, name) ==
  IF name \in FrameNames(frame) THEN frame[Position(frame, name)].extent
  ELSE kern.extents[RootOf(kern, name)]

\* A row over the kernel's axes, over the coordinates.
LiftRow(frame, row) == [k \in DOMAIN frame |-> row[frame[k].root] * frame[k].weight]

\* The order of the loops: what a tile repeats runs inside everything else.
LoopOrder(frame) ==
  LET order == [k \in DOMAIN frame |-> k]
  IN SelectSeq(order, LAMBDA k : frame[k].half # "inner")
     \o SelectSeq(order, LAMBDA k : frame[k].half = "inner")

\* Time: the skewed axes added up, then the axes neither skewed nor placed; the
\* loop order if there is no skew.
Sigma(frame, sched) ==
  LET n == Len(frame)
      skewed == {Position(frame, x) : x \in Range(sched.skew)}
      rest   == SelectSeq(LoopOrder(frame),
                          LAMBDA k : k \notin skewed
                                     /\ frame[k].name \notin Range(sched.place))
  IN IF sched.skew = <<>> THEN [k \in DOMAIN frame |-> Unit(n, LoopOrder(frame)[k])]
     ELSE << [k \in DOMAIN frame |-> IF k \in skewed THEN 1 ELSE 0] >>
          \o [k \in DOMAIN rest |-> Unit(n, rest[k])]

\* Space, over the coordinates and over the kernel's own axes.
Pi(frame, sched) ==
  [r \in DOMAIN sched.place |-> Unit(Len(frame), Position(frame, sched.place[r]))]
PiU(kern, sched) ==
  [r \in DOMAIN sched.place |-> Unit(Len(kern.names), RootOf(kern, sched.place[r]))]

-----------------------------------------------------------------------------
(* Steps.                                                                   *)

Unfinished == "none"

\* A check at stage `from`: refuse with its code, or go on to `next`.
Check(from, code, next, worked) ==
  /\ at = from
  /\ IF code = "ok" THEN at' = next /\ map' = worked /\ verdict' = verdict
     ELSE at' = "refused" /\ map' = map /\ verdict' = code
  /\ UNCHANGED <<source, schedule>>

\* What Python raises where no diagnostic was foreseen.
Crash == "crash"

Capture ==
  /\ Check("capture", CaptureCode(source), "build", map)
  /\ kernel' = IF CaptureCode(source) = "ok" THEN Captured(source) ELSE kernel

BuildCode(frame) ==
  LET placedRoots == {RootName(kernel, x) : x \in Range(schedule.place)}
      Both(x) == x \in Range(schedule.place) \/ RootName(kernel, x) \in Range(schedule.place)
  IN IF Len(schedule.place) # Len(schedule.grid) THEN "PLACE-EXTENT"
     ELSE IF \E r \in DOMAIN schedule.place :
               ExtentOf(kernel, frame, schedule.place[r]) # schedule.grid[r] THEN "PLACE-EXTENT"
     ELSE IF \E x \in schedule.sequential : Both(x) THEN "PLACE-SEQUENTIAL-CONFLICT"
     ELSE IF ~(Range(schedule.place) \union Range(schedule.skew) \subseteq FrameNames(frame))
       THEN Crash
     ELSE "ok"

Build ==
  /\ at = "build" /\ UNCHANGED kernel
  /\ \E frame \in {Frame(kernel, schedule)} :
       LET code == BuildCode(frame) IN
       Check("build", code, "herd",
             IF code # "ok" THEN map
             ELSE [frame |-> frame, sigma |-> Sigma(frame, schedule),
                   pi |-> Pi(frame, schedule), piU |-> PiU(kernel, schedule)])

\* The physical arrays, per target and rank of the grid.
PhysicalHerd ==
  [npu1 |-> << <<4>>, <<1, 4>> >>, npu2 |-> << <<8>>, <<2, 4>> >>]

RepeatMax == 2

Device == IF schedule.target = "auto" THEN "npu2" ELSE schedule.target

\* The largest divisor of each grid extent that the array has room for.
Physical ==
  LET caps == PhysicalHerd[Device][Len(schedule.grid)]
  IN [r \in DOMAIN schedule.grid |->
        Max({d \in 1 .. schedule.grid[r] : schedule.grid[r] % d = 0 /\ d <= caps[r]})]

Repeats(physical) == [r \in DOMAIN physical |-> schedule.grid[r] \div physical[r]]

\* Without a grid there is no array to look up.
ResolveHerd ==
  /\ UNCHANGED kernel
  /\ LET code == IF schedule.grid = <<>> THEN Crash
                 ELSE IF \E r \in Range(Repeats(Physical)) : r > RepeatMax
                   THEN "HERD-PHYSICAL" ELSE "ok"
     IN Check("herd", code, "L1",
              IF code # "ok" THEN map
              ELSE map @@ [physical |-> Physical, repeats |-> Repeats(Physical)])

\* Mutant: the bases are compared, not the spaces they span.
ConflictByBasis == Range(KernelBasis(map.sigma)) \intersect Range(KernelBasis(map.pi)) # {}

\* The directions that are neither seen by time nor by space.
Conflict == Intersect(KernelBasis(map.sigma), KernelBasis(map.pi)) # <<>>

CheckL1 ==
  /\ UNCHANGED kernel
  /\ Check("L1", IF Conflict THEN "L1-CONFLICT" ELSE "ok", "L2", map)

-----------------------------------------------------------------------------
(* Causality.                                                               *)

TiledRoots == {c.root : c \in {c \in Range(map.frame) : c.half # "whole"}}

Sign(x) == IF x > 0 THEN 1 ELSE -1

\* What a distance is over the coordinates, if it leaves the tiles of the axes
\* in `crossed`: across the next tile edge, and no further.
Representative(d, crossed) ==
  LET factor(r) == Max({c.weight : c \in {c \in Range(map.frame) : c.root = r}})
      Along(c) ==
        IF d[c.root] = 0 THEN 0
        ELSE CASE c.half = "whole" -> d[c.root]
               [] c.half = "outer" -> IF c.root \in crossed THEN Sign(d[c.root]) ELSE 0
               [] c.half = "inner" -> d[c.root] - (IF c.root \in crossed
                                                   THEN Sign(d[c.root]) * factor(c.root) ELSE 0)
  IN [k \in DOMAIN map.frame |-> Along(map.frame[k])]

\* Mutant: a distance stays inside the tiles.
LiftInside(d) == {Representative(d, {})}

Lift(d) == {Representative(d, crossed) : crossed \in SUBSET TiledRoots}

CheckL2 ==
  /\ UNCHANGED kernel
  /\ LET causal == \A dep \in kernel.deps : \A rep \in Lift(dep.d) :
                     LexPos(MatVec(map.sigma, rep))
     IN Check("L2", IF causal THEN "ok" ELSE "L2-CAUSALITY", "stationarity", map)

-----------------------------------------------------------------------------
(* Stationarity and reductions.                                             *)

\* The references of the kernel to an operand, in statement order.
Accesses(op) ==
  LET all == FlattenSeq([k \in DOMAIN kernel.statements |->
                           <<kernel.statements[k].target>> \o kernel.statements[k].reads])
  IN SelectSeq(all, LAMBDA r : r.op = op)

\* Mutant: the containment the other way round.
StaysSwapped(op) == Spans(KernelBasis(Accesses(op)[1].m), KernelBasis(map.piU))

\* The operands that stay: iterations on one cell share their placed axes.
Stays(op) == Spans(KernelBasis(map.piU), KernelBasis(Accesses(op)[1].m))

CheckStationarity ==
  /\ UNCHANGED kernel
  /\ LET unused == {p \in DOMAIN kernel.bytes : Accesses(p) = <<>>}
         bad    == unused # {} \/ \E p \in schedule.stationary : ~Stays(p)
     IN Check("stationarity", IF bad THEN "STATIONARITY" ELSE "ok", "reduction", map)

AxisUnit(name) == <<Unit(Len(kernel.names), RootOf(kernel, name))>>

\* A spatial reduction is tagged with an operator along its own direction.
Tagged(rSpace) == \E r \in Range(schedule.reductions) : Spans(rSpace, AxisUnit(r))

ReductionCode(rSpace) ==
  LET space == kernel.reduction.space
  IN IF kernel.reduction = NoReduction
     THEN IF schedule.reductions = <<>> THEN "ok" ELSE "REDUCE-NOT-ACCUMULATED"
     ELSE IF \E r \in Range(schedule.reductions) : ~Spans(space, AxisUnit(r))
       THEN "REDUCE-NOT-ACCUMULATED"
     ELSE IF rSpace # <<>> /\ ~Tagged(rSpace) THEN "RSPACE-NO-AC-OP"
     ELSE "ok"

\* The directions of a reduction that cross processing elements.
RSpace ==
  LET space == kernel.reduction.space
      rTime == Intersect(space, KernelBasis(map.piU))
  IN IF kernel.reduction = NoReduction THEN <<>> ELSE Complement(space, rTime)

CheckReduction ==
  /\ at = "reduction" /\ UNCHANGED kernel
  /\ \E rSpace \in {RSpace} :
       Check("reduction", ReductionCode(rSpace), "cascade", map @@ [rSpace |-> rSpace])

\* Mutant: the other axis of the herd is not looked at.
CascadeAnyHerd(g) ==
  LET carried == {p \in DOMAIN map.piU : Dot(map.piU[p], g) # 0}
  IN IF Cardinality(carried) # 1 THEN "CASCADE-RANK" ELSE "ok"

\* A chain along one axis of the herd, one core per link and no other axis.
CascadeCode(g) ==
  LET carried == {p \in DOMAIN map.piU : Dot(map.piU[p], g) # 0}
      carrier == CHOOSE p \in carried : TRUE
  IN IF Cardinality(carried) # 1 THEN "CASCADE-RANK"
     ELSE IF Len(schedule.grid) = 2 /\ schedule.grid[3 - carrier] # 1 THEN "CASCADE-RANK"
     ELSE IF kernel.reduction.target \in schedule.broadcasts THEN "CASCADE-BROADCAST"
     ELSE IF map.repeats[carrier] # 1 THEN "HERD-PHYSICAL"
     ELSE "ok"

CheckCascade ==
  /\ UNCHANGED kernel
  /\ LET code == IF map.rSpace = <<>> THEN "ok"
                 ELSE IF Len(map.rSpace) # 1 THEN "CASCADE-RANK"
                 ELSE CascadeCode(map.rSpace[1])
     IN Check("cascade", code, "halo", map)

-----------------------------------------------------------------------------
(* Footprints.                                                              *)

Named(c, names) == c.name \in names \/ kernel.names[c.root] \in names

\* The coordinates that keep one value while a buffer is in use.
Pinned(skewPins) ==
  LET Pins(c) == \/ c.name \in Range(schedule.place)
                 \/ c.half = "outer"
                 \/ Named(c, schedule.sequential)
                 \/ skewPins /\ Named(c, Range(schedule.skew))
  IN {k \in DOMAIN map.frame : Pins(map.frame[k])}

\* The least and the greatest subscript of a reference along dimension d while
\* the pinned coordinates are at 0.
Reach(ref, d, pinned) ==
  LET row  == LiftRow(map.frame, ref.m[d])
      Farthest(k) == IF k \in pinned THEN 0 ELSE row[k] * (map.frame[k].extent - 1)
  IN [lo |-> ref.c[d] + SumOf([k \in DOMAIN row |-> Min({0, Farthest(k)})]),
      hi |-> ref.c[d] + SumOf([k \in DOMAIN row |-> Max({0, Farthest(k)})])]

\* The reference an operand is stored through, or its first one.
StoredThrough(op) ==
  IF op \in kernel.written THEN WrittenWith(kernel.statements, op) ELSE Accesses(op)[1]

Reached(op, d, pinned) ==
  LET reach == {Reach(ref, d, pinned) : ref \in Range(Accesses(op))}
  IN [lo |-> Min({r.lo : r \in reach}), hi |-> Max({r.hi : r \in reach})]

Dims(op) == DOMAIN StoredThrough(op).m

\* Mutant: the buffer is as wide as what is stored.
SpanOfStores(op, d, pinned) ==
  LET r == Reach(StoredThrough(op), d, pinned) IN r.hi - r.lo + 1

Span(op, d, pinned) ==
  LET r == Reached(op, d, pinned) IN r.hi - r.lo + 1

\* Mutant: only what is read past the upper end counts.
OverhangAbove(op, d, pinned) ==
  Max({0, Reached(op, d, pinned).hi - Reach(StoredThrough(op), d, pinned).hi})

\* How far the reads reach past what is stored, on the worse side.
Overhang(op, d, pinned) ==
  LET stored  == Reach(StoredThrough(op), d, pinned)
      reached == Reached(op, d, pinned)
  IN Max({0, stored.lo - reached.lo, reached.hi - stored.hi})

\* The dimension of an array that a window's axis runs along.
DimOf(op, axis, q) ==
  LET first == SelectSeq(kernel.statements, LAMBDA s : s.target.op = op)[1].target
      dims  == {d \in DOMAIN first.m : first.m[d][RootOf(kernel, axis)] # 0}
  IN IF dims = {} THEN q ELSE Min(dims)

HaloCode(w) ==
  LET Foreign(q) == w.dims[q] \notin Range(kernel.names)
      Short(q) == w.halo[q] < Overhang(w.op, DimOf(w.op, w.dims[q], q), Pinned(TRUE))
      bad == {q \in DOMAIN w.dims : Foreign(q) \/ Short(q)}
  IN IF w.op \notin kernel.written THEN Crash
     ELSE IF bad = {} THEN "ok"
     ELSE IF Foreign(Min(bad)) THEN Crash ELSE "HALO-TOO-SMALL"

CheckHalo ==
  /\ UNCHANGED kernel
  /\ LET codes == {HaloCode(w) : w \in schedule.windows} \ {"ok"}
     IN Check("halo", IF codes = {} THEN "ok" ELSE CHOOSE c \in codes : TRUE,
              "double buffer", map)

\* An operand that is exchanged keeps a pair of planes; another is read in tiles,
\* each fetched while the one before is in use.
InPairs(op) == op \in schedule.exchanges \/ \E w \in schedule.windows : w.op = op

InTiles(op) ==
  /\ op \notin kernel.written
  /\ \E k \in DOMAIN map.frame : /\ map.frame[k].half = "outer"
                                 /\ \E row \in Range(Accesses(op)[1].m) :
                                      LiftRow(map.frame, row)[k] # 0

CheckDoubleBuffer ==
  /\ UNCHANGED kernel
  /\ LET bad == \E op \in Range(schedule.doubleBuffer) : ~InPairs(op) /\ ~InTiles(op)
     IN Check("double buffer", IF bad THEN "PINGPONG-SHAPE" ELSE "ok", "capacity", map)

\* Every buffer exists twice if the herd's body is repeated, or if it is filled
\* while it is read; never four times.
Copies(op) ==
  IF \/ \E r \in Range(map.repeats) : r > 1
     \/ op \in Range(schedule.doubleBuffer) /\ ~InPairs(op)
  THEN 2 ELSE 1

\* A skew pins what is handed on step by step, not what is only read.
Charge(op) ==
  LET pinned == Pinned(op \in kernel.written)
      spans  == [d \in Dims(op) |-> Span(op, d, pinned)]
  IN kernel.bytes[op] * Copies(op) * FoldLeft(LAMBDA x, y : x * y, 1, spans)

L1Bytes == FoldSet(LAMBDA op, sum : sum + Charge(op), 0, DOMAIN kernel.bytes)

CheckCapacity ==
  /\ UNCHANGED kernel
  /\ Check("capacity", IF L1Bytes > L1Usable THEN "L1-CAPACITY" ELSE "ok", "parity", map)

\* Two planes that take turns need a loop that turns at least once.
CheckSwapParity ==
  /\ UNCHANGED kernel
  /\ LET turns(c) == \/ Named(c, schedule.sequential)
                     \/ /\ kernel.names[c.root] \in Range(schedule.skew)
                        /\ c.name \notin Range(schedule.place)
         swaps == \E op \in DOMAIN kernel.bytes : \E d \in Dims(op) :
                    Span(op, d, Pinned(TRUE)) >= 2
         bad == swaps /\ \E c \in Range(map.frame) : turns(c) /\ c.extent < 1
     IN Check("parity", IF bad THEN "SWAP-PARITY" ELSE "ok", "accept", map)

Accept ==
  /\ at = "accept"
  /\ at' = "accepted" /\ verdict' = "accepted"
  /\ UNCHANGED <<source, schedule, kernel, map>>

Init ==
  /\ \E case \in Cases : source = case[1] /\ schedule = case[2]
  /\ kernel = <<>>
  /\ at = "capture"
  /\ map = <<>>
  /\ verdict = Unfinished

Next ==
  \/ Capture \/ Build \/ ResolveHerd \/ CheckL1 \/ CheckL2 \/ CheckStationarity
  \/ CheckReduction \/ CheckCascade \/ CheckHalo \/ CheckDoubleBuffer
  \/ CheckCapacity \/ CheckSwapParity \/ Accept

Spec == Init /\ [][Next]_vars

-----------------------------------------------------------------------------
(* What acceptance promises, iteration by iteration.                        *)

Accepted == at = "accepted"

Box == Iterations(source)

\* Where an iteration is among the coordinates, when and on which element.
Coordinates(p) ==
  LET Step(c) == (p[c.root] - source.axes[c.root].lo) \div source.axes[c.root].step
      Along(c) == CASE c.half = "whole" -> Step(c)
                    [] c.half = "outer" -> Step(c) \div c.weight
                    [] c.half = "inner" -> Step(c) % c.extent
  IN [k \in DOMAIN map.frame |-> Along(map.frame[k])]

\* The function itself, its values worked out once.
Table(f) == f @@ <<>>

Time(p)    == MatVec(map.sigma, Coordinates(p))
Element(p) == MatVec(map.pi, Coordinates(p))

\* Two iterations never meet on one element at one time.
NothingShared ==
  Accepted =>
    \A place \in {[p \in Box |-> <<Time(p), Element(p)>>]} :
      Cardinality(Range(place)) = Cardinality(Box)

\* Every value is computed before it is used, whichever element computes it:
\* the time order keeps every store before the loads of what it stored.
AcceptedIsCausal ==
  Accepted =>
    \A time \in {Table([p \in Box |-> Table(Time(p))])} :
      \A flow \in Flow(source) : LexLess(time[flow[1]], time[flow[2]])

\* What is declared stationary never moves: the iterations that touch one cell
\* through one reference are all on one element.
StationaryStays ==
  Accepted =>
    \A element \in {Table([p \in Box |-> Table(Element(p))])} :
      \A op \in schedule.stationary :
        \A p, q \in Box :
          Cell(Accesses(op)[1], p) = Cell(Accesses(op)[1], q) => element[p] = element[q]

\* The elements that add to one cell of a reduction's target are one element,
\* or the whole of a line of cores, each core one link of the chain, tagged with
\* an operator that may be applied in any order.
PartialSumsOnOneLine ==
  Accepted /\ kernel.reduction # NoReduction =>
    LET target  == (CHOOSE s \in Range(kernel.statements) : s.kind = "accumulate").target
        Adding(p) == {Element(q) : q \in {q \in Box : Cell(target, q) = Cell(target, p)}}
        Line(es, r) == /\ \A other \in DOMAIN schedule.grid \ {r} : schedule.grid[other] = 1
                       /\ Cardinality(es) = schedule.grid[r]
                       /\ map.physical[r] = schedule.grid[r]
    IN \A p \in Box : \A es \in {Adding(p)} :
         \/ Cardinality(es) = 1
         \/ \E r \in DOMAIN schedule.grid : Line(es, r) /\ schedule.reductions # <<>>

\* The iterations an element runs with p while its buffers stay put; `where`
\* tells where each iteration is.
WhileBuffered(p, where, pinned) ==
  {q \in DOMAIN where : \A k \in pinned : where[q][k] = where[p][k]}

\* A window holds all its element reads: along the window's axes, no read is
\* further from what the element stores than the declared halo.
WindowCoversReads ==
  Accepted /\ schedule.windows # {} =>
    \A where \in {Table([p \in Box |-> Table(Coordinates(p))])}, pinned \in {Pinned(TRUE)} :
      \A w \in schedule.windows : \A p \in Box :
        \A step \in {WhileBuffered(p, where, pinned)} : \A i \in DOMAIN w.dims :
          LET d == DimOf(w.op, w.dims[i], i)
              At(refs) == {Cell(t[1], t[2])[d] : t \in refs \X step}
              stored == At({StoredThrough(w.op)})
          IN \A x \in At(Range(Accesses(w.op))) :
               Min(stored) - w.halo[i] <= x /\ x <= Max(stored) + w.halo[i]

\* The buffers of an element fit in its memory: the cells its iterations touch
\* between two deliveries, with the second copies the lowering makes.
WorkingSetFits ==
  Accepted =>
    LET Twice == \E r \in DOMAIN map.physical : map.physical[r] < schedule.grid[r]
        Fetched(op) == op \in Range(schedule.doubleBuffer) \ kernel.written /\ ~InPairs(op)
        Bytes(op, touched) == kernel.bytes[op] * Cardinality(touched)
                              * (IF Twice \/ Fetched(op) THEN 2 ELSE 1)
        Touched(op, step) == {Cell(t[1], t[2]) : t \in Range(Accesses(op)) \X step}
    IN \A where \in {Table([p \in Box |-> Table(Coordinates(p))])} :
         \A pinned \in {[op \in DOMAIN kernel.bytes |-> Pinned(op \in kernel.written)]} :
           \A step \in {[op \in DOMAIN kernel.bytes |-> WhileBuffered(p, where, pinned[op])]
                         : p \in Box} :
             FoldSet(LAMBDA op, sum : sum + Bytes(op, Touched(op, step[op])),
                     0, DOMAIN kernel.bytes) <= L1Usable
=============================================================================
