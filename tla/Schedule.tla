------------------------------ MODULE Schedule ------------------------------
(***************************************************************************)
(* The clause builder of spatial/m2_schedule.py: a Schedule is an axis      *)
(* table that `tile` extends and an append-only list of clause records.     *)
(* Each clause validates its arguments against the kernel and against what  *)
(* has been recorded so far, then records itself or raises a ClauseError;   *)
(* the ScheduleModel is a projection of the list.  A user may call clauses  *)
(* in any order and go on after an error.                                   *)
(*                                                                         *)
(* An axis name is the sequence of its parts: ax.i1 is <<"i">> and ax.i10,  *)
(* the outer half of its inner half, is <<"i", "1", "0">>.                  *)
(***************************************************************************)
EXTENDS Integers, Sequences, FiniteSets

CONSTANTS
  KernelAxes,  \* axis names of the kernel's loop nest, outermost first
  Extent,      \* Extent[a]: constant extent of a kernel axis, or NoExtent
  Operands,    \* parameter names of the kernel
  GridArgs,    \* the extents a user may ask of the herd
  Factors,     \* the factors a user may tile by
  Uses         \* the bounds of a run: each use of the builder is a set of
               \* clauses with how many records the user makes of them

NoExtent == -1

\* A kernel has finitely many axes, each with a name.
ASSUME NamesAssumption ==
  IsFiniteSet(KernelAxes) /\ KernelAxes \subseteq Seq(STRING) \ {<<>>}

ASSUME ExtentAssumption ==
  \A a \in KernelAxes : Extent[a] \in Nat \union {NoExtent}

ASSUME ArgumentsAssumption == GridArgs \subseteq Seq(Int) /\ Factors \subseteq Int

VARIABLES
  table,    \* name -> [parent, extent], parent <<>> for a kernel axis
  records,  \* sequence of [clause, key, val]; key names the clause's slot
  outcome   \* the last call: its clause, its arguments if it recorded, its code

vars == <<table, records, outcome>>

-----------------------------------------------------------------------------
(* The closed vocabularies.                                                 *)

Ops        == {"+", "max", "min"}
Patterns   == {"broadcast", "forward", "cascade"}
Levels     == {"L1", "L2", "L3"}
Directions == {"W->E", "E->W", "N->S", "S->N"}
NoDepth    == -1

-----------------------------------------------------------------------------
(* What the clauses ask of the records and of the table.                    *)

Herd == <<>>    \* the key of a clause a schedule has at most one of

Made(c)        == {k \in DOMAIN records : records[k].clause = c}
Recorded(c)    == Made(c) # {}
Taken(c, key)  == \E k \in Made(c) : records[k].key = key
TheValue(c)    == records[CHOOSE k \in Made(c) : TRUE].val
Placed         == IF Recorded("place") THEN TheValue("place") ELSE <<>>
InSeq(x, s)    == \E k \in DOMAIN s : s[k] = x

Known(ax)   == ax \in DOMAIN table
Outer(ax)   == Append(ax, "0")
Inner(ax)   == Append(ax, "1")
IsTiled(ax) == Known(Outer(ax)) /\ table[Outer(ax)].parent = ax

\* _axis_outer_leaf: follow the outer child as far as the axis is tiled.
Descent(ax, k) == ax \o [j \in 1 .. k |-> "0"]
OuterLeaf(ax) ==
  LET depth == CHOOSE k \in 0 .. Cardinality(DOMAIN table) :
                 /\ \A j \in 0 .. k - 1 : IsTiled(Descent(ax, j))
                 /\ ~IsTiled(Descent(ax, k))
  IN Descent(ax, depth)

-----------------------------------------------------------------------------
(* A clause raises the code of the first check that fails, or records.      *)

Failing(checks) == {k \in DOMAIN checks : checks[k][1]}

Code(checks) ==
  LET failing == Failing(checks)
  IN IF failing = {} THEN "ok"
     ELSE checks[CHOOSE k \in failing : \A j \in failing : k <= j][2]

Raise(clause, code) ==
  outcome' = [clause |-> clause, args |-> <<>>, code |-> code]

Record(clause, args, key, val) ==
  /\ records' = Append(records, [clause |-> clause, key |-> key, val |-> val])
  /\ outcome' = [clause |-> clause, args |-> args, code |-> "ok"]

\* A clause with one record and no other effect.
Apply(clause, args, checks, key, val) ==
  LET code == Code(checks) IN
  /\ UNCHANGED table
  /\ IF code = "ok" THEN Record(clause, args, key, val)
     ELSE Raise(clause, code) /\ UNCHANGED records

Grid(extents) ==
  Apply("grid", extents,
    << <<Recorded("grid"), "CLAUSE-DUPLICATE">>,
       <<Len(extents) \notin 1 .. 2, "CLAUSE-GRID-RANK">>,
       <<\E k \in DOMAIN extents : extents[k] < 1, "CLAUSE-BAD-VALUE">> >>,
    Herd, extents)

\* Registers the two halves of an axis.
Halves(ax, factor) ==
  [n \in DOMAIN table \union {Outer(ax), Inner(ax)} |->
     IF n = Outer(ax) THEN [parent |-> ax, extent |-> table[ax].extent \div factor]
     ELSE IF n = Inner(ax) THEN [parent |-> ax, extent |-> factor]
     ELSE table[n]]

\* The checks of tile, each guarded by the ones before it.
TileChecks(ax, factor) ==
  LET axOK == Known(ax) /\ factor >= 1
      extentOK == axOK /\ table[ax].extent # NoExtent
  IN << <<~Known(ax), "CLAUSE-UNKNOWN-AXIS">>,
        <<factor < 1, "CLAUSE-BAD-VALUE">>,
        <<axOK /\ ~extentOK, "CLAUSE-TILE-DIVIDES">>,
        <<extentOK /\ table[ax].extent % factor # 0, "CLAUSE-TILE-DIVIDES">>,
        <<Known(Outer(ax)) \/ Known(Inner(ax)), "CLAUSE-DUPLICATE">> >>

\* Mutant: an axis that has been tiled may be tiled again.
TileAgain(ax, factor) ==
  LET code == Code(SubSeq(TileChecks(ax, factor), 1, 4)) IN
  IF code = "ok"
  THEN /\ table' = Halves(ax, factor)
       /\ Record("tile", <<ax, factor>>, ax, factor)
  ELSE Raise("tile", code) /\ UNCHANGED <<table, records>>

\* Mutant: the handles are registered before the factor is checked.
TileEager(ax, factor) ==
  LET code == Code(TileChecks(ax, factor)) IN
  /\ table' = IF code \in {"ok", "CLAUSE-TILE-DIVIDES"} /\ table[ax].extent # NoExtent
              THEN Halves(ax, factor) ELSE table
  /\ IF code = "ok" THEN Record("tile", <<ax, factor>>, ax, factor)
     ELSE Raise("tile", code) /\ UNCHANGED records

Tile(ax, factor) ==
  LET code == Code(TileChecks(ax, factor)) IN
  IF code = "ok"
  THEN /\ table' = Halves(ax, factor)
       /\ Record("tile", <<ax, factor>>, ax, factor)
  ELSE Raise("tile", code) /\ UNCHANGED <<table, records>>

\* place(px) or place(px, py).
Place(axes) ==
  LET names == [k \in DOMAIN axes |-> IF Known(axes[k]) THEN OuterLeaf(axes[k]) ELSE axes[k]]
      rank  == IF Recorded("grid") THEN Len(TheValue("grid")) ELSE 0
  IN Apply("place", axes,
       << <<Recorded("place"), "CLAUSE-DUPLICATE">>,
          <<\E k \in DOMAIN axes : ~Known(axes[k]), "CLAUSE-UNKNOWN-AXIS">>,
          <<Len(axes) = 2 /\ names[1] = names[Len(axes)], "CLAUSE-DUPLICATE">>,
          <<~Recorded("grid"), "CLAUSE-RANK">>,
          <<Len(names) # rank, "CLAUSE-RANK">> >>,
       Herd, names)

Reduce(ax, op) ==
  Apply("reduce", <<ax, op>>,
    << <<~Known(ax), "CLAUSE-UNKNOWN-AXIS">>,
       <<op \notin Ops, "CLAUSE-BAD-ENUM">>,
       <<Taken("reduce", ax), "CLAUSE-DUPLICATE">> >>,
    ax, op)

Stationary(name) ==
  Apply("stationary", <<name>>,
    << <<name \notin Operands, "CLAUSE-UNKNOWN-OPERAND">>,
       <<Taken("stationary", name), "CLAUSE-DUPLICATE">> >>,
    name, TRUE)

NotPlaced == "CLAUSE-BAD-VALUE: along is not placed"

\* _stream_like: stream and forward share one slot per operand.
StreamLike(slot, name, pattern, along, direction, depth) ==
  Apply(slot, <<name, pattern, along, direction, depth>>,
    << <<name \notin Operands, "CLAUSE-UNKNOWN-OPERAND">>,
       <<pattern \notin Patterns, "CLAUSE-BAD-ENUM">>,
       <<~Known(along), "CLAUSE-UNKNOWN-AXIS">>,
       <<depth # NoDepth /\ depth < 1, "CLAUSE-BAD-VALUE">>,
       <<~InSeq(along, Placed), NotPlaced>>,
       <<Taken(slot, name), "CLAUSE-DUPLICATE">> >>,
    name, [along |-> along, pattern |-> pattern, direction |-> direction, depth |-> depth])

Stream(name, pattern, along, depth) ==
  StreamLike("stream", name, pattern, along, "none", depth)

Forward(name, along, direction, depth) ==
  IF direction \in Directions
  THEN StreamLike("stream", name, "forward", along, direction, depth)
  ELSE Raise("stream", "CLAUSE-BAD-ENUM") /\ UNCHANGED <<table, records>>

\* The clauses that take several operands record them one by one, as they are
\* checked: code[k] is what checking the k-th says.
OneByOne(clause, args, codes, recs) ==
  LET failing == {k \in DOMAIN codes : codes[k] # "ok"}
      first   == CHOOSE k \in failing : \A j \in failing : k <= j
  IN /\ UNCHANGED table
     /\ IF failing = {}
        THEN /\ records' = records \o recs
             /\ outcome' = [clause |-> clause, args |-> args, code |-> "ok"]
        ELSE /\ records' = records \o SubSeq(recs, 1, first - 1)
             /\ Raise(clause, codes[first])

\* reside(A="L1", B="L2"): levels is the sequence of the keyword arguments.
Reside(levels) ==
  OneByOne("reside", levels,
    [k \in DOMAIN levels |->
       Code(<< <<levels[k][1] \notin Operands, "CLAUSE-UNKNOWN-OPERAND">>,
               <<levels[k][2] \notin Levels, "CLAUSE-BAD-ENUM">>,
               <<Taken("reside", levels[k][1]), "CLAUSE-DUPLICATE">> >>)],
    [k \in DOMAIN levels |-> [clause |-> "reside", key |-> levels[k][1], val |-> levels[k][2]]])

DoubleBuffer(names) ==
  OneByOne("double_buffer", names,
    [k \in DOMAIN names |->
       IF names[k] \in Operands THEN "ok" ELSE "CLAUSE-UNKNOWN-OPERAND"],
    [k \in DOMAIN names |-> [clause |-> "double_buffer", key |-> names[k], val |-> TRUE]])

Pipeline(ax) ==
  Apply("pipeline", <<ax>>,
    << <<~Known(ax), "CLAUSE-UNKNOWN-AXIS">>,
       <<Taken("pipeline", ax), "CLAUSE-DUPLICATE">> >>,
    ax, TRUE)

Sequential(ax) ==
  Apply("sequential", <<ax>>,
    << <<~Known(ax), "CLAUSE-UNKNOWN-AXIS">>,
       <<Taken("sequential", ax), "CLAUSE-DUPLICATE">> >>,
    ax, TRUE)

\* An int halo stands for one entry per dim; the tuple is what is recorded.
Window(name, dims, halo) ==
  Apply("window", <<name, dims, halo>>,
    << <<name \notin Operands, "CLAUSE-UNKNOWN-OPERAND">>,
       <<\E k \in DOMAIN dims : ~Known(dims[k]), "CLAUSE-UNKNOWN-AXIS">>,
       <<Len(halo) # Len(dims), "CLAUSE-RANK">>,
       <<\E k \in DOMAIN halo : halo[k] < 0, "CLAUSE-BAD-VALUE">>,
       <<Taken("window", name), "CLAUSE-DUPLICATE">> >>,
    name, [dims |-> dims, halo |-> halo])

\* Mutant: the axis of the exchange need not be placed.
ExchangeUnplaced(name, along, halo) ==
  Apply("exchange", <<name, along, halo>>,
    << <<name \notin Operands, "CLAUSE-UNKNOWN-OPERAND">>,
       <<~Known(along), "CLAUSE-UNKNOWN-AXIS">>,
       <<halo < 1, "CLAUSE-BAD-VALUE">>,
       <<Taken("exchange", name), "CLAUSE-DUPLICATE">> >>,
    name, [along |-> along, halo |-> halo])

Exchange(name, along, halo) ==
  Apply("exchange", <<name, along, halo>>,
    << <<name \notin Operands, "CLAUSE-UNKNOWN-OPERAND">>,
       <<~Known(along), "CLAUSE-UNKNOWN-AXIS">>,
       <<halo < 1, "CLAUSE-BAD-VALUE">>,
       <<~InSeq(along, Placed), NotPlaced>>,
       <<Taken("exchange", name), "CLAUSE-DUPLICATE">> >>,
    name, [along |-> along, halo |-> halo])

Skew(time) ==
  Apply("skew", time,
    << <<Recorded("skew"), "CLAUSE-DUPLICATE">>,
       <<Len(time) < 1, "CLAUSE-BAD-VALUE">>,
       <<\E k \in DOMAIN time : ~Known(time[k]), "CLAUSE-UNKNOWN-AXIS">>,
       <<\E j, k \in DOMAIN time : j < k /\ time[j] = time[k], "CLAUSE-DUPLICATE">> >>,
    Herd, time)

-----------------------------------------------------------------------------
(* The canonical projection: a field sorted by its key is the set of its    *)
(* entries, a field kept in call order is a sequence.                       *)

Entries(c)  == {[key |-> records[k].key, val |-> records[k].val] : k \in Made(c)}
CallOrder(c) ==
  SelectSeq(records, LAMBDA r : r.clause = c)

Model ==
  [grid         |-> Entries("grid"),
   tiles        |-> CallOrder("tile"),
   place        |-> Placed,
   reductions   |-> Entries("reduce"),
   stationary   |-> Entries("stationary"),
   streams      |-> Entries("stream"),
   residency    |-> Entries("reside"),
   doubleBuffer |-> Entries("double_buffer"),
   pipeline     |-> CallOrder("pipeline"),
   sequential   |-> Entries("sequential"),
   windows      |-> Entries("window"),
   exchanges    |-> Entries("exchange"),
   skew         |-> Entries("skew")]

\* Building the model re-validates that what is delivered along an axis is
\* delivered along a placed one, and raises if not.
ModelRaises ==
  \E k \in Made("stream") \union Made("exchange") : ~InSeq(records[k].val.along, Placed)

-----------------------------------------------------------------------------
(* The user: any clause, with good and bad arguments.                       *)

Foreign   == <<"a handle of another schedule">>
AnyAxis   == DOMAIN table \union {Foreign}
AnyName   == Operands \union {"not a parameter"}
UpToTwo(S) == {<<x>> : x \in S} \union {<<x, y>> : x \in S, y \in S}

Call(clauses) ==
  \/ "grid" \in clauses /\ \E e \in GridArgs : Grid(e)
  \/ "tile" \in clauses /\ \E ax \in AnyAxis, factor \in Factors : Tile(ax, factor)
  \/ "place" \in clauses /\ \E axes \in UpToTwo(AnyAxis) : Place(axes)
  \/ "reduce" \in clauses /\ \E ax \in AnyAxis, op \in {"+", "-"} : Reduce(ax, op)
  \/ "stationary" \in clauses /\ \E n \in AnyName : Stationary(n)
  \/ "stream" \in clauses /\ \E n \in AnyName, pat \in {"broadcast", "scatter"},
       ax \in AnyAxis, depth \in {NoDepth, 0, 2} : Stream(n, pat, ax, depth)
  \/ "forward" \in clauses /\ \E n \in AnyName, ax \in AnyAxis, dir \in {"W->E", "up"} :
       Forward(n, ax, dir, NoDepth)
  \/ "reside" \in clauses /\ \E levels \in UpToTwo(AnyName \X {"L1", "L4"}) : 
       /\ Len(levels) = 2 => levels[1][1] # levels[2][1]
       /\ Reside(levels)
  \/ "double_buffer" \in clauses /\ \E names \in UpToTwo(AnyName) : DoubleBuffer(names)
  \/ "pipeline" \in clauses /\ \E ax \in AnyAxis : Pipeline(ax)
  \/ "sequential" \in clauses /\ \E ax \in AnyAxis : Sequential(ax)
  \/ "window" \in clauses /\ \E n \in AnyName, dims \in UpToTwo(AnyAxis),
       halo \in {<<1>>, <<1, 0>>, <<-1>>} : Window(n, dims, halo)
  \/ "exchange" \in clauses /\ \E n \in AnyName, ax \in AnyAxis, halo \in {0, 1} :
       Exchange(n, ax, halo)
  \/ "skew" \in clauses /\ \E time \in {<<>>} \union UpToTwo(AnyAxis) : Skew(time)

Init ==
  /\ table   = [a \in KernelAxes |-> [parent |-> <<>>, extent |-> Extent[a]]]
  /\ records = <<>>
  /\ outcome = [clause |-> "schedule", args |-> <<>>, code |-> "ok"]

Next ==
  \E use \in Uses :
    /\ Len(records) < use.records
    /\ \A k \in DOMAIN records : records[k].clause \in use.clauses
    /\ Call(use.clauses)

Spec == Init /\ [][Next]_vars

-----------------------------------------------------------------------------
(* Properties.                                                              *)

\* The variables stay in their types: every record is a clause as recorded.
TypeOK ==
  /\ \A n \in DOMAIN table : /\ table[n].parent \in DOMAIN table \union {<<>>}
                             /\ table[n].extent \in Nat \union {NoExtent}
  /\ \A k \in DOMAIN records : DOMAIN records[k] = {"clause", "key", "val"}
  /\ \A k \in Made("grid") :
       /\ Len(records[k].val) \in 1 .. 2
       /\ \A d \in DOMAIN records[k].val : records[k].val[d] \in Nat /\ records[k].val[d] > 0
  /\ DOMAIN outcome = {"clause", "args", "code"}

\* Tiling keeps every axis: both halves of a tiled axis are in the table and
\* their extents multiply to its own, re-tiled halves included.
TilesExact ==
  \A n \in DOMAIN table : table[n].parent # <<>> =>
    LET ax == table[n].parent IN
    /\ IsTiled(ax) /\ Known(Inner(ax))
    /\ table[Outer(ax)].extent * table[Inner(ax)].extent = table[ax].extent

\* No slot is filled twice, whichever clause fills it: one grid, place and
\* skew, one delivery per operand, one residency, and so on.
OnePerSlot ==
  \A j, k \in DOMAIN records :
    /\ records[j].clause = records[k].clause
    /\ records[j].clause # "double_buffer"
    /\ records[j].key = records[k].key
    => j = k

\* The postconditions of `model`: its names are axes, the ranks of place and
\* grid agree, no axis is placed twice, and re-validation finds nothing that
\* the calls let through; whatever calls were refused, no slot is filled twice.
ModelWellFormed ==
  /\ ~ModelRaises
  /\ \A k \in DOMAIN Placed : Known(Placed[k])
  /\ Recorded("place") => Len(Placed) = Len(TheValue("grid"))
  /\ \A j, k \in DOMAIN Placed : Placed[j] = Placed[k] => j = k
  /\ OnePerSlot

\* A clause that raises leaves the schedule as it was, so the user may go on
\* (the clauses over several operands excepted: reside and double_buffer record
\* the operands before the bad one).
RefusedChangesNothing ==
  [][outcome'.code # "ok" /\ outcome'.clause \notin {"reside", "double_buffer"} =>
       UNCHANGED <<table, records>>]_vars

\* The same of every clause, as the design has it ("There is no partially-applied
\* clause"): reside and double_buffer break it.
NoPartialClause == [][outcome'.code # "ok" => UNCHANGED <<table, records>>]_vars

\* The order of the calls does not show in `place`: what is placed is what the same
\* clauses would have placed had place come last, the outermost tiles of its axes.
\* (Issuing place before tile breaks it.)
PlaceInAnyOrder == \A k \in DOMAIN Placed : Placed[k] = OuterLeaf(Placed[k])

=============================================================================
