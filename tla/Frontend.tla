------------------------------ MODULE Frontend ------------------------------
(***************************************************************************)
(* What spatial/m1_frontend.py captures of a kernel: the loop nest as a      *)
(* box, the access maps of every statement, the dependence vectors and the  *)
(* reduction.  Python syntax is abstracted: a source kernel is a record      *)
(*   axes    sequence of [name, lo, hi, step], outermost first,              *)
(*   params  [name -> [bytes, rank]],                                        *)
(*   body    sequence of [form, target, loads], a store into the reference   *)
(*           `target` of an expression that loads the references `loads`;    *)
(* a form is "aug" for x[..] += e, "call" for x[..] = max(y[..], e, ..) or   *)
(* min, "assign" for any other store.  A reference [op, m, c] is the         *)
(* subscripts m p + c of operand `op` at iteration p.                        *)
(***************************************************************************)
EXTENDS Intlin, FiniteSets

\* Ceiling division, as range() counts.
AxisExtent(a) == -FloorDiv(-(a.hi - a.lo), a.step)

AxisNames(source) == [k \in DOMAIN source.axes |-> source.axes[k].name]

References(source) ==
  UNION {{s.target} \union Range(s.loads) : s \in Range(source.body)}

-----------------------------------------------------------------------------
(* Statements.                                                              *)

\* A max or min accumulates when its first argument is the target: the operand
\* and the strides are compared.
Accumulates(s) ==
  \/ s.form = "aug"
  \/ /\ s.form = "call" /\ s.loads # <<>>
     /\ s.loads[1].op = s.target.op
     /\ s.loads[1].m = s.target.m

\* An accumulation re-reads its target, in the place of the first argument of a
\* max or min; that one load is not among the statement's reads.
Classified(s) ==
  [kind   |-> IF Accumulates(s) THEN "accumulate" ELSE "assign",
   target |-> s.target,
   reads  |-> IF s.form = "call" /\ Accumulates(s) THEN Tail(s.loads) ELSE s.loads]

-----------------------------------------------------------------------------
(* Dependences.                                                             *)

LexLess(u, v) ==
  \E k \in DOMAIN u : u[k] < v[k] /\ \A j \in 1 .. k - 1 : u[j] = v[j]

Sizes(v) == [k \in DOMAIN v |-> Magnitude(v[k])]
Nearer(u, v) == LexLess(Sizes(u), Sizes(v)) \/ (Sizes(u) = Sizes(v) /\ LexLess(u, v))

\* The distance d of m d = rhs: the only one or, of those one step of the null
\* space away from a solution, the nearest that points forwards in time.
SolveDependence(m, rhs) ==
  LET d0  == Solve(m, rhs)
      ker == KernelBasis(m)
      Shifted(steps) == FoldLeft(LAMBDA v, k : Added(v, Scaled(steps[k], ker[k])),
                                 d0, [k \in DOMAIN ker |-> k])
      forwards == {v \in {Shifted(steps) : steps \in [DOMAIN ker -> -1 .. 1]} : LexPos(v)}
  IN IF Rank(m) = Columns(m) \/ d0 = NoSolution THEN d0
     ELSE IF forwards = {} THEN NoSolution
     ELSE CHOOSE v \in forwards : \A w \in forwards \ {v} : Nearer(v, w)

\* The access each operand is written with: that of its last statement.
WrittenWith(statements, op) ==
  statements[Max({k \in DOMAIN statements : statements[k].target.op = op})].target

Written(statements) == {s.target.op : s \in Range(statements)}

\* What a statement reads, its own target included if it accumulates.
ReadsOf(s) == Range(s.reads) \union (IF s.kind = "accumulate" THEN {s.target} ELSE {})

DependentReads(statements) ==
  {r \in UNION {ReadsOf(s) : s \in Range(statements)} : r.op \in Written(statements)}

Uniform(statements) ==
  \A r \in DependentReads(statements) : r.m = WrittenWith(statements, r.op).m

Dependences(statements) ==
  LET Vector(r) == LET w == WrittenWith(statements, r.op)
                   IN SolveDependence(w.m, Added(w.c, Scaled(-1, r.c)))
  IN {d \in {[op |-> r.op, d |-> Vector(r)] : r \in DependentReads(statements)} :
        d.d # NoSolution /\ ~IsZero(d.d)}

-----------------------------------------------------------------------------
(* Capture.                                                                 *)

NoReduction == [target |-> "none", space |-> <<>>]

\* The space of iterations that add to one cell, of the first accumulation.
ReductionOf(statements) ==
  LET sums == SelectSeq(statements, LAMBDA s : s.kind = "accumulate")
  IN IF sums = <<>> THEN NoReduction
     ELSE [target |-> sums[1].target.op, space |-> KernelBasis(sums[1].target.m)]

\* The code of the first thing that is wrong with a kernel.
CaptureCode(source) ==
  LET names == AxisNames(source)
  IN IF Cardinality(Range(names)) # Len(names) THEN "GRAMMAR-BAD-RANGE"
     ELSE IF names = <<>> THEN "GRAMMAR-UNSUPPORTED-STMT"
     ELSE IF \E r \in References(source) : Len(r.m) # source.params[r.op].rank
       THEN "GRAMMAR-BAD-ANNOTATION"
     ELSE IF source.body = <<>> THEN "GRAMMAR-UNSUPPORTED-STMT"
     ELSE IF ~Uniform([k \in DOMAIN source.body |-> Classified(source.body[k])])
       THEN "GRAMMAR-NONUNIFORM-DEP"
     ELSE "ok"

Captured(source) ==
  LET statements == [k \in DOMAIN source.body |-> Classified(source.body[k])]
  IN [names      |-> AxisNames(source),
      extents    |-> [k \in DOMAIN source.axes |-> AxisExtent(source.axes[k])],
      bytes      |-> [p \in DOMAIN source.params |-> source.params[p].bytes],
      statements |-> statements,
      written    |-> Written(statements),
      deps       |-> Dependences(statements),
      reduction  |-> ReductionOf(statements)]

-----------------------------------------------------------------------------
(* The loop nest as Python runs it, to hold the captured model against.      *)

\* The iterations: one value per axis.
Iterations(source) ==
  LET Values(a) == {a.lo + a.step * k : k \in 0 .. AxisExtent(a) - 1}
      AnyValue  == UNION {Values(a) : a \in Range(source.axes)}
  IN {p \in [DOMAIN source.axes -> AnyValue] :
        \A k \in DOMAIN p : p[k] \in Values(source.axes[k])}

Cell(ref, p) == Added(MatVec(ref.m, p), ref.c)

\* What a statement loads besides the partial result it adds to, which may be
\* added up in any order.
AddsTo(s) == s.form = "aug" \/ (s.form = "call" /\ s.loads # <<>> /\ s.loads[1] = s.target)
Loads(s)  == Range(s.loads) \ (IF AddsTo(s) THEN {s.target} ELSE {})

\* (p, q) is here when q loads what p, an earlier iteration, was the last to store.
Flow(source) ==
  LET box == Iterations(source)
      Stores(op) == {k \in DOMAIN source.body : source.body[k].target.op = op}
      Before(v, w) == LexLess(v[1], w[1]) \/ (v[1] = w[1] /\ v[2] < w[2])
      Stored(op, cell) ==
        {w \in box \X Stores(op) : Cell(source.body[w[2]].target, w[1]) = cell}
      Earlier(ref, use) == {w \in Stored(ref.op, Cell(ref, use[1])) : Before(w, use)}
      Latest(writes) == {w \in writes : \A v \in writes \ {w} : Before(v, w)}
      Origins(use) == UNION {Latest(Earlier(ref, use)) : ref \in Loads(source.body[use[2]])}
  IN UNION {{<<w[1], use[1]>> : w \in {w \in Origins(use) : w[1] # use[1]}} :
              use \in box \X DOMAIN source.body}
=============================================================================
