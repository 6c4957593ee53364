----------------------------- MODULE MCLegality -----------------------------
(* Small kernels, those of kernels/ among them, under schedules that tile at *)
(* most one axis, place up to two and skew up to two, with the clauses that   *)
(* matter to each kernel.                                                    *)
EXTENDS Staging

Axis(name, lo, hi)  == [name |-> <<name>>, lo |-> lo, hi |-> hi, step |-> 1]
Ref(op, m, c)       == [op |-> op, m |-> m, c |-> c]
Store(form, target, loads) == [form |-> form, target |-> target, loads |-> loads]
Array(bytes, rank)  == [bytes |-> bytes, rank |-> rank]

\* C[i, j] += A[i, k] * B[k, j]
Gemm ==
  [axes   |-> <<Axis("i", 0, 4), Axis("j", 0, 2), Axis("k", 0, 4)>>,
   params |-> [A |-> Array(2, 2), B |-> Array(2, 2), C |-> Array(4, 2)],
   body   |-> << Store("aug", Ref("C", <<<<1, 0, 0>>, <<0, 1, 0>>>>, <<0, 0>>),
                       << Ref("A", <<<<1, 0, 0>>, <<0, 0, 1>>>>, <<0, 0>>),
                          Ref("B", <<<<0, 0, 1>>, <<0, 1, 0>>>>, <<0, 0>>) >>) >>]

Id2 == <<<<1, 0>>, <<0, 1>>>>

\* U[t+1, i] from U[t, i-1 .. i+1]
Jacobi ==
  [axes   |-> <<Axis("t", 0, 2), Axis("i", 1, 5)>>,
   params |-> [U |-> Array(4, 2)],
   body   |-> << Store("assign", Ref("U", Id2, <<1, 0>>),
                       << Ref("U", Id2, <<0, 0>>), Ref("U", Id2, <<0, -1>>),
                          Ref("U", Id2, <<0, 1>>) >>) >>]

\* S[i, j] = max(0, S[i-1, j-1] + .., S[i-1, j] - .., S[i, j-1] - ..)
Sw ==
  [axes   |-> <<Axis("i", 1, 4), Axis("j", 1, 5)>>,
   params |-> [q |-> Array(4, 1), r |-> Array(4, 1), S |-> Array(4, 2)],
   body   |-> << Store("assign", Ref("S", Id2, <<0, 0>>),
                       << Ref("q", <<<<1, 0>>>>, <<-1>>), Ref("r", <<<<0, 1>>>>, <<-1>>),
                          Ref("S", Id2, <<-1, -1>>), Ref("S", Id2, <<-1, 0>>),
                          Ref("S", Id2, <<0, -1>>) >>) >>]

\* u[i] = u[i-1] + u[i+1], over and over
Sweep ==
  [axes   |-> <<Axis("t", 0, 2), Axis("i", 1, 5)>>,
   params |-> [u |-> Array(4, 1)],
   body   |-> << Store("assign", Ref("u", <<<<0, 1>>>>, <<0>>),
                       << Ref("u", <<<<0, 1>>>>, <<-1>>), Ref("u", <<<<0, 1>>>>, <<1>>) >>) >>]

\* m[i] = max(m[i], A[i, j])
RowMax ==
  [axes   |-> <<Axis("i", 0, 4), Axis("j", 0, 4)>>,
   params |-> [m |-> Array(4, 1), A |-> Array(4, 2)],
   body   |-> << Store("call", Ref("m", <<<<1, 0>>>>, <<0>>),
                       << Ref("m", <<<<1, 0>>>>, <<0>>), Ref("A", Id2, <<0, 0>>) >>) >>]

\* y[i + j] += A[i, j]
Diagonals ==
  [axes   |-> <<Axis("i", 0, 4), Axis("j", 0, 2)>>,
   params |-> [y |-> Array(4, 1), A |-> Array(4, 2)],
   body   |-> << Store("aug", Ref("y", <<<<1, 1>>>>, <<0>>), <<Ref("A", Id2, <<0, 0>>)>>) >>]

\* v[i] = u[i] and then w[i] = v[i] + v[i-1]; x is not used
Chain ==
  [axes   |-> <<Axis("i", 1, 5)>>,
   params |-> [u |-> Array(4, 1), v |-> Array(4, 1), w |-> Array(4, 1)],
   body   |-> << Store("assign", Ref("v", <<<<1>>>>, <<0>>), <<Ref("u", <<<<1>>>>, <<0>>)>>),
                 Store("assign", Ref("w", <<<<1>>>>, <<0>>),
                       <<Ref("v", <<<<1>>>>, <<0>>), Ref("v", <<<<1>>>>, <<-1>>)>>) >>]
Unused == [Chain EXCEPT !.params = [x |-> Array(4, 1)] @@ @]

\* What capture refuses.
Transposed ==
  [Sw EXCEPT !.body[1].loads = <<Ref("S", <<<<0, 1>>, <<1, 0>>>>, <<0, 0>>)>>,
             !.params = [S |-> Array(4, 2)]]
Flat      == [Sweep EXCEPT !.params.u = Array(4, 2)]
Empty     == [Sweep EXCEPT !.body = <<>>]
NoLoop    == [Sweep EXCEPT !.axes = <<>>, !.body = <<>>]
SameTwice == [Sweep EXCEPT !.axes[2].name = <<"t">>]

EmptyLoop == [Sweep EXCEPT !.axes[1].hi = 0]

\* S[i, j] = max(S[i-1, j], S[i, j-1]): a running maximum, not an accumulation.
RunningMax ==
  [axes   |-> <<Axis("i", 1, 4), Axis("j", 1, 4)>>,
   params |-> [S |-> Array(4, 2)],
   body   |-> << Store("call", Ref("S", Id2, <<0, 0>>),
                       <<Ref("S", Id2, <<-1, 0>>), Ref("S", Id2, <<0, -1>>)>>) >>]

\* for i, for t: u[i] = u[i-1] + A[i, t]: u[i-1] is final after the last t.
RunningSum ==
  [axes   |-> <<Axis("i", 0, 4), Axis("t", 0, 3)>>,
   params |-> [u |-> Array(4, 1), A |-> Array(4, 2)],
   body   |-> << Store("assign", Ref("u", <<<<1, 0>>>>, <<0>>),
                       <<Ref("u", <<<<1, 0>>>>, <<-1>>), Ref("A", Id2, <<0, 0>>)>>) >>]

\* u[i] = u[i-3] in tiles of 2.
Far ==
  [axes   |-> <<Axis("i", 0, 6)>>,
   params |-> [u |-> Array(4, 1)],
   body   |-> <<Store("assign", Ref("u", <<<<1>>>>, <<0>>), <<Ref("u", <<<<1>>>>, <<-3>>)>>)>>]

\* u[j, j-k, 2*i] = u[j, j-k+1, 2*i]
Sheared ==
  LET m == <<<<0, 1, 0>>, <<0, 1, -1>>, <<2, 0, 0>>>> IN
  [axes   |-> <<Axis("i", 0, 2), Axis("j", 3, 5), Axis("k", 0, 3)>>,
   params |-> [u |-> Array(4, 3)],
   body   |-> <<Store("assign", Ref("u", m, <<0, 0, 0>>), <<Ref("u", m, <<0, 1, 0>>)>>)>>]

-----------------------------------------------------------------------------
(* Schedules.                                                               *)

Plain ==
  [grid |-> <<>>, tiles |-> <<>>, place |-> <<>>, skew |-> <<>>, sequential |-> {},
   stationary |-> {}, reductions |-> <<>>, broadcasts |-> {}, windows |-> {},
   exchanges |-> {}, doubleBuffer |-> <<>>, target |-> "npu2"]

Tilings(src) ==
  {<<>>} \union {<<[axis |-> a.name, factor |-> 2]>> :
                    a \in {a \in Range(src.axes) : AxisExtent(a) % 2 = 0}}

Leaves(src, tiles) ==
  IF tiles = <<>> THEN {a.name : a \in Range(src.axes)}
  ELSE ({a.name : a \in Range(src.axes)} \ {tiles[1].axis})
         \union {Outer(tiles[1].axis), Inner(tiles[1].axis)}

\* Sequences of up to two names, each pair in one order.
UpToTwo(names) ==
  {SetToSeq(ns) : ns \in {ns \in SUBSET names : Cardinality(ns) <= 2}}

LeafExtent(src, tiles, name) ==
  LET ax == CHOOSE a \in Range(src.axes) : IsPrefix(a.name, name)
  IN IF name = ax.name THEN AxisExtent(ax)
     ELSE IF name = Outer(ax.name) THEN AxisExtent(ax) \div tiles[1].factor
     ELSE tiles[1].factor

\* Every placement and skew, with the grid that the placed axes need.
Spread(src) ==
  UNION {LET names == Leaves(src, tiles) IN
         {<<src, [Plain EXCEPT !.tiles = tiles, !.place = place, !.skew = skew,
                               !.grid = [r \in DOMAIN place |-> LeafExtent(src, tiles, place[r])]
                 ]>> : place \in UpToTwo(names), skew \in UpToTwo(names)}
         : tiles \in Tilings(src)}

\* The same with what the clauses say of the operands and the axes.
With(src, clauses) ==
  {<<src, clause @@ case[2]>> : clause \in clauses, case \in Spread(src)}

Window(op, axes, halo) == [windows |-> {[op |-> op, dims |-> axes, halo |-> halo]}]

KernelCases ==
  UNION {
    With(Gemm, {[target |-> "npu2"],
                [reductions |-> <<<<"k">>>>, stationary |-> {"C"}],
                [reductions |-> <<<<"k">>>>, stationary |-> {"B"}, doubleBuffer |-> <<"A">>],
                [reductions |-> <<<<"k">>>>, target |-> "npu1"]}),
    With(Jacobi, {Window("U", <<<<"i">>>>, <<1>>) @@ [exchanges |-> {"U"}, sequential |-> {<<"t">>}],
                  Window("U", <<<<"i">>>>, <<0>>),
                  Window("U", <<<<"t">>, <<"i">>>>, <<1, 1>>) @@ [doubleBuffer |-> <<"U">>],
                  Window("U", <<<<"t">>, <<"i">>>>, <<0, 1>>)}),
    With(Sw, {[target |-> "auto"], [stationary |-> {"S"}, doubleBuffer |-> <<"q">>]}),
    With(Sweep, {[target |-> "npu1", sequential |-> {<<"t">>}], [stationary |-> {"u"}]}),
    With(RowMax, {[target |-> "npu1"], [reductions |-> <<<<"j">>>>, stationary |-> {"m"}],
                  [reductions |-> <<<<"j">>>>, broadcasts |-> {"m"}]}),
    With(Diagonals, {[reductions |-> <<<<"i">>>>], [stationary |-> {"y"}]}),
    With(Chain, {[target |-> "npu2"], [reductions |-> <<<<"i">>>>]})}

\* Schedules and kernels that are refused for what one of them says alone.
OnePlaced(name) == [Plain EXCEPT !.grid = <<4>>, !.place = <<name>>]
OddCases ==
  {<<src, OnePlaced(<<"i">>)>> : src \in {Transposed, Flat, Empty, NoLoop, SameTwice, Unused}}
  \union {<<EmptyLoop, [OnePlaced(<<"i">>) EXCEPT !.sequential = {<<"t">>}]>>,
          <<Sw, [OnePlaced(<<"j">>) EXCEPT !.grid = <<2>>]>>,
          <<Sw, [OnePlaced(<<"j">>) EXCEPT !.place = <<>>]>>,
          <<Sw, [OnePlaced(<<"j">>) EXCEPT !.tiles = <<[axis |-> <<"j">>, factor |-> 2]>>]>>,
          <<Sw, OnePlaced(<<"j">>)>>,
          <<Sw, Window("S", <<<<"j", "0">>>>, <<1>>)
                @@ [OnePlaced(<<"i">>) EXCEPT !.grid = <<3>>]>>,
          <<Sw, Window("q", <<<<"i">>>>, <<1>>) @@ [OnePlaced(<<"i">>) EXCEPT !.grid = <<3>>]>>}

-----------------------------------------------------------------------------
(* Kernels that are staged, tiled along any of their axes.                   *)

\* Gemm on axes that do not start at 0.
GemmLow == [Gemm EXCEPT !.axes = <<Axis("i", 1, 5), Axis("j", 1, 3), Axis("k", 1, 5)>>]
GemmHigh == [Gemm EXCEPT !.axes[2] = Axis("j", 3, 5)]

\* y[i] += A[i, j] * x[j]
MatVecMul ==
  [axes   |-> <<Axis("i", 0, 4), Axis("j", 0, 4)>>,
   params |-> [A |-> Array(4, 2), x |-> Array(4, 1), y |-> Array(4, 1)],
   body   |-> << Store("aug", Ref("y", <<<<1, 0>>>>, <<0>>),
                       << Ref("A", Id2, <<0, 0>>), Ref("x", <<<<0, 1>>>>, <<0>>) >>) >>]

\* C[j+1, i] = A[i, j+1]
Copy ==
  [axes   |-> <<Axis("i", 0, 4), Axis("j", 0, 2)>>,
   params |-> [A |-> Array(4, 2), C |-> Array(4, 2)],
   body   |-> << Store("assign", Ref("C", <<<<0, 1>>, <<1, 0>>>>, <<1, 0>>),
                       <<Ref("A", Id2, <<0, 1>>)>>) >>]

\* y[i] += A[3-i, k]
Reversed ==
  [axes   |-> <<Axis("i", 0, 4), Axis("k", 0, 4)>>,
   params |-> [A |-> Array(4, 2), y |-> Array(4, 1)],
   body   |-> << Store("aug", Ref("y", <<<<1, 0>>>>, <<0>>),
                       <<Ref("A", <<<<-1, 0>>, <<0, 1>>>>, <<3, 0>>)>>) >>]

\* C[i, j] += A[i, k]
RowSums ==
  [Gemm EXCEPT !.params = [A |-> Array(2, 2), C |-> Array(4, 2)],
               !.body[1].loads = <<Ref("A", <<<<1, 0, 0>>, <<0, 0, 1>>>>, <<0, 0>>)>>]

\* y[i] += A[i, k, l]
PlaneSums ==
  [axes   |-> <<Axis("i", 0, 4), Axis("k", 0, 2), Axis("l", 0, 2)>>,
   params |-> [A |-> Array(4, 3), y |-> Array(4, 1)],
   body   |-> << Store("aug", Ref("y", <<<<1, 0, 0>>>>, <<0>>),
                       <<Ref("A", <<<<1, 0, 0>>, <<0, 1, 0>>, <<0, 0, 1>>>>, <<0, 0, 0>>)>>) >>]

\* Up to n tiles along each of some axes.
TilesOf(src, tiled, n) ==
  LET axes == SelectSeq(src.axes, LAMBDA a : a.name \in tiled)
  IN [t \in DOMAIN axes |-> [axis   |-> axes[t].name,
                             factor |-> Max({1, AxisExtent(axes[t]) \div n})]]

\* Every tiling, and every placement of whole axes and tiles.
Staged(src, n, clauses) ==
  UNION {LET tiles == TilesOf(src, tiled, n)
             whole == Range(AxisNames(src)) \ tiled
             Factor(name) == LET own == SelectSeq(tiles, LAMBDA t : t.axis = name)
                             IN IF own = <<>> THEN 1 ELSE own[1].factor
             Extent(x) == LET ax == CHOOSE a \in Range(src.axes) : IsPrefix(a.name, x)
                          IN AxisExtent(ax) \div Factor(ax.name)
         IN {<<src, clauses @@ [Plain EXCEPT !.tiles = tiles, !.place = place,
                                  !.grid = [r \in DOMAIN place |-> Extent(place[r])]]>>
             : place \in UpToTwo({Outer(x) : x \in tiled} \union whole) \ {<<>>}}
         : tiled \in SUBSET Range(AxisNames(src))}

Sum(name, buffers) == [reductions |-> <<<<name>>>>, doubleBuffer |-> buffers]

StagedCases ==
  Staged(Gemm, 2, Sum("k", <<"A">>)) \union Staged(Gemm, 4, Sum("k", <<>>))
    \union Staged(GemmLow, 2, Sum("k", <<"A">>)) \union Staged(RowSums, 4, Sum("k", <<>>))
    \union Staged(Copy, 2, [skew |-> <<>>]) \union Staged(MatVecMul, 2, Sum("j", <<"A", "x">>))

-----------------------------------------------------------------------------
\* One schedule each that is accepted for a kernel whose dependences are not
\* those that were captured, or not those that were lifted.
Misjudged ==
  {<<RunningMax, [Plain EXCEPT !.grid = <<3>>, !.place = <<<<"i">>>>, !.skew = <<<<"j">>>>]>>,
   <<RunningSum, [Plain EXCEPT !.grid = <<4>>, !.place = <<<<"i">>>>,
                               !.skew = <<<<"i">>, <<"t">>>>]>>,
   <<Far, [Plain EXCEPT !.grid = <<3>>, !.tiles = <<[axis |-> <<"i">>, factor |-> 2]>>,
                        !.place = <<<<"i", "0">>>>, !.skew = <<<<"i", "1">>>>]>>,
   <<Sheared, [Plain EXCEPT !.grid = <<3>>, !.place = <<<<"k">>>>, !.skew = <<<<"j">>>>]>>}

Tile(name, factor) == [axis |-> <<name>>, factor |-> factor]

\* One schedule each of a kernel that is planned, and planned wrong; the one in
\* which nothing streams is declined as a defect of the compiler.
Misplanned ==
  {<<Gemm, [Plain EXCEPT !.tiles = <<Tile("i", 2), Tile("j", 1)>>,                 \* C's tile moves
                         !.place = <<<<"j", "0">>>>, !.grid = <<2>>]>>,
   <<Gemm, [Plain EXCEPT !.tiles = <<Tile("j", 1), Tile("k", 2)>>,                 \* j1 is placed
                         !.place = <<<<"j", "0">>, <<"j", "1">>>>, !.grid = <<2, 1>>]>>,
   <<GemmHigh, [Plain EXCEPT !.tiles = <<Tile("i", 2), Tile("k", 2)>>,             \* j starts at 3
                             !.place = <<<<"i", "0">>>>, !.grid = <<2>>]>>,
   <<Reversed, [Plain EXCEPT !.tiles = <<Tile("i", 2), Tile("k", 2)>>,             \* 3 - i
                             !.place = <<<<"i", "0">>>>, !.grid = <<2>>]>>,
   <<Gemm, [Plain EXCEPT !.tiles = <<Tile("i", 2), Tile("j", 1)>>,                 \* nothing streams
                         !.place = <<<<"i", "0">>, <<"j", "0">>>>, !.grid = <<2, 2>>]>>,
   <<PlaneSums, [Plain EXCEPT !.tiles = <<Tile("i", 2), Tile("k", 1), Tile("l", 1)>>,  \* A moves twice
                              !.place = <<<<"i", "0">>>>, !.grid = <<2>>]>>}

Misserved == Misjudged \union Misplanned

Small == KernelCases \union OddCases \union StagedCases
=============================================================================
