----------------------------- MODULE MCSchedule -----------------------------
(* A kernel of three axes, one of them without a constant extent and one    *)
(* whose name is the name tiling the first would give, and two operands.    *)
EXTENDS Schedule, TLC

Axes       == {<<"i">>, <<"t">>, <<"t", "0">>}
AxisExtent == (<<"i">> :> 4) @@ (<<"t">> :> NoExtent) @@ (<<"t", "0">> :> 3)
Params     == {"A", "B"}

\* One of each rank the builder tells apart, with good and bad extents.
Herds      == {<<2>>, <<0>>, <<2, 2>>, <<1, 1, 1>>}
TileBy     == {0, 1, 2, 3}

\* The clauses about the herd and what is delivered over it.
HerdClauses == {"grid", "tile", "place", "stream", "forward", "exchange"}
\* The clauses about single axes and operands.
LoopClauses == {"tile", "reduce", "stationary", "reside", "double_buffer",
                "pipeline", "sequential", "window", "skew"}

HerdAndLoops == {[clauses |-> HerdClauses, records |-> 4],
                 [clauses |-> LoopClauses, records |-> 2]}
=============================================================================
