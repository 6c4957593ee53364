---------------------------- MODULE MCSelfCheck ----------------------------
(* Small plans: bodies of at most two regions.                              *)
EXTENDS SelfCheck

End(c, kind) == [ch |-> c, kind |-> kind]

Regions(trips, ends, length) ==
  [trips : trips, ends : UNION {[1 .. n -> ends] : n \in 1 .. length}]

Bodies(regions) == UNION {[1 .. n -> regions] : n \in 0 .. 2}

\* The sites of actor a, given its body as a sequence of regions.
Walk(a, body) ==
  UNION {{[actor |-> a, region |-> r, pos |-> s, trips |-> body[r].trips,
           ch |-> body[r].ends[s].ch, kind |-> body[r].ends[s].kind] :
             s \in DOMAIN body[r].ends} : r \in DOMAIN body}

\* The segment and two herd coordinates: a link each way between the two, a
\* broadcast from the segment, and a channel back that both put on.
Actors == 0 .. 2
ActorDests == [x |-> {2}, y |-> {1}, in |-> {1, 2}, out |-> {0}]

\* Plans of the two coordinates alone.
PairPlans ==
  {Walk(1, one) \union Walk(2, two) :
     one \in Bodies(Regions({1, 2}, {End("x", "put"), End("y", "get")}, 2)),
     two \in Bodies(Regions({1, 2}, {End("y", "put"), End("x", "get")}, 2))}

\* Plans between the segment and the two, loops that never run included.
FanPlans ==
  {Walk(0, segment) \union Walk(1, one) \union Walk(2, two) :
     segment \in Bodies(Regions({0, 1, 2}, {End("in", "put"), End("out", "get")}, 1)),
     one \in Bodies(Regions({0, 1, 2}, {End("in", "get"), End("out", "put")}, 1)),
     two \in Bodies(Regions({1}, {End("in", "get"), End("out", "put")}, 2))}

PairAndFan == <<PairPlans, FanPlans>>
=============================================================================
