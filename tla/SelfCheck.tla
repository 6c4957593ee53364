----------------------------- MODULE SelfCheck -----------------------------
(***************************************************************************)
(* The balance and acyclicity checks of spatial/m4_selfcheck.py, and the     *)
(* occurrence pairing of spatial/m5tt_emit.py, against what a plan does on    *)
(* FIFO channels.  The checks read the text of the plan, loops as written;   *)
(* the actors run it, trips expanded.                                        *)
(*                                                                         *)
(* An actor is the segment or the herd body at one coordinate, its guards    *)
(* decided; its body is a sequence of regions, each a loop of `trips` trips   *)
(* over a sequence of channel sites (straight-line code is a loop of one).   *)
(* Every index of a channel is identified with the actor that gets at it.    *)
(***************************************************************************)
EXTENDS Naturals, FiniteSets, Sequences

CONSTANTS Actor,    \* the segment and the herd coordinates
          Dests,    \* Dests[c]: the actors a put on channel c reaches
          Plans     \* families of plans considered

Channel == DOMAIN Dests

\* What the walk over a plan yields: every live site at its actor, with its
\* place in the text of that actor's body and the trips of its loop.
Site ==
  [actor : Actor, region : Nat, pos : Nat, trips : Nat, ch : Channel, kind : {"put", "get"}]

IsPlan(p) ==
  /\ p \subseteq Site /\ IsFiniteSet(p)
  /\ \A m, n \in p : m.actor = n.actor /\ m.region = n.region =>
       m.trips = n.trips /\ (m.pos = n.pos => m = n)

ASSUME DestsAssumption == \A c \in Channel : Dests[c] \subseteq Actor
ASSUME PlansAssumption == \A family \in DOMAIN Plans : \A p \in Plans[family] : IsPlan(p)

VARIABLES
  plan,     \* the plan under check
  verdict,  \* what self_check raises, or "accepted"
  left,     \* left[a]: the occurrences of sites actor a has yet to execute
  queue,    \* queue[c][a]: payloads of channel c that wait for actor a
  fed       \* the <<put, get>> pairs of occurrences a payload has gone between

planVars == <<plan, verdict, left, queue, fed>>

-----------------------------------------------------------------------------
(* P1': what is counted.                                                    *)

Ends(p, c, kind, actors) == {n \in p : n.ch = c /\ n.kind = kind /\ n.actor \in actors}

\* The sites with the trips of their loops expanded.
Occurrences(sites) == UNION {{[node |-> n, trip |-> t] : t \in 1 .. n.trips} : n \in sites}

Trips(sites) == Cardinality(Occurrences(sites))

\* Mutant: sites are counted, not the trips of their loops.
BalancedSites(p) ==
  \A c \in Channel : \A a \in Dests[c] :
    Cardinality(Ends(p, c, "put", Actor)) = Cardinality(Ends(p, c, "get", {a}))

\* Every destination of a channel gets as often as the channel is put, and
\* nobody gets at an index no put reaches.
Balanced(p) ==
  \A c \in Channel :
    /\ \A a \in Dests[c] : Trips(Ends(p, c, "put", Actor)) = Trips(Ends(p, c, "get", {a}))
    /\ Trips(Ends(p, c, "get", Actor \ Dests[c])) = 0

-----------------------------------------------------------------------------
(* P2b: the graph of channel edges and program order.                        *)

\* In the text of one body.
Earlier(m, n) ==
  m.actor = n.actor /\ (m.region < n.region \/ (m.region = n.region /\ m.pos < n.pos))

\* The sites that precede n on its end of the channel.
Position(p, n) ==
  Cardinality({m \in Ends(p, n.ch, n.kind, {n.actor}) : Earlier(m, n)})

\* At most one producer, with as many sites as the consumer: the k-th is paired
\* with the k-th.
OneProducer(p, c) == \A m, n \in Ends(p, c, "put", Actor) : m.actor = n.actor

Zips(p, c, a) ==
  /\ OneProducer(p, c)
  /\ Cardinality(Ends(p, c, "put", Actor)) = Cardinality(Ends(p, c, "get", {a}))

\* The literal rule of the design, every put to every get; also a mutant.
AllPairs(p, c, a) == Ends(p, c, "put", Actor) \X Ends(p, c, "get", {a})

Zipped(p, c, a) == {e \in AllPairs(p, c, a) : Position(p, e[1]) = Position(p, e[2])}

Pairs(p, c, a) == IF Zips(p, c, a) THEN Zipped(p, c, a) ELSE AllPairs(p, c, a)

ChannelEdges(p) == UNION {UNION {Pairs(p, c, a) : a \in Dests[c]} : c \in Channel}

\* Mutant: the sites of one region are not chained, only region to region.
ProgramEdgesAcross(p) ==
  {e \in p \X p : /\ Earlier(e[1], e[2]) /\ e[1].region # e[2].region
                  /\ \A n \in p : ~(Earlier(e[1], n) /\ Earlier(n, e[2]))}

\* Consecutive sites; a loop is its first and last site, with no back edge.
ProgramEdges(p) ==
  {e \in p \X p : /\ Earlier(e[1], e[2])
                  /\ \A n \in p : ~(Earlier(e[1], n) /\ Earlier(n, e[2]))}

Graph(p) == ChannelEdges(p) \union ProgramEdges(p)

\* Nodes none of which comes first would hold a cycle.
HasFirst(nodes, edges) == \E n \in nodes : \A m \in nodes : <<m, n>> \notin edges

\* No cycle (the quantifier binds the graph once).
Acyclic(p) ==
  \A edges \in {Graph(p)} : \A nodes \in SUBSET p : nodes # {} => HasFirst(nodes, edges)

Checked(p) ==
  IF ~Balanced(p) THEN "BALANCE" ELSE IF ~Acyclic(p) THEN "CHANNEL-CYCLE" ELSE "accepted"

-----------------------------------------------------------------------------
(* What the plan does.                                                      *)

PlanInit ==
  /\ \E family \in DOMAIN Plans : plan \in Plans[family]
  /\ verdict = Checked(plan)
  /\ verdict # "BALANCE"    \* bound: an unbalanced plan is not run
  /\ left = [a \in Actor |-> Occurrences({n \in plan : n.actor = a})]
  /\ queue = [c \in Channel |-> [a \in Dests[c] |-> <<>>]]
  /\ fed = {}

\* In the execution of one body: trip by trip of a loop.
Sooner(x, y) ==
  \/ x.node.region < y.node.region
  \/ /\ x.node.region = y.node.region
     /\ x.trip < y.trip \/ (x.trip = y.trip /\ x.node.pos < y.node.pos)

\* Actor a is at occurrence x.
At(a, x) == x \in left[a] /\ \A y \in left[a] \ {x} : Sooner(x, y)

\* A put never blocks, and reaches every index of its fan-out.
Put(a, x) ==
  /\ At(a, x) /\ x.node.kind = "put"
  /\ queue' = [queue EXCEPT ![x.node.ch] = [d \in DOMAIN @ |-> Append(@[d], x)]]
  /\ left' = [left EXCEPT ![a] = @ \ {x}]
  /\ UNCHANGED <<plan, verdict, fed>>

Get(a, x) ==
  /\ At(a, x) /\ x.node.kind = "get" /\ queue[x.node.ch][a] # <<>>
  /\ fed' = fed \union {<<Head(queue[x.node.ch][a]), x>>}
  /\ queue' = [queue EXCEPT ![x.node.ch][a] = Tail(@)]
  /\ left' = [left EXCEPT ![a] = @ \ {x}]
  /\ UNCHANGED <<plan, verdict>>

PlanNext == \E a \in Actor : \E x \in left[a] : Put(a, x) \/ Get(a, x)

PlanSpec == PlanInit /\ [][PlanNext]_planVars

WaitsAt(a, x) == At(a, x) /\ x.node.kind = "get" /\ queue[x.node.ch][a] = <<>>

Returned(a) == left[a] = {}
Completed   == \A a \in Actor : Returned(a)
Stuck       == ~Completed /\ \A a \in Actor : Returned(a) \/ \E x \in left[a] : WaitsAt(a, x)

-----------------------------------------------------------------------------
(* Which plans the checks decide exactly.                                   *)

OneToOne(p)     == \A c \in Channel : \A a \in Dests[c] : Zips(p, c, a)
StraightLine(p) == \A n \in p : n.trips = 1

InRegion(sites, r) == {n \in sites : n.region = r}

\* The regions of all bodies run in step, and each is balanced by itself.
BalancedPerBody(p) ==
  /\ \A m, n \in p : m.region = n.region => m.trips = n.trips
  /\ \A c \in Channel : \A a \in Dests[c] : \A n \in p :
       Cardinality(InRegion(Ends(p, c, "put", Actor), n.region)) =
         Cardinality(InRegion(Ends(p, c, "get", {a}), n.region))

-----------------------------------------------------------------------------
(* Properties.                                                              *)

\* The variables stay in their types.
PlanTypeOK ==
  /\ IsPlan(plan)
  /\ verdict \in {"CHANNEL-CYCLE", "accepted"}
  /\ left \in [Actor -> SUBSET Occurrences(plan)]
  /\ DOMAIN queue = Channel
  /\ \A c \in Channel : queue[c] \in [Dests[c] -> Seq(Occurrences(plan))]
  /\ fed \subseteq Occurrences(plan) \X Occurrences(plan)

\* In a balanced plan nobody waits for actors that have all returned: the only
\* way to hang is a circle of actors each inside its own body.
OnlyCirclesHang ==
  \A a \in Actor : \A x \in left[a] : WaitsAt(a, x) =>
    \E b \in Actor : \E y \in left[b] : y.node.ch = x.node.ch /\ y.node.kind = "put"

\* On straight-line code with one producer and one consumer per index the
\* acyclicity check is exact: an accepted plan never hangs, a rejected one
\* never finishes.
ExactOnStraightLine ==
  (Stuck \/ Completed) /\ StraightLine(plan) /\ OneToOne(plan) =>
    /\ verdict = "accepted" => ~Stuck
    /\ verdict = "CHANNEL-CYCLE" => ~Completed

\* Every get is fed by the put it is paired with, in the same trip.
FedAsPaired ==
  \A pair \in fed :
    /\ <<pair[1].node, pair[2].node>> \in Zipped(plan, pair[2].node.ch, pair[2].node.actor)
    /\ pair[1].trip = pair[2].trip

\* With loops, an accepted plan whose every body is balanced never hangs, and
\* its gets are fed by the puts they are paired with.
PerBodyIsSafe ==
  BalancedPerBody(plan) =>
    /\ verdict = "accepted" => ~Stuck
    /\ OneToOne(plan) => FedAsPaired

\* Where puts are zipped to gets, which is said to be the exact semantics, a plan
\* that is balanced and has no cycle never hangs.  (Loops that divide the payloads
\* of a link differently on its two sides break it.)
ZippingIsExact == verdict = "accepted" /\ OneToOne(plan) => ~Stuck

=============================================================================
