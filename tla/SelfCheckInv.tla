---------------------------- MODULE SelfCheckInv ----------------------------
(***************************************************************************)
(* The inductive invariant of SelfCheck: what has been put on a channel, what *)
(* of it has been got and what waits, by number and by order.               *)
(***************************************************************************)
EXTENDS SelfCheck

\* The two ends of a channel, their occurrences and those executed.
PutEnd(p, c)    == Ends(p, c, "put", Actor)
GetEnd(p, c, a) == Ends(p, c, "get", {a})

Puts(c)        == Occurrences(PutEnd(plan, c))
Gets(c, a)     == Occurrences(GetEnd(plan, c, a))
PutsDone(c)    == {x \in Puts(c) : x \notin left[x.node.actor]}
GetsDone(c, a) == {x \in Gets(c, a) : x \notin left[a]}

\* How many occurrences come before x on its end of the channel.
Turn(p, x) ==
  Cardinality({y \in Occurrences(Ends(p, x.node.ch, x.node.kind, {x.node.actor})) : Sooner(y, x)})

\* What the actors have left is the rest of their bodies.
InBodyOrder ==
  \A a \in Actor :
    /\ \A x \in left[a] : x.node.actor = a
    /\ \A x \in left[a], y \in Occurrences(plan) :
         y.node.actor = a /\ Sooner(x, y) => y \in left[a]

\* What waits has been put and not got.
Counted ==
  \A c \in Channel : \A a \in Dests[c] :
    Cardinality(PutsDone(c)) = Len(queue[c][a]) + Cardinality(GetsDone(c, a))

Waiting ==
  \A c \in Channel : \A a \in Dests[c] : \A k \in 1 .. Len(queue[c][a]) :
    /\ queue[c][a][k] \in PutsDone(c)
    /\ OneProducer(plan, c) =>
         Turn(plan, queue[c][a][k]) = Cardinality(GetsDone(c, a)) + k - 1

\* With one producer, the k-th get has been fed by the k-th put.
FedInTurn ==
  \A pair \in fed : \E c \in Channel : \E a \in Dests[c] :
    /\ pair[1] \in PutsDone(c) /\ pair[2] \in GetsDone(c, a)
    /\ OneProducer(plan, c) => Turn(plan, pair[1]) = Turn(plan, pair[2])

NodesDone == {n \in plan : \A x \in left[n.actor] : x.node # n}

\* On straight-line code the sites executed hold no cycle, and nothing that is
\* executed waits for what is not.
NoCycleDone ==
  StraightLine(plan) /\ OneToOne(plan) =>
    /\ \A edge \in Graph(plan) : edge[2] \in NodesDone => edge[1] \in NodesDone
    /\ \A nodes \in SUBSET NodesDone : nodes # {} => HasFirst(nodes, Graph(plan))

PlanInv ==
  /\ PlanTypeOK
  /\ Balanced(plan) /\ verdict = Checked(plan)
  /\ InBodyOrder /\ Counted /\ Waiting /\ FedInTurn /\ NoCycleDone

=============================================================================
