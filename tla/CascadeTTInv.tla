---------------------------- MODULE CascadeTTInv ----------------------------
(***************************************************************************)
(* The inductive invariant of CascadeTT: the counters and semaphores of a   *)
(* link are functions of the program counters of its two ends, and every    *)
(* accumulator and delivery is the sum of the shares of the cores before    *)
(* it, for one and the same trip.                                           *)
(* CascadeTTProofs proves that it is inductive and what follows from it.     *)
(***************************************************************************)
EXTENDS CascadeTT

\* The core after, before p in the chain.
Succ(p) == IF chain = "ascending" THEN p + 1 ELSE p - 1
Pred(p) == IF chain = "ascending" THEN p - 1 ELSE p + 1

\* Core p has added, has taken, the partial sum of the current trip.
AfterSum(p) == op[p] \in {"wait_empty", "write", "signal", "drain"}
AfterGet(p) == op[p] = "accumulate" \/ AfterSum(p)

\* Trips whose partial sum is taken, if p is not the head; and those whose
\* partial sum p has written into the next core.
Taken(p)   == step[p] + (IF AfterGet(p) THEN 1 ELSE 0)
Written(p) == putn[p] + (IF op[p] = "signal" THEN 1 ELSE 0)

\* Control: which operations a trip and a place in the chain allow.
CtlOK(p) ==
  /\ op[p] = "stage" => step[p] = 0
  /\ op[p] = "done" => step[p] = T
  /\ op[p] \notin {"stage", "done"} => step[p] < T
  /\ op[p] \in {"release", "wait_full", "accumulate"} => ~IsHead(p)
  /\ op[p] \in {"wait_empty", "write", "signal"} => ~IsTail(p)
  /\ op[p] = "drain" => IsTail(p)

\* The counters are functions of the program counter: the put is the last
\* statement of the head's and the middle cores' loop.
CountOK(p) ==
  /\ ~IsTail(p) => putn[p] = step[p]
  /\ ~IsHead(p) => getn[p] = Taken(p)

\* A core takes the partial sum of a trip after every core before it in the
\* chain has ended that trip.
AheadOK(p) == ~IsHead(p) => \A q \in Before(chain, p) : Taken(p) <= step[q]

\* The link from p: every partial sum but the last one taken has been given
\* back, and that one too once the consumer stands at its next wait; a partial
\* sum goes out only when all before it have been given back.
LinkOK(p) ==
  ~IsTail(p) =>
    LET k == PutIndex(chain, p)
        q == Succ(p)
    IN
    /\ full[k] = putn[p]
    /\ getn[q] <= putn[p]
    /\ empty[k] = IF getn[q] = 0 THEN 0
                  ELSE IF op[q] = "wait_full" THEN getn[q]
                  ELSE getn[q] - 1
    /\ putn[p] <= empty[k] + 1
    /\ op[p] \in {"write", "signal"} => putn[p] <= empty[k]

\* recv holds the partial sum written last, whatever the consumer does.
RecvOK(p) ==
  ~IsTail(p) /\ Written(p) > 0 =>
    recv[Succ(p)] = SumOver(Before(chain, Succ(p)), Written(p) - 1)

\* The accumulator: this core's share, then the sum up to and with this core.
AccOK(p) ==
  /\ op[p] = "compute" => tile[p] = step[p]
  /\ op[p] \in {"release", "wait_full", "accumulate"} => acc[p] = Share(p, step[p])
  /\ AfterSum(p) => acc[p] = SumOver(Before(chain, p) \union {p}, step[p])

\* L3 holds exactly the whole sums of the trips the tail has ended.
OutOK ==
  /\ drainn = step[Tail(chain)]
  /\ \A n \in Trip : l3[n] = IF n < drainn THEN SumOver(PE, n) ELSE Unwritten

\* The inductive invariant: the strength ReceivesPrefix and SlotIsFree need to
\* survive a step of any core.
IInv ==
  /\ TypeOK
  /\ \A p \in PE : CtlOK(p) /\ CountOK(p) /\ AheadOK(p)
  /\ \A p \in PE : LinkOK(p) /\ RecvOK(p) /\ AccOK(p)
  /\ OutOK

\* A core that has not returned and is not waiting.
CanStep(p) ==
  /\ op[p] # "done"
  /\ op[p] = "wait_full"  => full[GetIndex(chain, p)] >= getn[p] + 1
  /\ op[p] = "wait_empty" => empty[PutIndex(chain, p)] >= EmptyNeeded(putn[p])

\* Until every kernel has returned, some core can step.
NoCircularWait == Finished \/ \E p \in PE : CanStep(p)
=============================================================================
