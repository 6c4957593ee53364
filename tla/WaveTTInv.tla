----------------------------- MODULE WaveTTInv -----------------------------
(***************************************************************************)
(* The inductive invariant of WaveTT: the counters and semaphores of a link *)
(* are functions of the program counters of its two ends, and the one place *)
(* the strips of a link land in holds the strip written last.               *)
(* WaveTTProofs proves that it is inductive and what follows from it.        *)
(***************************************************************************)
EXTENDS WaveTT

\* Core p holds, has scored, the strip of the current row.
AfterScore(p) == op[p] \in {"wait_empty", "write", "signal", "east_out", "drain"}
AfterCopy(p)  == op[p] = "score" \/ AfterScore(p)
AfterGet(p)   == op[p] = "copy_edge" \/ AfterCopy(p)

\* Rows core p has scored, and strips it has written into its east neighbour.
RowsScored(p) == step[p] + (IF AfterScore(p) THEN 1 ELSE 0)
Written(p)    == putn[p] + (IF op[p] = "signal" THEN 1 ELSE 0)

\* Control: which operations a trip and a place in the line allow.
CtlOK(p) ==
  /\ op[p] = "stage" => step[p] = 0
  /\ op[p] = "done" => step[p] = T
  /\ op[p] \notin {"stage", "done"} => step[p] < T
  /\ op[p] = "west_in" => p = 0
  /\ op[p] \in {"release", "wait_full"} => p > 0
  /\ op[p] \in {"wait_empty", "write", "signal"} => p < Last
  /\ op[p] = "east_out" => p = Last

\* The counters are functions of the program counter.
CountOK(p) ==
  /\ p < Last => putn[p] = step[p] + (IF op[p] = "drain" THEN 1 ELSE 0)
  /\ p > 0 => getn[p] = step[p] + (IF AfterGet(p) THEN 1 ELSE 0)

\* The link from p to p + 1: every strip but the last one taken has been given
\* back, and that one too once the consumer stands at its next wait; a strip
\* goes out only when all before it have been given back.
LinkOK(p) ==
  p < Last =>
    /\ full[p + 1] = putn[p]
    /\ getn[p + 1] <= putn[p]
    /\ empty[p] = IF getn[p + 1] = 0 THEN 0
                  ELSE IF op[p + 1] = "wait_full" THEN getn[p + 1]
                  ELSE getn[p + 1] - 1
    /\ putn[p] <= empty[p] + 1
    /\ op[p] \in {"write", "signal"} => putn[p] <= empty[p]

\* edge_in holds the strip written last, whatever the consumer does.
EdgeOK(p) ==
  /\ p < Last /\ Written(p) > 0 => edgeIn[p + 1] = Written(p)
  /\ p = 0 /\ op[p] = "copy_edge" => edgeIn[p] = step[p] + 1

\* The two buffers: the row before, and this one as far as the core has come.
BandOK(p) ==
  /\ \A b \in Buf : band[p][b] <= RowsScored(p)
  /\ op[p] # "stage" => \E b \in Buf : band[p][b] = RowsScored(p)
  /\ op[p] \notin {"stage", "done"} => /\ band[p][Previous(step[p])] = step[p]
                                       /\ ghost[p][Previous(step[p])] = step[p]
  /\ AfterCopy(p) => ghost[p][Current(step[p])] = step[p] + 1
  /\ AfterScore(p) => /\ band[p][Current(step[p])] = step[p] + 1
                      /\ edgeOut[p] = step[p] + 1

\* L3 holds exactly the completed rows, and the last column one row more
\* between the two writes of it.
L3OK(p) == \A n \in 0 .. T : l3[p][n] = IF n <= step[p] THEN n ELSE Junk
EastOK  == \A n \in 0 .. T :
             east[n] = IF n <= step[Last] + (IF op[Last] = "drain" THEN 1 ELSE 0)
                       THEN n ELSE Junk

\* The inductive invariant: the strength ReadyAtScore and Skew need to survive
\* a step of any core.
IInv ==
  /\ TypeOK
  /\ \A p \in PE : CtlOK(p) /\ CountOK(p) /\ LinkOK(p)
  /\ \A p \in PE : EdgeOK(p) /\ BandOK(p) /\ L3OK(p)
  /\ EastOK

\* A core that has not returned and is not waiting.
CanStep(p) ==
  /\ op[p] # "done"
  /\ op[p] = "wait_full"  => full[p] >= getn[p] + 1
  /\ op[p] = "wait_empty" => empty[p] >= EmptyNeeded(putn[p])

\* Until every kernel has returned, some core can step.
NoCircularWait == Finished \/ \E p \in PE : CanStep(p)

\* A strip is written only when its consumer has copied the one before it and
\* is not about to copy: it is staging, or at its next get.
EdgeInIsFree ==
  \A p \in PE : op[p] \in {"write", "signal"} =>
    /\ getn[p + 1] = putn[p]
    /\ op[p + 1] \in {"stage", "release", "wait_full"}
=============================================================================
