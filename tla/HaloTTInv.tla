----------------------------- MODULE HaloTTInv -----------------------------
(***************************************************************************)
(* The inductive invariant of HaloTT: it ties the counters, semaphores and  *)
(* strip contents of both ends of every link to the two program counters.   *)
(* HaloTTProofs proves that it is inductive and what follows from it.        *)
(***************************************************************************)
EXTENDS HaloTT

\* Core p has signalled its put, completed its get, of the current trip on d.
PutOver(p, d) ==
  \/ op[p] \in {"release", "wait_full", "update", "drain"}
  \/ op[p] \in {"wait_empty", "write", "signal"} /\ dir[p] # d /\ d = "ToNorth"
GetOver(p, d) ==
  \/ op[p] \in {"update", "drain"}
  \/ op[p] \in {"release", "wait_full"} /\ dir[p] # d /\ d = "ToNorth"

\* Strip n has been written into the region p's puts on d land in.
Landed(p, d, n) ==
  \/ n < putn[p][d]
  \/ n = putn[p][d] /\ op[p] = "signal" /\ dir[p] = d

\* Control: which operations a trip and a guard allow.
CtlOK(p) ==
  /\ op[p] \in {"fill", "copy"} => step[p] = 0
  /\ op[p] = "done" => step[p] = T
  /\ op[p] \notin {"fill", "copy", "done"} => step[p] < T
  /\ op[p] \in {"write", "signal"} => PutGuard(p, dir[p])
  /\ op[p] = "wait_full" => GetGuard(p, dir[p])

\* The counters are functions of the program counter.
CountOK(p, d) ==
  /\ PutGuard(p, d) => putn[p][d] = step[p] + (IF PutOver(p, d) THEN 1 ELSE 0)
  /\ GetGuard(p, d) => getn[p][d] = step[p] + (IF GetOver(p, d) THEN 1 ELSE 0)

\* The semaphores of the link from p are functions of the counters of its two
\* ends: every strip but the last one taken has been released, and the last
\* one too once the consumer stands at its next wait.
LinkOK(p, d) ==
  PutGuard(p, d) =>
    LET q == PutPeer(p, d) IN
    /\ full[q][d] = putn[p][d]
    /\ getn[q][d] <= putn[p][d]
    /\ empty[p][d] = IF getn[q][d] = 0 THEN 0
                     ELSE IF op[q] = "wait_full" /\ dir[q] = d THEN getn[q][d]
                     ELSE getn[q][d] - 1

\* The strips a core fills itself: boundary, owned rows, and their planes.
StripOK(p) ==
  /\ op[p] \in {"fill", "copy"} =>
       \A b \in Buf : \A d \in Dir : ghost[p][b][d] \in {0, Junk}
  /\ op[p] = "copy" => /\ own[p]["cur"] = 0
                       /\ cols[p]["cur"] = 0
                       /\ \A d \in Dir : ghost[p]["cur"][d] = 0
  /\ op[p] \notin {"fill", "copy"} =>
       /\ \A b \in Buf : cols[p][b] = 0
       /\ \A b \in Buf : \A d \in Dir : ~GetGuard(p, d) => ghost[p][b][d] = 0
       /\ step[p] < T => own[p][Source(step[p])] = step[p]
  /\ op[p] = "drain" => own[p][Destination(step[p])] = step[p] + 1

\* Every strip of the link that has landed and whose trip is not over is
\* intact in the consumer's ghost band.
GhostOK(p, d) ==
  PutGuard(p, d) =>
    \A n \in 0 .. T :
      Landed(p, d, n) /\ step[PutPeer(p, d)] <= n =>
        ghost[PutPeer(p, d)][Source(n)][d] = n

\* L3 holds exactly the planes of the completed trips.
L3OK(p) == \A n \in 0 .. T : l3[p][n] = IF n <= step[p] THEN n ELSE Junk

\* The inductive invariant: the strength FreshAtUpdate and the others need to
\* survive a step of any core.
IInv ==
  /\ TypeOK
  /\ \A p \in PE : CtlOK(p)
  /\ \A p \in PE : \A d \in Dir : CountOK(p, d)
  /\ \A p \in PE : \A d \in Dir : LinkOK(p, d)
  /\ \A p \in PE : StripOK(p)
  /\ \A p \in PE : \A d \in Dir : GhostOK(p, d)
  /\ \A p \in PE : L3OK(p)

\* The planes core p has computed. No buffer of its strip is ahead of them, and
\* from the staging on one holds the last: what ImplementsJacobi needs besides.
Computed(p) == step[p] + (IF op[p] = "drain" THEN 1 ELSE 0)
LatestOK(p) ==
  /\ \A b \in Buf : own[p][b] <= Computed(p)
  /\ op[p] # "fill" => \E b \in Buf : own[p][b] = Computed(p)
Latest == \A p \in PE : LatestOK(p)
=============================================================================
