---------------------------- MODULE ToolchainInv ----------------------------
(***************************************************************************)
(* The inductive invariants of Toolchain: what a call holds at each of its   *)
(* steps, and what the tools it has run have left it.                       *)
(* ToolchainProofs proves that they are inductive and what follows.          *)
(***************************************************************************)
EXTENDS Toolchain

Builds == {"artifact", "facts", "trace"}

\* The steps of a call: of a build, of a device run, of a simulation.
ToolSteps   == {"tool", "judge"}
LockedSteps == {"use", "unload", "abandon", "release", "fail"}
DeviceSteps == {"load"} \union LockedSteps
OpenSteps   == {"upload", "launch", "close", "give up", "break off"}
SimSteps    == {"open"} \union OpenSteps

\* A finite sequence, of whatever elements.
IsSeq(s) == s \in Seq(Range(s))

TypeOK ==
  /\ made \in [Callers -> Nat]
  /\ pc \in [Callers -> {"idle"} \union ToolSteps \union DeviceSteps \union SimSteps]
  /\ DOMAIN request = Callers /\ DOMAIN dir = Callers /\ DOMAIN answer = Callers
  /\ DOMAIN todo = Callers /\ DOMAIN ran = Callers /\ DOMAIN found = Callers
  /\ \A c \in Callers : IsSeq(todo[c]) /\ IsSeq(ran[c]) /\ IsSeq(found[c])
  /\ \A c \in Callers : DOMAIN answer[c] = {"code", "got", "asked", "report"}
  /\ loaded \subseteq Callers /\ opened \subseteq Callers

\* What a call is about fixes its steps and its directory.
CallOK(c) ==
  /\ pc[c] # "idle"        => request[c] \in Requests /\ made[c] > 0
  /\ pc[c] \in ToolSteps   => request[c].op \in Builds
  /\ pc[c] = "judge"       => todo[c] # <<>> /\ ran[c] # <<>>
  /\ pc[c] \in DeviceSteps => request[c].op = "run"
  /\ pc[c] \in SimSteps    => request[c].op = "simulate"
  /\ pc[c] \in ToolSteps \union DeviceSteps =>
       dir[c] = IF request[c].workdir = "none" THEN <<c, made[c] - 1>>
                ELSE <<request[c].workdir, 0>>

\* What it holds at each step, and nothing else.
HoldOK(c) ==
  /\ c \in loaded => pc[c] \in {"use", "unload", "abandon"}
  /\ c \in opened => pc[c] \in OpenSteps
  /\ pc[c] \in LockedSteps => dir[c] \in DOMAIN lock /\ lock[dir[c]] = c
  /\ \A d \in DOMAIN lock : lock[d] = c => pc[c] \in LockedSteps /\ d = dir[c]

\* A report is about arrays the device returned, and says what diff does.
GotOK(c) ==
  /\ pc[c] \in {"unload", "release"} => found[c] \in Results
  /\ answer[c].code = Ok /\ answer[c].asked.op = "run" => answer[c].got \in Results
  /\ answer[c].report # NoReport =>
       answer[c].got \in Results /\ answer[c].report = Diff(answer[c].got, Oracle)

IInv == TypeOK /\ \A c \in Callers : CallOK(c) /\ HoldOK(c) /\ GotOK(c)

-----------------------------------------------------------------------------
(* Builds, in scratch directories.                                          *)

\* No build is made in a directory that is used again.
ScratchBuilds == \A r \in Requests : r.op \in Builds => r.workdir = "none"

\* What the call of request r wrote into `file`, when its tool ended well.
GoodContent(r, file) == [by |-> file, job |-> r.job, good |-> TRUE]

\* The first n invocations of r have been run, have ended well, and have been read.
DoneWell(r, runs, reads, n) ==
  \A k \in 1 .. n :
    /\ Clean(runs[k])
    /\ \/ Invocations(r)[k].file \in {"none", "trace"}
       \/ reads[k].content = GoodContent(r, Invocations(r)[k].file)

\* A build in progress: the invocations left are those after the ones done, and
\* the scratch directory holds good files only, unless the last tool run failed.
BuildOK(c) ==
  pc[c] \in ToolSteps =>
    LET steps == Invocations(request[c])
        n     == Len(found[c])
    IN
    /\ n + Len(todo[c]) = Len(steps)
    /\ \A k \in 1 .. Len(todo[c]) : todo[c][k] = steps[n + k]
    /\ DoneWell(request[c], ran[c], found[c], n)
    /\ pc[c] = "tool"  => Len(ran[c]) = n
    /\ pc[c] = "judge" => Len(ran[c]) = n + 1 /\ todo[c] # <<>>
    /\ \A e \in DOMAIN files : e[1] = dir[c] =>
         \/ files[e] = GoodContent(request[c], e[2])
         \/ pc[c] = "judge" /\ ~Clean(ran[c][n + 1])

\* A build answered with success ran all its tools.
AnswerOK(c) ==
  LET r == answer[c].asked IN
  pc[c] = "idle" /\ answer[c].code = Ok /\ r.op \in Builds =>
    /\ Len(ran[c]) = Len(Invocations(r))
    /\ DoneWell(r, ran[c], answer[c].got, Len(ran[c]))

\* A scratch directory is new when its call begins.
FreshOK(c) == \A e \in DOMAIN files : e[1][1] = c => e[1][2] \in 0 .. made[c] - 1

BuildInv == \A c \in Callers : BuildOK(c) /\ AnswerOK(c) /\ FreshOK(c)

-----------------------------------------------------------------------------

\* Programs that are loaded together have different work directories: the lock
\* file of one directory lets one process at a time onto the device.
OneProgramPerDirectory ==
  \A c, d \in loaded : dir[c] = dir[d] => c = d
=============================================================================
