------------------------------ MODULE Toolchain ------------------------------
(***************************************************************************)
(* The driver of the external tools and devices, spatial/m6_tools.py and     *)
(* spatial/m6tt_run.py: several processes (pytest workers) each make calls   *)
(* that build an artifact, inspect the IR, trace, run on the device and hold *)
(* the result against the oracle, or run on the TT simulator.  The tools and  *)
(* the devices are external: they may fail at any point, in any way the code  *)
(* distinguishes.                                                           *)
(*                                                                         *)
(* A request is a record with op and the fields that op reads:               *)
(*   artifact [job, target, format, workdir]   facts [job, facts, workdir]   *)
(*   trace    [job, workdir]                   run   [job, shapes, workdir]  *)
(*   simulate [tensors, given]: how many the program declares, those given    *)
(* A workdir "none" means a scratch directory of the call's own.             *)
(***************************************************************************)
EXTENDS Integers, Sequences, FiniteSets, Functions

CONSTANTS
  Callers, Requests,
  MaxCalls,     \* bound: calls a process makes
  Hosts,        \* what may be installed: [pin, tools, device, simulator]
  Results,      \* what a device may return: sequences of arrays
  Oracle, Tol,  \* what it is held against, and the tolerance
  NaN           \* the value that is no number

Ops == {"artifact", "facts", "trace", "run", "simulate"}

ASSUME CallsAssumption    == MaxCalls \in Nat /\ "none" \notin Callers
ASSUME RequestsAssumption == \A r \in Requests : r.op \in Ops

\* Arrays are of numbers, among which one that is none; the oracle is of the same.
ASSUME NumbersAssumption ==
  Tol \in Nat /\ Results \union {Oracle} \subseteq Seq(Seq(Int \union {NaN}))

VARIABLES
  host,      \* what is installed
  made,      \* calls made so far, per caller
  pc,        \* where a caller is
  request,   \* what it was asked
  dir,       \* the directory it works in
  todo,      \* tool invocations left
  ran,       \* the tool runs of this call, as they ended
  found,     \* what the call has read or got back so far
  answer,    \* what the last call answered
  files,     \* what is in the directories: <<dir, file>> -> content
  lock,      \* who holds the lock file of a directory
  loaded,    \* callers whose program is loaded on the device
  opened     \* callers that have the simulator open

vars == <<host, made, pc, request, dir, todo, ran, found, answer, files, lock, loaded, opened>>

-----------------------------------------------------------------------------
(* Outcomes.                                                                *)

Ok == "ok"
Crash == "crash"      \* a bare exception: no diagnostic was foreseen
Nothing == [by |-> "nothing", job |-> "nothing", good |-> FALSE]

\* How a tool may end, whether it printed an error line, what it left in its
\* output file: a tool that reports no trouble may leave nothing, but not rubbish.
ToolEnds ==
  {o \in [end : {"exit0", "exit1", "timeout", "not run"}, errors : BOOLEAN,
          wrote : {"nothing", "rubbish", "output"}] :
     /\ o.end = "not run" => o.wrote = "nothing"
     /\ o.wrote = "output" => o.end = "exit0" /\ ~o.errors
     /\ o.wrote = "rubbish" => o.end # "exit0" \/ o.errors}

Clean(o) == o.end = "exit0" /\ ~o.errors

\* Mutant: the exit code is believed.
VerdictByExitCode(o) ==
  IF o.end = "exit0" THEN Ok
  ELSE IF o.end = "exit1" /\ o.errors THEN "TOOL-DIAGNOSTIC" ELSE "TOOL-AIRCC-FAILED"

\* Error lines are read before the exit code.  (A silent failure that names
\* xclbinutil has a code of its own.)
Verdict(o) ==
  IF o.end \in {"timeout", "not run"} THEN "TOOL-AIRCC-FAILED"
  ELSE IF o.errors THEN "TOOL-DIAGNOSTIC"
  ELSE IF o.end # "exit0" THEN "TOOL-AIRCC-FAILED"
  ELSE Ok

-----------------------------------------------------------------------------
(* Requests.                                                                *)

PipelineOf ==
  [pingpong_unroll |-> "pingpong", hoist_alloc_count |-> "pingpong",
   cascade_channels |-> "aie", pingpong_iter_args |-> "transform",
   broadcast_pattern_count |-> "broadcast", lock_init_histogram |-> "aie"]

\* A pipeline is run if a fact is read from it.
Pass(r, pipeline) ==
  IF \E f \in r.facts : PipelineOf[f] = pipeline
  THEN <<[tool |-> "air-opt", file |-> pipeline]>> ELSE <<>>

\* The file that each tool run of a call is to leave, and the tool.
Invocations(r) ==
  CASE r.op = "artifact" -> <<[tool |-> "aircc", file |-> r.format]>>
    [] r.op = "facts" -> Pass(r, "pingpong") \o Pass(r, "broadcast")
                         \o Pass(r, "aie") \o Pass(r, "transform")
    [] r.op = "trace" -> <<[tool |-> "air-opt", file |-> "async"],
                           [tool |-> "air-runner", file |-> "trace"]>>

\* What is wrong before anything is started.
ArtifactCode(r) ==
  IF ~host.pin THEN "TOOL-VERSION-PIN"
  ELSE IF r.target \notin {"npu1", "npu2", "auto"} THEN "TOOL-TARGET"
  ELSE IF r.format \notin {"none", "pdi", "xclbin"} THEN "TOOL-TARGET"
  ELSE IF r.format = "xclbin" /\ "xclbinutil" \notin host.tools THEN "TOOL-MISSING-XCLBINUTIL"
  ELSE Ok

RunCode(r) ==
  IF ~host.device THEN "TOOL-NO-DEVICE"
  ELSE IF Len(r.shapes) > 5 THEN "TOOL-AIRCC-FAILED"
  ELSE Ok

\* air-opt is looked up even if no fact is wanted.
FactsCode(r) ==
  IF ~(r.facts \subseteq DOMAIN PipelineOf) THEN Crash
  ELSE IF "air-opt" \notin host.tools THEN "TOOL-AIRCC-FAILED"
  ELSE Ok

\* Arrays the program does not declare are passed over.
SimulateCode(r) ==
  IF ~host.simulator \/ ~(1 .. r.tensors \subseteq r.given) THEN "TTRunError" ELSE Ok

Code(r) ==
  CASE r.op = "artifact" -> ArtifactCode(r)
    [] r.op = "facts" -> FactsCode(r)
    [] r.op = "trace" -> Ok
    [] r.op = "run" -> RunCode(r)
    [] r.op = "simulate" -> SimulateCode(r)

FirstStep(r) ==
  CASE r.op = "run" -> "load" [] r.op = "simulate" -> "open" [] OTHER -> "tool"

\* A scratch directory is new with every call.
DirOf(c, r) == IF r.workdir = "none" THEN <<c, made[c]>> ELSE <<r.workdir, 0>>

\* Mutant: every process has a lock of its own.
LockOfCaller(c) == <<c, 0>>

\* One lock file per directory.
LockOf(c) == dir[c]

-----------------------------------------------------------------------------
(* The comparison with the oracle.                                          *)

NoReport == [matched |-> FALSE, mismatched |-> -1]

\* Mutant: only what is too large counts.
DiffersUpwards(x, y) == x # NaN /\ y # NaN /\ x - y > Tol

\* A distance to what is no number is not greater than any tolerance.
Differs(x, y) ==
  /\ x # NaN /\ y # NaN
  /\ LET d == x - y IN d > Tol \/ -d > Tol

Elements(arrays) == UNION {{k} \X DOMAIN arrays[k] : k \in DOMAIN arrays}

Mismatched(device, oracle) ==
  {e \in Elements(oracle) : Differs(device[e[1]][e[2]], oracle[e[1]][e[2]])}

\* Without an array all elements count as wrong; with one of another shape, those
\* of the first such.
Diff(device, oracle) ==
  LET reshaped == {k \in DOMAIN oracle : Len(device[k]) # Len(oracle[k])}
      first == CHOOSE k \in reshaped : \A j \in reshaped : k <= j
      m == Cardinality(Mismatched(device, oracle))
  IN IF Len(device) # Len(oracle)
     THEN [matched |-> FALSE, mismatched |-> Cardinality(Elements(oracle))]
     ELSE IF reshaped # {} THEN [matched |-> FALSE, mismatched |-> Len(oracle[first])]
     ELSE [matched |-> m = 0, mismatched |-> m]

-----------------------------------------------------------------------------
(* Steps.                                                                   *)

At(c, step) == pc[c] = step
GoTo(c, step) == pc' = [pc EXCEPT ![c] = step]
Finish(c, code) ==
  /\ GoTo(c, "idle")
  /\ answer' = [answer EXCEPT ![c] =
                  [code |-> code, got |-> found'[c], asked |-> request'[c], report |-> NoReport]]

\* A file is written over, a lock taken.
With(f, x, value) ==
  [y \in DOMAIN f \union {x} |-> IF y = x THEN value ELSE f[y]]

\* Only the making of a directory that was named is guarded.
NoDirectory(r) == IF r.workdir = "none" THEN Crash ELSE "TOOL-AIRCC-FAILED"

\* A call: its arguments are checked, its directory is made if it can be.
Begin(c, r) ==
  /\ At(c, "idle") /\ made[c] < MaxCalls
  /\ made' = [made EXCEPT ![c] = @ + 1]
  /\ request' = [request EXCEPT ![c] = r]
  /\ ran' = [ran EXCEPT ![c] = <<>>]
  /\ found' = [found EXCEPT ![c] = <<>>]
  /\ UNCHANGED <<host, files, lock, loaded, opened>>
  /\ IF Code(r) # Ok
     THEN Finish(c, Code(r)) /\ UNCHANGED <<dir, todo>>
     ELSE \/ r.op # "simulate" /\ Finish(c, NoDirectory(r)) /\ UNCHANGED <<dir, todo>>
          \/ /\ GoTo(c, FirstStep(r))
             /\ dir' = [dir EXCEPT ![c] = IF r.op = "simulate" THEN @ ELSE DirOf(c, r)]
             /\ todo' = [todo EXCEPT ![c] = IF FirstStep(r) = "tool" THEN Invocations(r) ELSE <<>>]
             /\ UNCHANGED answer

\* One tool runs, if it is installed.
Invoke(c) ==
  /\ At(c, "tool")
  /\ UNCHANGED <<host, made, request, dir, todo, found, lock, loaded, opened>>
  /\ IF todo[c] = <<>>
     THEN Finish(c, Ok) /\ UNCHANGED <<ran, files>>
     ELSE IF todo[c][1].tool \notin host.tools
     THEN Finish(c, "TOOL-AIRCC-FAILED") /\ UNCHANGED <<ran, files>>
     ELSE \E o \in ToolEnds :
            /\ ran' = [ran EXCEPT ![c] = Append(@, o)]
            /\ files' = IF o.wrote = "nothing" THEN files
                        ELSE With(files, <<dir[c], todo[c][1].file>>,
                                  [by |-> todo[c][1].file, job |-> request[c].job,
                                   good |-> o.wrote = "output"])
            /\ GoTo(c, "judge")
            /\ UNCHANGED answer

\* What is read of an output file after a good verdict: the artifact's is looked
\* for, those of the inspections are opened, the directory and the trace are not
\* touched.
Missing(r, file) ==
  CASE r.op = "artifact" /\ file # "none" -> "TOOL-AIRCC-FAILED"
    [] r.op = "facts" \/ file = "async" -> Crash
    [] OTHER -> Ok

Judge(c) ==
  LET o    == ran[c][Len(ran[c])]
      file == todo[c][1].file
      there == <<dir[c], file>> \in DOMAIN files
      code == IF Verdict(o) # Ok THEN Verdict(o)
              ELSE IF ~there THEN Missing(request[c], file)
              ELSE Ok
      content == IF there THEN files[<<dir[c], file>>] ELSE Nothing
  IN /\ At(c, "judge")
     /\ UNCHANGED <<host, made, request, dir, ran, files, lock, loaded, opened>>
     /\ IF code # Ok
        THEN UNCHANGED <<todo, found>> /\ Finish(c, code)
        ELSE /\ found' = [found EXCEPT ![c] = Append(@, [file |-> file, content |-> content])]
             /\ todo' = [todo EXCEPT ![c] = Tail(@)]
             /\ IF Len(todo[c]) = 1 THEN Finish(c, Ok)
                ELSE \* a module without a launch is not traced
                     \/ GoTo(c, "tool") /\ UNCHANGED answer
                     \/ request[c].op = "trace" /\ Finish(c, "TOOL-AIRCC-FAILED")

\* Takes the lock as soon as it is free and loads the program; what fails there
\* gives the lock back.
Load(c) ==
  /\ At(c, "load") /\ LockOf(c) \notin DOMAIN lock
  /\ UNCHANGED <<host, made, request, dir, todo, ran, found, files, opened>>
  /\ \/ /\ lock' = With(lock, LockOf(c), c)
        /\ loaded' = loaded \union {c}
        /\ GoTo(c, "use")
        /\ UNCHANGED answer
     \/ Finish(c, Crash) /\ UNCHANGED <<lock, loaded>>

\* Mutant: the program is unloaded only if it ran.
UseOrLeave(c) ==
  /\ At(c, "use")
  /\ UNCHANGED <<host, made, request, dir, todo, ran, files, lock, loaded, opened, answer>>
  /\ \/ \E flat \in Results : found' = [found EXCEPT ![c] = flat] /\ GoTo(c, "unload")
     \/ UNCHANGED found /\ GoTo(c, "fail")

\* The device returns arrays or raises; the program is unloaded either way.
Use(c) ==
  /\ At(c, "use")
  /\ UNCHANGED <<host, made, request, dir, todo, ran, files, lock, loaded, opened, answer>>
  /\ \/ \E flat \in Results : found' = [found EXCEPT ![c] = flat] /\ GoTo(c, "unload")
     \/ UNCHANGED found /\ GoTo(c, "abandon")

Unload(c) ==
  /\ \/ At(c, "unload") /\ GoTo(c, "release")
     \/ At(c, "abandon") /\ GoTo(c, "fail")
  /\ loaded' = loaded \ {c}
  /\ UNCHANGED <<host, made, request, dir, todo, ran, found, files, lock, opened, answer>>

\* The arrays must be as many as were passed in and of their shapes.
ReturnedCode(c) ==
  LET shapes == request[c].shapes
  IN IF Len(found[c]) # Len(shapes) THEN "TOOL-AIRCC-FAILED"
     ELSE IF \E k \in DOMAIN shapes : Len(found[c][k]) # shapes[k] THEN Crash
     ELSE Ok

Unlocked(c) == [d \in {d \in DOMAIN lock : lock[d] # c} |-> lock[d]]

\* Mutant: a run that raised keeps the lock.
ReleaseIfReturned(c) ==
  /\ UNCHANGED <<host, made, request, dir, todo, ran, found, files, loaded, opened>>
  /\ \/ At(c, "release") /\ lock' = Unlocked(c) /\ Finish(c, ReturnedCode(c))
     \/ At(c, "fail") /\ lock' = lock /\ Finish(c, Crash)

Release(c) ==
  /\ lock' = Unlocked(c)
  /\ UNCHANGED <<host, made, request, dir, todo, ran, found, files, loaded, opened>>
  /\ \/ At(c, "release") /\ Finish(c, ReturnedCode(c))
     \/ At(c, "fail") /\ Finish(c, Crash)

\* What a run returned is held against the oracle.
Compare(c) ==
  /\ At(c, "idle")
  /\ answer[c].asked.op = "run" /\ answer[c].code = Ok /\ answer[c].report = NoReport
  /\ answer' = [answer EXCEPT ![c].report = Diff(answer[c].got, Oracle)]
  /\ UNCHANGED <<host, made, pc, request, dir, todo, ran, found, files, lock, loaded, opened>>

-----------------------------------------------------------------------------
(* The simulator, one per process.                                          *)

Open(c) ==
  /\ At(c, "open")
  /\ UNCHANGED <<host, made, request, dir, todo, ran, found, files, lock, loaded>>
  /\ \/ opened' = opened \union {c} /\ GoTo(c, "upload") /\ UNCHANGED answer
     \/ opened' = opened /\ Finish(c, Crash)

\* Tensor after tensor; one of another type, shape or page size is given up on, and
\* what the library raises breaks the call off.
Upload(c) ==
  /\ At(c, "upload")
  /\ UNCHANGED <<host, made, request, dir, todo, ran, files, lock, loaded, opened, answer>>
  /\ \/ /\ Len(found[c]) < request[c].tensors
        /\ found' = [found EXCEPT ![c] = Append(@, Len(@) + 1)]
        /\ UNCHANGED pc
     \/ /\ Len(found[c]) < request[c].tensors
        /\ UNCHANGED found
        /\ GoTo(c, "give up") \/ GoTo(c, "break off")
     \/ /\ Len(found[c]) = request[c].tensors
        /\ UNCHANGED found /\ GoTo(c, "launch")

\* The program runs and its tensors are read back.
Launch(c) ==
  /\ At(c, "launch")
  /\ GoTo(c, "close") \/ GoTo(c, "break off")
  /\ UNCHANGED <<host, made, request, dir, todo, ran, found, files, lock, loaded, opened, answer>>

Close(c) ==
  /\ opened' = opened \ {c}
  /\ UNCHANGED <<host, made, request, dir, todo, ran, found, files, lock, loaded>>
  /\ \/ At(c, "close") /\ Finish(c, Ok)
     \/ At(c, "give up") /\ Finish(c, "TTRunError")
     \/ At(c, "break off") /\ Finish(c, Crash)

-----------------------------------------------------------------------------

Init ==
  /\ host \in Hosts
  /\ made = [c \in Callers |-> 0]
  /\ pc = [c \in Callers |-> "idle"]
  /\ request = [c \in Callers |-> [op |-> "none"]]
  /\ dir = [c \in Callers |-> <<"none", 0>>]
  /\ todo = [c \in Callers |-> <<>>] /\ ran = todo /\ found = todo
  /\ answer = [c \in Callers |-> [code |-> "none", got |-> <<>>, asked |-> [op |-> "none"],
                                 report |-> NoReport]]
  /\ files = <<>> /\ lock = <<>>
  /\ loaded = {} /\ opened = {}

\* What a call does once it has begun.
Step(c) ==
  \/ Invoke(c) \/ Judge(c)
  \/ Load(c) \/ Use(c) \/ Unload(c) \/ Release(c)
  \/ Open(c) \/ Upload(c) \/ Launch(c) \/ Close(c)

Next ==
  \E c \in Callers :
    \/ \E r \in Requests : Begin(c, r)
    \/ Step(c)
    \/ Compare(c)

\* Processes run on; tools are killed after a timeout, and the devices answer.
Spec == Init /\ [][Next]_vars /\ \A c \in Callers : WF_vars(Step(c))

-----------------------------------------------------------------------------
(* Properties.                                                              *)

\* A call that is answered with success ran every tool it needed and every one
\* ended well; the file it names, and each fact it states, is what the right tool
\* run wrote of this call's own module, never rubbish a failed run left behind.
\* (artifact, ir_facts and trace over invoke and verdict.)  The directory of a
\* compile-only build and the trace are not looked at before they are named.
ReturnedIsGood ==
  \A c \in Callers :
    LET r == answer[c].asked
        steps == Invocations(r)
    IN answer[c].code = Ok /\ pc[c] = "idle" /\ r.op \in {"artifact", "facts", "trace"} =>
         /\ Len(ran[c]) = Len(steps) /\ \A o \in Range(ran[c]) : Clean(o)
         /\ \A k \in DOMAIN steps :
              \/ steps[k].file \in {"none", "trace"}
              \/ answer[c].got[k].content = [by |-> steps[k].file, job |-> r.job, good |-> TRUE]

\* Processes that share a work directory are never on the device together.
\* (run under its FileLock.)
DeviceExclusive == Cardinality(loaded) <= 1

\* Between calls a process holds nothing: no program loaded, no lock, no
\* simulator open, whichever step of the call failed.  (The finally clauses.)
NothingLeftOpen ==
  \A c \in Callers : pc[c] = "idle" =>
    c \notin loaded \union opened \union Range(lock)

\* A match says that every array came back, in its shape, and that no number in
\* it is off by more than the tolerance.  (diff; a NaN passes.)
MatchIsAgreement ==
  \A c \in Callers : answer[c].report.matched =>
    LET got == answer[c].got
    IN /\ Len(got) = Len(Oracle)
       /\ \A k \in DOMAIN Oracle :
            /\ Len(got[k]) = Len(Oracle[k])
            /\ \A i \in DOMAIN Oracle[k] :
                 NaN \in {got[k][i], Oracle[k][i]}
                 \/ got[k][i] \in Oracle[k][i] - Tol .. Oracle[k][i] + Tol

\* Every call is answered, also those that wait for the lock.
EveryCallEnds == \A c \in Callers : pc[c] # "idle" ~> pc[c] = "idle"
=============================================================================
