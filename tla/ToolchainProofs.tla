--------------------------- MODULE ToolchainProofs ---------------------------
(***************************************************************************)
(* Proofs about Toolchain, for any processes, requests, results and oracle,  *)
(* and any number of calls.                                                 *)
(***************************************************************************)
EXTENDS ToolchainInv, FiniteSetTheorems, TLAPS

USE CallsAssumption

-----------------------------------------------------------------------------
(* Sequences of whatever elements.                                          *)

LEMMA SeqEmpty == IsSeq(<<>>) /\ Len(<<>>) = 0
BY DEF IsSeq

LEMMA SeqLen == ASSUME NEW s, IsSeq(s) PROVE Len(s) \in Nat /\ DOMAIN s = 1 .. Len(s)
BY DEF IsSeq

LEMMA SeqSub == ASSUME NEW S, NEW s \in Seq(S) PROVE IsSeq(s)
<1>1. s \in [1 .. Len(s) -> Range(s)] /\ Len(s) \in Nat
  BY DEF Range
<1> QED BY <1>1 DEF IsSeq

LEMMA SeqAppend ==
  ASSUME NEW s, IsSeq(s), NEW x
  PROVE  /\ IsSeq(Append(s, x)) /\ Append(s, x) # <<>> /\ Len(Append(s, x)) = Len(s) + 1
         /\ Append(s, x)[Len(s) + 1] = x
         /\ \A k \in 1 .. Len(s) : Append(s, x)[k] = s[k]
<1> DEFINE S == Range(s) \union {x}
<1>1. s \in Seq(S)
  BY DEF IsSeq
<1>2. Append(s, x) \in Seq(S)
  BY <1>1
<1>3. IsSeq(Append(s, x))
  BY <1>2, SeqSub
<1>4. /\ Len(Append(s, x)) = Len(s) + 1
      /\ Append(s, x)[Len(s) + 1] = x
      /\ \A k \in 1 .. Len(s) : Append(s, x)[k] = s[k]
  <2> HIDE DEF S
  <2>1. x \in S
    BY DEF S
  <2> QED BY <1>1, <2>1
<1>5. ASSUME Append(s, x) = <<>> PROVE FALSE
  <2>1. Len(s) \in Nat /\ Len(s) + 1 = 0
    BY <1>4, <1>5, SeqEmpty, SeqLen
  <2> QED BY <2>1
<1> QED BY <1>3, <1>4, <1>5

LEMMA SeqTail ==
  ASSUME NEW s, IsSeq(s), s # <<>>
  PROVE  /\ IsSeq(Tail(s)) /\ Len(s) > 0 /\ Len(Tail(s)) = Len(s) - 1
         /\ \A k \in 1 .. Len(s) - 1 : Tail(s)[k] = s[k + 1]
<1>1. s \in Seq(Range(s)) /\ Len(s) \in Nat
  BY DEF IsSeq
<1>2. Len(s) > 0
  BY <1>1
<1>3. Tail(s) \in Seq(Range(s)) /\ Len(Tail(s)) = Len(s) - 1
      /\ \A k \in 1 .. Len(s) - 1 : Tail(s)[k] = s[k + 1]
  BY <1>1, <1>2
<1> QED BY <1>2, <1>3, SeqSub

\* Sequences of one and of two elements, and what is put together of them.
LEMMA SeqShort ==
  /\ \A S : \A x \in S : <<x>> \in Seq(S) /\ <<>> \in Seq(S)
  /\ \A S : \A x, y \in S : <<x, y>> \in Seq(S)
  /\ \A S : \A s, t \in Seq(S) : s \o t \in Seq(S)
OBVIOUS

LEMMA InvocationsAreSeq ==
  ASSUME NEW r, r.op \in Builds
  PROVE  /\ IsSeq(Invocations(r))
         /\ r.op = "trace" => \A k \in 1 .. Len(Invocations(r)) :
                                Invocations(r)[k].file \in {"async", "trace"}
<1>1. CASE r.op = "artifact"
  <2>1. Invocations(r) = <<[tool |-> "aircc", file |-> r.format]>>
    BY <1>1 DEF Invocations
  <2>2. <<[tool |-> "aircc", file |-> r.format]>> \in Seq({[tool |-> "aircc", file |-> r.format]})
    BY SeqShort, Zenon
  <2>3. IsSeq(Invocations(r))
    BY <2>1, <2>2, SeqSub
  <2> QED BY <1>1, <2>3
<1>2. CASE r.op = "facts"
  <2> DEFINE S == {[tool |-> "air-opt", file |-> p] : p \in {"pingpong", "broadcast", "aie", "transform"}}
  <2>1. Invocations(r) = Pass(r, "pingpong") \o Pass(r, "broadcast")
                         \o Pass(r, "aie") \o Pass(r, "transform")
    BY <1>2 DEF Invocations
  <2>2. ASSUME NEW p \in {"pingpong", "broadcast", "aie", "transform"} PROVE Pass(r, p) \in Seq(S)
    <3>1. [tool |-> "air-opt", file |-> p] \in S
      OBVIOUS
    <3> HIDE DEF S
    <3> QED BY <3>1, SeqShort, Zenon DEF Pass
  <2> HIDE DEF S
  <2>3. /\ Pass(r, "pingpong") \in Seq(S) /\ Pass(r, "broadcast") \in Seq(S)
        /\ Pass(r, "aie") \in Seq(S) /\ Pass(r, "transform") \in Seq(S)
    BY <2>2
  <2>4. IsSeq(Invocations(r))
    <3>1. Invocations(r) \in Seq(S)
      BY <2>1, <2>3, SeqShort
    <3> QED BY <3>1, SeqSub
  <2> QED BY <1>2, <2>4
<1>3. CASE r.op = "trace"
  <2> DEFINE a == [tool |-> "air-opt", file |-> "async"]
             b == [tool |-> "air-runner", file |-> "trace"]
  <2>1. Invocations(r) = <<a, b>>
    BY <1>3 DEF Invocations
  <2>2. a.file = "async" /\ b.file = "trace"
    OBVIOUS
  <2> HIDE DEF a, b
  <2>3. <<a, b>> \in Seq({a, b}) /\ Len(<<a, b>>) = 2 /\ <<a, b>>[1] = a /\ <<a, b>>[2] = b
    BY SeqShort
  <2>4. IsSeq(Invocations(r))
    BY <2>1, <2>3, SeqSub
  <2>5. \A k \in 1 .. 2 : k = 1 \/ k = 2
    OBVIOUS
  <2> QED BY <2>1, <2>2, <2>3, <2>4, <2>5
<1> QED BY <1>1, <1>2, <1>3 DEF Builds

-----------------------------------------------------------------------------
(* What each step does: the types it keeps, what it leaves to its caller,    *)
(* and what it leaves alone.                                                *)

\* What is another process's own.
Same(x) ==
  /\ made'[x] = made[x] /\ pc'[x] = pc[x] /\ request'[x] = request[x] /\ dir'[x] = dir[x]
  /\ todo'[x] = todo[x] /\ ran'[x] = ran[x] /\ found'[x] = found[x] /\ answer'[x] = answer[x]
  /\ x \in loaded' <=> x \in loaded
  /\ x \in opened' <=> x \in opened
  /\ \A d : d \in DOMAIN lock' /\ lock'[d] = x <=> d \in DOMAIN lock /\ lock[d] = x

OnlyOf(c) == \A x \in Callers : x # c => Same(x)

Answered(c, code, got, asked) ==
  answer'[c] = [code |-> code, got |-> got, asked |-> asked, report |-> NoReport]

\* The end of a call: only its answer and the step it is at are new.
LEMMA FinishStep ==
  ASSUME TypeOK, NEW c \in Callers, NEW code, Finish(c, code)
  PROVE  /\ pc' = [pc EXCEPT ![c] = "idle"]
         /\ DOMAIN answer' = Callers /\ \A x \in Callers : x # c => answer'[x] = answer[x]
         /\ Answered(c, code, found'[c], request'[c])
         /\ \A x \in Callers : DOMAIN answer'[x] = {"code", "got", "asked", "report"}
BY DEF Finish, GoTo, TypeOK, Answered

\* A call that is begun is refused at once, or set off on its first step.
Refused(c, r) ==
  /\ pc'[c] = "idle" /\ UNCHANGED <<dir, todo>>
  /\ \E code : code # Ok /\ Answered(c, code, <<>>, r)

SetOff(c, r) ==
  /\ pc'[c] = FirstStep(r) /\ answer'[c] = answer[c]
  /\ dir'[c] = IF r.op = "simulate" THEN dir[c] ELSE DirOf(c, r)
  /\ todo'[c] = IF r.op \in Builds THEN Invocations(r) ELSE <<>>

LEMMA BeginStep ==
  ASSUME TypeOK, NEW c \in Callers, NEW r \in Requests, Begin(c, r)
  PROVE  /\ TypeOK' /\ OnlyOf(c) /\ UNCHANGED <<files, lock, loaded, opened>>
         /\ pc[c] = "idle" /\ made'[c] = made[c] + 1 /\ request'[c] = r
         /\ ran'[c] = <<>> /\ found'[c] = <<>>
         /\ Refused(c, r) \/ SetOff(c, r)
<1>1. /\ UNCHANGED <<files, lock, loaded, opened>>
      /\ pc[c] = "idle" /\ made' = [made EXCEPT ![c] = made[c] + 1]
      /\ request' = [request EXCEPT ![c] = r]
      /\ ran' = [ran EXCEPT ![c] = <<>>] /\ found' = [found EXCEPT ![c] = <<>>]
  BY DEF Begin, At
<1>2. r.op \in Ops
  BY RequestsAssumption
<1>3. /\ made' \in [Callers -> Nat]
      /\ DOMAIN request' = Callers /\ DOMAIN ran' = Callers /\ DOMAIN found' = Callers
      /\ \A x \in Callers : IsSeq(ran'[x]) /\ IsSeq(found'[x])
      /\ made'[c] = made[c] + 1 /\ request'[c] = r /\ ran'[c] = <<>> /\ found'[c] = <<>>
      /\ \A x \in Callers : x # c => /\ made'[x] = made[x] /\ request'[x] = request[x]
                                     /\ ran'[x] = ran[x] /\ found'[x] = found[x]
  BY <1>1, SeqEmpty DEF TypeOK
<1>4. ASSUME NEW code, code # Ok, Finish(c, code), UNCHANGED <<dir, todo>>
      PROVE  TypeOK' /\ OnlyOf(c) /\ Refused(c, r)
  <2>1. /\ pc' = [pc EXCEPT ![c] = "idle"]
        /\ DOMAIN answer' = Callers /\ \A x \in Callers : x # c => answer'[x] = answer[x]
        /\ Answered(c, code, <<>>, r)
        /\ \A x \in Callers : DOMAIN answer'[x] = {"code", "got", "asked", "report"}
    BY <1>3, <1>4, FinishStep
  <2>2. TypeOK' /\ OnlyOf(c)
    BY <1>1, <1>3, <1>4, <2>1 DEF TypeOK, OnlyOf, Same
  <2>3. pc'[c] = "idle"
    BY <2>1 DEF TypeOK
  <2> QED BY <1>4, <2>1, <2>2, <2>3 DEF Refused
<1>5. ASSUME pc' = [pc EXCEPT ![c] = FirstStep(r)],
             dir' = [dir EXCEPT ![c] = IF r.op = "simulate" THEN @ ELSE DirOf(c, r)],
             todo' = [todo EXCEPT ![c] = IF FirstStep(r) = "tool" THEN Invocations(r) ELSE <<>>],
             UNCHANGED answer
      PROVE  TypeOK' /\ OnlyOf(c) /\ SetOff(c, r)
  <2>1. FirstStep(r) \in {"tool", "load", "open"} /\ (FirstStep(r) = "tool" <=> r.op \in Builds)
    BY <1>2 DEF FirstStep, Ops, Builds
  <2>2. todo'[c] = IF r.op \in Builds THEN Invocations(r) ELSE <<>>
    BY <1>5, <2>1 DEF TypeOK
  <2>3. IsSeq(todo'[c])
    BY <2>2, InvocationsAreSeq, SeqEmpty
  <2>4. /\ DOMAIN dir' = Callers /\ DOMAIN todo' = Callers
        /\ dir'[c] = IF r.op = "simulate" THEN dir[c] ELSE DirOf(c, r)
        /\ \A x \in Callers : x # c => dir'[x] = dir[x] /\ todo'[x] = todo[x]
    BY <1>5 DEF TypeOK
  <2>5. /\ pc' \in [Callers -> {"idle"} \union ToolSteps \union DeviceSteps \union SimSteps]
        /\ pc'[c] = FirstStep(r) /\ \A x \in Callers : x # c => pc'[x] = pc[x]
    BY <1>5, <2>1 DEF TypeOK, ToolSteps, DeviceSteps, SimSteps
  <2>6. TypeOK' /\ OnlyOf(c)
    BY <1>1, <1>3, <1>5, <2>3, <2>4, <2>5 DEF TypeOK, OnlyOf, Same
  <2> QED BY <1>5, <2>2, <2>4, <2>5, <2>6 DEF SetOff
<1>6. NoDirectory(r) # Ok
  BY DEF NoDirectory, Crash, Ok
<1>7. \/ \E code : code # Ok /\ Finish(c, code) /\ UNCHANGED <<dir, todo>>
      \/ /\ pc' = [pc EXCEPT ![c] = FirstStep(r)]
         /\ dir' = [dir EXCEPT ![c] = IF r.op = "simulate" THEN @ ELSE DirOf(c, r)]
         /\ todo' = [todo EXCEPT ![c] = IF FirstStep(r) = "tool" THEN Invocations(r) ELSE <<>>]
         /\ UNCHANGED answer
  BY <1>6, Zenon DEF Begin, GoTo
<1>8. TypeOK' /\ OnlyOf(c) /\ (Refused(c, r) \/ SetOff(c, r))
  BY <1>4, <1>5, <1>7
<1> QED BY <1>1, <1>3, <1>8

\* A tool run: the call ends, or one more run has ended and left what it did.
LEMMA InvokeStep ==
  ASSUME TypeOK, NEW c \in Callers, Invoke(c)
  PROVE  /\ TypeOK' /\ OnlyOf(c)
         /\ UNCHANGED <<made, request, dir, todo, found, lock, loaded, opened>>
         /\ pc[c] = "tool"
         /\ \/ /\ todo[c] = <<>> /\ pc'[c] = "idle"
               /\ Answered(c, Ok, found[c], request[c]) /\ UNCHANGED <<ran, files>>
            \/ /\ pc'[c] = "idle" /\ Answered(c, "TOOL-AIRCC-FAILED", found[c], request[c])
               /\ UNCHANGED <<ran, files>>
            \/ /\ todo[c] # <<>> /\ pc'[c] = "judge" /\ UNCHANGED answer
               /\ \E o \in ToolEnds :
                    /\ ran'[c] = Append(ran[c], o)
                    /\ files' = IF o.wrote = "nothing" THEN files
                                ELSE With(files, <<dir[c], todo[c][1].file>>,
                                          [by |-> todo[c][1].file, job |-> request[c].job,
                                           good |-> o.wrote = "output"])
<1>1. pc[c] = "tool" /\ UNCHANGED <<made, request, dir, todo, found, lock, loaded, opened>>
  BY DEF Invoke, At
<1>2. ASSUME NEW code \in {Ok, "TOOL-AIRCC-FAILED"}, Finish(c, code), UNCHANGED <<ran, files>>
      PROVE  /\ TypeOK' /\ OnlyOf(c) /\ pc'[c] = "idle"
             /\ Answered(c, code, found[c], request[c])
  BY <1>1, <1>2, FinishStep DEF TypeOK, OnlyOf, Same
<1>3. CASE todo[c] = <<>>
  <2>1. Finish(c, Ok) /\ UNCHANGED <<ran, files>>
    BY <1>3 DEF Invoke
  <2> QED BY <1>1, <1>2, <1>3, <2>1
<1>4. CASE todo[c] # <<>> /\ todo[c][1].tool \notin host.tools
  <2>1. Finish(c, "TOOL-AIRCC-FAILED") /\ UNCHANGED <<ran, files>>
    BY <1>4 DEF Invoke
  <2> QED BY <1>1, <1>2, <2>1
<1>5. CASE todo[c] # <<>> /\ todo[c][1].tool \in host.tools
  <2>1. PICK o \in ToolEnds :
          /\ ran' = [ran EXCEPT ![c] = Append(ran[c], o)]
          /\ files' = IF o.wrote = "nothing" THEN files
                      ELSE With(files, <<dir[c], todo[c][1].file>>,
                                [by |-> todo[c][1].file, job |-> request[c].job,
                                 good |-> o.wrote = "output"])
          /\ pc' = [pc EXCEPT ![c] = "judge"]
          /\ UNCHANGED answer
    BY <1>5 DEF Invoke, GoTo
  <2>2. IsSeq(Append(ran[c], o))
    BY SeqAppend DEF TypeOK
  <2>3. /\ DOMAIN ran' = Callers /\ ran'[c] = Append(ran[c], o)
        /\ \A x \in Callers : IsSeq(ran'[x]) /\ (x # c => ran'[x] = ran[x])
    BY <2>1, <2>2 DEF TypeOK
  <2>4. /\ pc' \in [Callers -> {"idle"} \union ToolSteps \union DeviceSteps \union SimSteps]
        /\ pc'[c] = "judge" /\ \A x \in Callers : x # c => pc'[x] = pc[x]
    BY <2>1 DEF TypeOK, ToolSteps
  <2>5. TypeOK' /\ OnlyOf(c)
    BY <1>1, <2>1, <2>3, <2>4 DEF TypeOK, OnlyOf, Same
  <2> QED BY <1>1, <1>5, <2>1, <2>3, <2>4, <2>5
<1> QED BY <1>3, <1>4, <1>5

\* A verdict: the call ends, or what the tool left is read and the call goes on.
LEMMA JudgeStep ==
  ASSUME TypeOK, NEW c \in Callers, todo[c] # <<>>, Judge(c)
  PROVE  LET o    == ran[c][Len(ran[c])]
             file == todo[c][1].file
             there == <<dir[c], file>> \in DOMAIN files
             content == IF there THEN files[<<dir[c], file>>] ELSE Nothing
         IN
         /\ TypeOK' /\ OnlyOf(c)
         /\ UNCHANGED <<made, request, dir, ran, files, lock, loaded, opened>>
         /\ pc[c] = "judge"
         /\ \/ /\ pc'[c] = "idle" /\ UNCHANGED <<todo, found>>
               /\ \E code : code # Ok /\ Answered(c, code, found[c], request[c])
            \/ /\ Verdict(o) = Ok /\ (there \/ Missing(request[c], file) = Ok)
               /\ found'[c] = Append(found[c], [file |-> file, content |-> content])
               /\ todo'[c] = Tail(todo[c])
               /\ \/ /\ Len(todo[c]) = 1 /\ pc'[c] = "idle"
                     /\ Answered(c, Ok, found'[c], request[c])
                  \/ Len(todo[c]) # 1 /\ pc'[c] = "tool" /\ UNCHANGED answer
                  \/ /\ pc'[c] = "idle"
                     /\ Answered(c, "TOOL-AIRCC-FAILED", found'[c], request[c])
<1> DEFINE o == ran[c][Len(ran[c])]
           file == todo[c][1].file
           there == <<dir[c], file>> \in DOMAIN files
           content == IF there THEN files[<<dir[c], file>>] ELSE Nothing
           code == IF Verdict(o) # Ok THEN Verdict(o)
                   ELSE IF ~there THEN Missing(request[c], file) ELSE Ok
           read == [file |-> file, content |-> content]
<1>1. pc[c] = "judge" /\ UNCHANGED <<made, request, dir, ran, files, lock, loaded, opened>>
  BY DEF Judge, At
<1>2. CASE code # Ok
  <2>1. UNCHANGED <<todo, found>> /\ Finish(c, code)
    BY <1>2 DEF Judge
  <2> HIDE DEF code
  <2>2. /\ pc' = [pc EXCEPT ![c] = "idle"]
        /\ DOMAIN answer' = Callers /\ \A x \in Callers : x # c => answer'[x] = answer[x]
        /\ Answered(c, code, found[c], request[c])
        /\ \A x \in Callers : DOMAIN answer'[x] = {"code", "got", "asked", "report"}
    BY <1>1, <2>1, FinishStep
  <2>3. TypeOK' /\ OnlyOf(c)
    BY <1>1, <2>1, <2>2 DEF TypeOK, OnlyOf, Same
  <2>4. pc'[c] = "idle"
    BY <2>2 DEF TypeOK
  <2> QED BY <1>1, <1>2, <2>1, <2>2, <2>3, <2>4
<1>3. CASE code = Ok
  <2>1. /\ found' = [found EXCEPT ![c] = Append(found[c], read)]
        /\ todo' = [todo EXCEPT ![c] = Tail(todo[c])]
        /\ \/ Len(todo[c]) = 1 /\ Finish(c, Ok)
           \/ Len(todo[c]) # 1 /\ GoTo(c, "tool") /\ UNCHANGED answer
           \/ Finish(c, "TOOL-AIRCC-FAILED")
    BY <1>3 DEF Judge
  <2>2. Verdict(o) = Ok /\ (there \/ Missing(request[c], file) = Ok)
    BY <1>3 DEF Ok
  <2> HIDE DEF o, file, there, content, code, read
  <2>3. IsSeq(Append(found[c], read)) /\ IsSeq(Tail(todo[c]))
    BY SeqAppend, SeqTail DEF TypeOK
  <2>4. /\ DOMAIN found' = Callers /\ DOMAIN todo' = Callers
        /\ found'[c] = Append(found[c], read) /\ todo'[c] = Tail(todo[c])
        /\ \A x \in Callers : IsSeq(found'[x]) /\ IsSeq(todo'[x])
        /\ \A x \in Callers : x # c => found'[x] = found[x] /\ todo'[x] = todo[x]
    BY <2>1, <2>3 DEF TypeOK
  <2>5. ASSUME NEW end, Finish(c, end)
        PROVE  /\ TypeOK' /\ OnlyOf(c) /\ pc'[c] = "idle"
               /\ Answered(c, end, found'[c], request[c])
    <3>1. /\ pc' = [pc EXCEPT ![c] = "idle"]
          /\ DOMAIN answer' = Callers /\ \A x \in Callers : x # c => answer'[x] = answer[x]
          /\ Answered(c, end, found'[c], request[c])
          /\ \A x \in Callers : DOMAIN answer'[x] = {"code", "got", "asked", "report"}
      BY <1>1, <2>5, FinishStep
    <3>2. TypeOK' /\ OnlyOf(c) /\ pc'[c] = "idle"
      BY <1>1, <2>4, <3>1 DEF TypeOK, OnlyOf, Same
    <3> QED BY <3>1, <3>2
  <2>6. ASSUME GoTo(c, "tool"), UNCHANGED answer
        PROVE  TypeOK' /\ OnlyOf(c) /\ pc'[c] = "tool"
    <3>1. /\ pc' \in [Callers -> {"idle"} \union ToolSteps \union DeviceSteps \union SimSteps]
          /\ pc'[c] = "tool" /\ \A x \in Callers : x # c => pc'[x] = pc[x]
      BY <2>6 DEF TypeOK, ToolSteps, GoTo
    <3> QED BY <1>1, <2>4, <2>6, <3>1 DEF TypeOK, OnlyOf, Same
  <2>7. \/ /\ TypeOK' /\ OnlyOf(c) /\ Len(todo[c]) = 1 /\ pc'[c] = "idle"
           /\ Answered(c, Ok, found'[c], request[c])
        \/ /\ TypeOK' /\ OnlyOf(c) /\ Len(todo[c]) # 1 /\ pc'[c] = "tool" /\ UNCHANGED answer
        \/ /\ TypeOK' /\ OnlyOf(c) /\ pc'[c] = "idle"
           /\ Answered(c, "TOOL-AIRCC-FAILED", found'[c], request[c])
    BY <2>1, <2>5, <2>6
  <2> QED BY <1>1, <2>2, <2>4, <2>7 DEF o, file, there, content, read
<1> QED BY <1>2, <1>3

\* A caller goes to another step of its call, without an answer.
LEMMA GoToStep ==
  ASSUME TypeOK, NEW c \in Callers,
         NEW step \in {"idle"} \union ToolSteps \union DeviceSteps \union SimSteps,
         GoTo(c, step)
  PROVE  /\ pc' \in [Callers -> {"idle"} \union ToolSteps \union DeviceSteps \union SimSteps]
         /\ pc'[c] = step /\ \A x \in Callers : x # c => pc'[x] = pc[x]
BY DEF TypeOK, GoTo

\* The program is loaded under the directory's lock, or the call ends.
LEMMA LoadStep ==
  ASSUME TypeOK, NEW c \in Callers, Load(c)
  PROVE  /\ TypeOK' /\ OnlyOf(c) /\ UNCHANGED <<made, request, dir, todo, ran, found, files, opened>>
         /\ pc[c] = "load" /\ dir[c] \notin DOMAIN lock
         /\ \/ /\ lock' = With(lock, dir[c], c) /\ loaded' = loaded \union {c}
               /\ pc'[c] = "use" /\ UNCHANGED answer
            \/ /\ UNCHANGED <<lock, loaded>> /\ pc'[c] = "idle"
               /\ Answered(c, Crash, found[c], request[c])
<1>1. /\ pc[c] = "load" /\ dir[c] \notin DOMAIN lock
      /\ UNCHANGED <<made, request, dir, todo, ran, found, files, opened>>
  BY DEF Load, At, LockOf
<1>2. CASE lock' = With(lock, LockOf(c), c) /\ loaded' = loaded \union {c}
           /\ GoTo(c, "use") /\ UNCHANGED answer
  <2>1. /\ pc' \in [Callers -> {"idle"} \union ToolSteps \union DeviceSteps \union SimSteps]
        /\ pc'[c] = "use" /\ \A x \in Callers : x # c => pc'[x] = pc[x]
    BY <1>2, GoToStep DEF DeviceSteps, LockedSteps
  <2>2. lock' = With(lock, dir[c], c)
    BY <1>2 DEF LockOf
  <2>3. /\ DOMAIN lock' = DOMAIN lock \union {dir[c]} /\ lock'[dir[c]] = c
        /\ \A d \in DOMAIN lock : lock'[d] = lock[d]
    BY <1>1, <2>2 DEF With
  <2>4. \A x \in Callers : x # c =>
          \A d : d \in DOMAIN lock' /\ lock'[d] = x <=> d \in DOMAIN lock /\ lock[d] = x
    BY <2>3
  <2>5. TypeOK' /\ OnlyOf(c)
    BY <1>1, <1>2, <2>1, <2>4 DEF TypeOK, OnlyOf, Same
  <2> QED BY <1>1, <1>2, <2>1, <2>2, <2>5
<1>3. CASE Finish(c, Crash) /\ UNCHANGED <<lock, loaded>>
  <2>1. TypeOK' /\ OnlyOf(c) /\ pc'[c] = "idle" /\ Answered(c, Crash, found[c], request[c])
    BY <1>1, <1>3, FinishStep DEF TypeOK, OnlyOf, Same
  <2> QED BY <1>1, <1>3, <2>1
<1> QED BY <1>2, <1>3 DEF Load

\* The device returns arrays or raises.
LEMMA UseStep ==
  ASSUME TypeOK, NEW c \in Callers, Use(c)
  PROVE  /\ TypeOK' /\ OnlyOf(c)
         /\ UNCHANGED <<made, request, dir, todo, ran, files, lock, loaded, opened, answer>>
         /\ pc[c] = "use"
         /\ \/ pc'[c] = "unload" /\ found'[c] \in Results
            \/ pc'[c] = "abandon" /\ UNCHANGED found
<1>1. /\ pc[c] = "use"
      /\ UNCHANGED <<made, request, dir, todo, ran, files, lock, loaded, opened, answer>>
  BY DEF Use, At
<1>2. ASSUME NEW flat \in Results, found' = [found EXCEPT ![c] = flat], GoTo(c, "unload")
      PROVE  TypeOK' /\ OnlyOf(c) /\ pc'[c] = "unload" /\ found'[c] = flat
  <2>1. IsSeq(flat)
    <3>1. flat \in Seq(Seq(Int \union {NaN}))
      BY NumbersAssumption
    <3> QED BY <3>1, SeqSub
  <2>2. /\ DOMAIN found' = Callers /\ found'[c] = flat
        /\ \A x \in Callers : IsSeq(found'[x]) /\ (x # c => found'[x] = found[x])
    BY <1>2, <2>1 DEF TypeOK
  <2>3. /\ pc' \in [Callers -> {"idle"} \union ToolSteps \union DeviceSteps \union SimSteps]
        /\ pc'[c] = "unload" /\ \A x \in Callers : x # c => pc'[x] = pc[x]
    BY <1>2, GoToStep DEF DeviceSteps, LockedSteps
  <2> QED BY <1>1, <2>2, <2>3 DEF TypeOK, OnlyOf, Same
<1>3. ASSUME UNCHANGED found, GoTo(c, "abandon")
      PROVE  TypeOK' /\ OnlyOf(c) /\ pc'[c] = "abandon"
  <2>1. /\ pc' \in [Callers -> {"idle"} \union ToolSteps \union DeviceSteps \union SimSteps]
        /\ pc'[c] = "abandon" /\ \A x \in Callers : x # c => pc'[x] = pc[x]
    BY <1>3, GoToStep DEF DeviceSteps, LockedSteps
  <2> QED BY <1>1, <1>3, <2>1 DEF TypeOK, OnlyOf, Same
<1> QED BY <1>1, <1>2, <1>3 DEF Use

\* The program is unloaded, the lock still held.
LEMMA UnloadStep ==
  ASSUME TypeOK, NEW c \in Callers, Unload(c)
  PROVE  /\ TypeOK' /\ OnlyOf(c)
         /\ UNCHANGED <<made, request, dir, todo, ran, found, files, lock, opened, answer>>
         /\ loaded' = loaded \ {c}
         /\ \/ pc[c] = "unload" /\ pc'[c] = "release"
            \/ pc[c] = "abandon" /\ pc'[c] = "fail"
<1>1. /\ UNCHANGED <<made, request, dir, todo, ran, found, files, lock, opened, answer>>
      /\ loaded' = loaded \ {c}
  BY DEF Unload
<1>2. PICK step \in {"release", "fail"} :
        GoTo(c, step) /\ (\/ pc[c] = "unload" /\ step = "release"
                          \/ pc[c] = "abandon" /\ step = "fail")
  BY DEF Unload, At
<1>3. /\ pc' \in [Callers -> {"idle"} \union ToolSteps \union DeviceSteps \union SimSteps]
      /\ pc'[c] = step /\ \A x \in Callers : x # c => pc'[x] = pc[x]
  BY <1>2, GoToStep DEF DeviceSteps, LockedSteps
<1>4. TypeOK' /\ OnlyOf(c)
  BY <1>1, <1>3 DEF TypeOK, OnlyOf, Same
<1> QED BY <1>1, <1>2, <1>3, <1>4

\* The caller's locks are given up and the run is answered; with success only
\* for what the device returned.
LEMMA ReleaseStep ==
  ASSUME TypeOK, NEW c \in Callers, Release(c)
  PROVE  /\ TypeOK' /\ OnlyOf(c)
         /\ UNCHANGED <<made, request, dir, todo, ran, found, files, loaded, opened>>
         /\ pc[c] \in {"release", "fail"} /\ pc'[c] = "idle"
         /\ \A d \in DOMAIN lock' : lock'[d] # c
         /\ \E code : /\ Answered(c, code, found[c], request[c])
                      /\ code = Ok => pc[c] = "release"
<1>1. UNCHANGED <<made, request, dir, todo, ran, found, files, loaded, opened>>
      /\ lock' = Unlocked(c)
  BY DEF Release
<1>2. /\ \A d \in DOMAIN lock' : lock'[d] # c
      /\ \A x \in Callers : x # c =>
           \A d : d \in DOMAIN lock' /\ lock'[d] = x <=> d \in DOMAIN lock /\ lock[d] = x
  BY <1>1 DEF Unlocked
<1>3. PICK code : /\ Finish(c, code) /\ pc[c] \in {"release", "fail"}
                  /\ code = Ok => pc[c] = "release"
  BY DEF Release, At, Ok, Crash
<1>4. /\ pc' = [pc EXCEPT ![c] = "idle"]
      /\ DOMAIN answer' = Callers /\ \A x \in Callers : x # c => answer'[x] = answer[x]
      /\ Answered(c, code, found[c], request[c])
      /\ \A x \in Callers : DOMAIN answer'[x] = {"code", "got", "asked", "report"}
  BY <1>1, <1>3, FinishStep
<1>5. TypeOK' /\ OnlyOf(c) /\ pc'[c] = "idle"
  BY <1>1, <1>2, <1>4 DEF TypeOK, OnlyOf, Same
<1> QED BY <1>1, <1>2, <1>3, <1>4, <1>5

\* A report is added to the answer of a run that returned.
LEMMA CompareStep ==
  ASSUME TypeOK, NEW c \in Callers, Compare(c)
  PROVE  /\ TypeOK' /\ OnlyOf(c)
         /\ UNCHANGED <<made, pc, request, dir, todo, ran, found, files, lock, loaded, opened>>
         /\ pc[c] = "idle" /\ answer[c].asked.op = "run" /\ answer[c].code = Ok
         /\ answer'[c] = [answer[c] EXCEPT !.report = Diff(answer[c].got, Oracle)]
<1>1. /\ UNCHANGED <<made, pc, request, dir, todo, ran, found, files, lock, loaded, opened>>
      /\ pc[c] = "idle" /\ answer[c].asked.op = "run" /\ answer[c].code = Ok
      /\ answer' = [answer EXCEPT ![c].report = Diff(answer[c].got, Oracle)]
  BY DEF Compare, At
<1>2. /\ DOMAIN answer' = Callers
      /\ answer'[c] = [answer[c] EXCEPT !.report = Diff(answer[c].got, Oracle)]
      /\ \A x \in Callers : x # c => answer'[x] = answer[x]
  BY <1>1 DEF TypeOK
<1>3. \A x \in Callers : DOMAIN answer'[x] = {"code", "got", "asked", "report"}
  BY <1>2 DEF TypeOK
<1>4. TypeOK' /\ OnlyOf(c)
  BY <1>1, <1>2, <1>3 DEF TypeOK, OnlyOf, Same
<1> QED BY <1>1, <1>2, <1>4

\* The simulator's steps: it is opened first and closed last.
LEMMA OpenStep ==
  ASSUME TypeOK, NEW c \in Callers, Open(c)
  PROVE  /\ TypeOK' /\ OnlyOf(c)
         /\ UNCHANGED <<made, request, dir, todo, ran, found, files, lock, loaded>>
         /\ pc[c] = "open"
         /\ \/ opened' = opened \union {c} /\ pc'[c] = "upload" /\ UNCHANGED answer
            \/ /\ UNCHANGED opened /\ pc'[c] = "idle"
               /\ Answered(c, Crash, found[c], request[c])
<1>1. pc[c] = "open" /\ UNCHANGED <<made, request, dir, todo, ran, found, files, lock, loaded>>
  BY DEF Open, At
<1>2. CASE opened' = opened \union {c} /\ GoTo(c, "upload") /\ UNCHANGED answer
  <2>1. /\ pc' \in [Callers -> {"idle"} \union ToolSteps \union DeviceSteps \union SimSteps]
        /\ pc'[c] = "upload" /\ \A x \in Callers : x # c => pc'[x] = pc[x]
    BY <1>2, GoToStep DEF SimSteps, OpenSteps
  <2> QED BY <1>1, <1>2, <2>1 DEF TypeOK, OnlyOf, Same
<1>3. CASE opened' = opened /\ Finish(c, Crash)
  BY <1>1, <1>3, FinishStep DEF TypeOK, OnlyOf, Same
<1> QED BY <1>2, <1>3 DEF Open

LEMMA UploadStep ==
  ASSUME TypeOK, NEW c \in Callers, Upload(c)
  PROVE  /\ TypeOK' /\ OnlyOf(c)
         /\ UNCHANGED <<made, request, dir, todo, ran, files, lock, loaded, opened, answer>>
         /\ pc[c] = "upload" /\ pc'[c] \in {"upload", "give up", "break off", "launch"}
<1>1. /\ pc[c] = "upload"
      /\ UNCHANGED <<made, request, dir, todo, ran, files, lock, loaded, opened, answer>>
  BY DEF Upload, At
<1>2. CASE found' = [found EXCEPT ![c] = Append(@, Len(@) + 1)] /\ UNCHANGED pc
  <2>1. IsSeq(Append(found[c], Len(found[c]) + 1))
    BY SeqAppend DEF TypeOK
  <2>2. /\ DOMAIN found' = Callers
        /\ \A x \in Callers : IsSeq(found'[x]) /\ (x # c => found'[x] = found[x])
    BY <1>2, <2>1 DEF TypeOK
  <2> QED BY <1>1, <1>2, <2>2 DEF TypeOK, OnlyOf, Same
<1>3. ASSUME NEW step \in {"give up", "break off", "launch"}, UNCHANGED found, GoTo(c, step)
      PROVE  TypeOK' /\ OnlyOf(c) /\ pc'[c] = step
  <2>1. /\ pc' \in [Callers -> {"idle"} \union ToolSteps \union DeviceSteps \union SimSteps]
        /\ pc'[c] = step /\ \A x \in Callers : x # c => pc'[x] = pc[x]
    BY <1>3, GoToStep DEF SimSteps, OpenSteps
  <2> QED BY <1>1, <1>3, <2>1 DEF TypeOK, OnlyOf, Same
<1> QED BY <1>1, <1>2, <1>3 DEF Upload

LEMMA LaunchStep ==
  ASSUME TypeOK, NEW c \in Callers, Launch(c)
  PROVE  /\ TypeOK' /\ OnlyOf(c)
         /\ UNCHANGED <<made, request, dir, todo, ran, found, files, lock, loaded, opened, answer>>
         /\ pc[c] = "launch" /\ pc'[c] \in {"close", "break off"}
<1>1. /\ pc[c] = "launch"
      /\ UNCHANGED <<made, request, dir, todo, ran, found, files, lock, loaded, opened, answer>>
  BY DEF Launch, At
<1>2. PICK step \in {"close", "break off"} : GoTo(c, step)
  BY DEF Launch
<1>3. /\ pc' \in [Callers -> {"idle"} \union ToolSteps \union DeviceSteps \union SimSteps]
      /\ pc'[c] = step /\ \A x \in Callers : x # c => pc'[x] = pc[x]
  BY <1>2, GoToStep DEF SimSteps, OpenSteps
<1> QED BY <1>1, <1>2, <1>3 DEF TypeOK, OnlyOf, Same

LEMMA CloseStep ==
  ASSUME TypeOK, NEW c \in Callers, Close(c)
  PROVE  /\ TypeOK' /\ OnlyOf(c)
         /\ UNCHANGED <<made, request, dir, todo, ran, found, files, lock, loaded>>
         /\ pc[c] \in {"close", "give up", "break off"} /\ pc'[c] = "idle" /\ opened' = opened \ {c}
         /\ \E code : Answered(c, code, found[c], request[c])
<1>1. /\ UNCHANGED <<made, request, dir, todo, ran, found, files, lock, loaded>>
      /\ opened' = opened \ {c}
  BY DEF Close
<1>2. PICK code : Finish(c, code) /\ pc[c] \in {"close", "give up", "break off"}
  BY DEF Close, At
<1>3. /\ pc' = [pc EXCEPT ![c] = "idle"]
      /\ DOMAIN answer' = Callers /\ \A x \in Callers : x # c => answer'[x] = answer[x]
      /\ Answered(c, code, found[c], request[c])
      /\ \A x \in Callers : DOMAIN answer'[x] = {"code", "got", "asked", "report"}
  BY <1>1, <1>2, FinishStep
<1>4. TypeOK' /\ OnlyOf(c) /\ pc'[c] = "idle"
  BY <1>1, <1>3 DEF TypeOK, OnlyOf, Same
<1> QED BY <1>1, <1>2, <1>3, <1>4

-----------------------------------------------------------------------------
(* What a call holds, step by step.                                         *)

\* What another process does leaves a caller's invariant alone.
LEMMA OthersKeep ==
  ASSUME NEW x \in Callers, Same(x), CallOK(x), HoldOK(x), GotOK(x)
  PROVE  CallOK(x)' /\ HoldOK(x)' /\ GotOK(x)'
<1>1. CallOK(x)'
  BY DEF Same, CallOK
<1>2. HoldOK(x)'
  BY DEF Same, HoldOK
<1>3. GotOK(x)'
  BY DEF Same, GotOK
<1> QED BY <1>1, <1>2, <1>3

LEMMA StepKeeps ==
  ASSUME IInv, NEW c \in Callers, TypeOK', OnlyOf(c),
         CallOK(c)', HoldOK(c)', GotOK(c)'
  PROVE  IInv'
<1>1. ASSUME NEW x \in Callers PROVE CallOK(x)' /\ HoldOK(x)' /\ GotOK(x)'
  BY OthersKeep DEF IInv, OnlyOf
<1> QED BY <1>1 DEF IInv

LEMMA InitInv == Init => IInv
<1> SUFFICES ASSUME Init PROVE IInv
  OBVIOUS
<1>1. TypeOK
  BY SeqEmpty DEF Init, TypeOK
<1>2. ASSUME NEW c \in Callers PROVE CallOK(c) /\ HoldOK(c) /\ GotOK(c)
  <2>1. /\ pc[c] = "idle" /\ DOMAIN lock = {} /\ loaded = {} /\ opened = {}
        /\ answer[c].code = "none" /\ answer[c].report = NoReport
    BY DEF Init
  <2> QED BY <2>1 DEF CallOK, HoldOK, GotOK, ToolSteps, DeviceSteps, LockedSteps,
                      SimSteps, OpenSteps, Ok
<1> QED BY <1>1, <1>2 DEF IInv

\* Between calls a caller holds nothing.
LEMMA IdleHoldsNothing ==
  ASSUME IInv, NEW c \in Callers, pc[c] = "idle"
  PROVE  c \notin loaded /\ c \notin opened /\ \A d \in DOMAIN lock : lock[d] # c
BY DEF IInv, HoldOK, LockedSteps, OpenSteps

\* A call that ends holding nothing keeps the invariant; with success it ends
\* only if it is no run, or its run returned.
LEMMA EndKeeps ==
  ASSUME IInv, NEW c \in Callers, TypeOK', OnlyOf(c), pc'[c] = "idle",
         c \notin loaded', c \notin opened', \A d \in DOMAIN lock' : lock'[d] # c,
         NEW code, NEW got, NEW asked, Answered(c, code, got, asked),
         code = Ok /\ asked.op = "run" => got \in Results
  PROVE  IInv'
<1>1. CallOK(c)'
  BY DEF CallOK, ToolSteps, DeviceSteps, LockedSteps, SimSteps, OpenSteps
<1>2. HoldOK(c)'
  BY DEF HoldOK, LockedSteps
<1>3. GotOK(c)'
  <2>1. /\ answer'[c].code = code /\ answer'[c].got = got
        /\ answer'[c].asked = asked /\ answer'[c].report = NoReport
    BY DEF Answered
  <2> QED BY <2>1 DEF GotOK
<1> QED BY <1>1, <1>2, <1>3, StepKeeps

LEMMA BeginInv ==
  ASSUME IInv, NEW c \in Callers, NEW r \in Requests, Begin(c, r)
  PROVE  IInv'
<1>1. /\ TypeOK' /\ OnlyOf(c) /\ UNCHANGED <<files, lock, loaded, opened>>
      /\ pc[c] = "idle" /\ made'[c] = made[c] + 1 /\ request'[c] = r
      /\ Refused(c, r) \/ SetOff(c, r)
  BY BeginStep DEF IInv
<1>2. c \notin loaded /\ c \notin opened /\ \A d \in DOMAIN lock : lock[d] # c
  BY <1>1, IdleHoldsNothing
<1>3. CASE Refused(c, r)
  <2>1. PICK code : code # Ok /\ Answered(c, code, <<>>, r)
    BY <1>3 DEF Refused
  <2>2. pc'[c] = "idle"
    BY <1>3 DEF Refused
  <2> QED BY <1>1, <1>2, <2>1, <2>2, EndKeeps
<1>4. CASE SetOff(c, r)
  <2>1. r.op \in Ops /\ made[c] \in Nat
    BY RequestsAssumption DEF IInv, TypeOK
  <2>2. \/ r.op \in Builds /\ pc'[c] = "tool"
        \/ r.op = "run" /\ pc'[c] = "load"
        \/ r.op = "simulate" /\ pc'[c] = "open"
    BY <1>4, <2>1 DEF SetOff, FirstStep, Ops, Builds
  <2>3. CallOK(c)'
    <3>1. request'[c] = r /\ made'[c] = made[c] + 1 /\ made'[c] > 0 /\ made'[c] - 1 = made[c]
      BY <1>1, <2>1
    <3>2. r.op # "simulate" =>
            dir'[c] = IF r.workdir = "none" THEN <<c, made'[c] - 1>> ELSE <<r.workdir, 0>>
      BY <1>4, <3>1 DEF SetOff, DirOf
    <3>3. CASE r.op \in Builds /\ pc'[c] = "tool"
      BY <3>1, <3>2, <3>3
         DEF CallOK, ToolSteps, DeviceSteps, LockedSteps, SimSteps, OpenSteps, Builds
    <3>4. CASE r.op = "run" /\ pc'[c] = "load"
      BY <3>1, <3>2, <3>4 DEF CallOK, ToolSteps, DeviceSteps, LockedSteps, SimSteps, OpenSteps
    <3>5. CASE r.op = "simulate" /\ pc'[c] = "open"
      BY <3>1, <3>5 DEF CallOK, ToolSteps, DeviceSteps, LockedSteps, SimSteps, OpenSteps
    <3> QED BY <2>2, <3>3, <3>4, <3>5
  <2>4. HoldOK(c)'
    BY <1>1, <1>2, <2>2 DEF HoldOK, LockedSteps
  <2>5. GotOK(c)'
    BY <1>1, <1>4, <2>2 DEF SetOff, IInv, GotOK
  <2> QED BY <1>1, <2>3, <2>4, <2>5, StepKeeps
<1> QED BY <1>1, <1>3, <1>4

\* A build holds neither the device nor a lock nor the simulator.
LEMMA BuildHoldsNothing ==
  ASSUME IInv, NEW c \in Callers, pc[c] \in ToolSteps
  PROVE  /\ c \notin loaded /\ c \notin opened /\ \A d \in DOMAIN lock : lock[d] # c
         /\ request[c].op \in Builds
BY DEF IInv, HoldOK, CallOK, ToolSteps, LockedSteps, OpenSteps

LEMMA InvokeInv == ASSUME IInv, NEW c \in Callers, Invoke(c) PROVE IInv'
<1>1. /\ TypeOK' /\ OnlyOf(c)
      /\ UNCHANGED <<made, request, dir, todo, found, lock, loaded, opened>>
      /\ pc[c] = "tool"
      /\ \/ \E code : pc'[c] = "idle" /\ Answered(c, code, found[c], request[c])
         \/ /\ todo[c] # <<>> /\ pc'[c] = "judge" /\ UNCHANGED answer
            /\ \E o : ran'[c] = Append(ran[c], o)
  BY InvokeStep DEF IInv
<1>2. /\ c \notin loaded /\ c \notin opened /\ \A d \in DOMAIN lock : lock[d] # c
      /\ request[c].op \in Builds
  BY <1>1, BuildHoldsNothing DEF ToolSteps
<1>3. ASSUME NEW code, pc'[c] = "idle", Answered(c, code, found[c], request[c]) PROVE IInv'
  BY <1>1, <1>2, <1>3, EndKeeps DEF Builds
<1>4. ASSUME todo[c] # <<>>, pc'[c] = "judge", UNCHANGED answer,
             NEW o, ran'[c] = Append(ran[c], o)
      PROVE  IInv'
  <2>1. ran'[c] # <<>>
    <3>1. IsSeq(ran[c])
      BY DEF IInv, TypeOK
    <3> QED BY <1>4, <3>1, SeqAppend
  <2>2. CallOK(c)'
    BY <1>1, <1>4, <2>1 DEF IInv, CallOK, ToolSteps, DeviceSteps, LockedSteps, SimSteps, OpenSteps
  <2>3. HoldOK(c)'
    BY <1>1, <1>2, <1>4 DEF HoldOK, LockedSteps
  <2>4. GotOK(c)'
    BY <1>1, <1>4 DEF IInv, GotOK
  <2> QED BY <1>1, <2>2, <2>3, <2>4, StepKeeps
<1> QED BY <1>1, <1>3, <1>4

LEMMA JudgeInv == ASSUME IInv, NEW c \in Callers, Judge(c) PROVE IInv'
<1>1. todo[c] # <<>> /\ pc[c] = "judge"
  BY DEF IInv, CallOK, Judge, At
<1>2. /\ TypeOK' /\ OnlyOf(c)
      /\ UNCHANGED <<made, request, dir, ran, files, lock, loaded, opened>>
      /\ \/ \E code, got : pc'[c] = "idle" /\ Answered(c, code, got, request[c])
         \/ pc'[c] = "tool" /\ UNCHANGED answer
  BY <1>1, JudgeStep DEF IInv
<1>3. /\ c \notin loaded /\ c \notin opened /\ \A d \in DOMAIN lock : lock[d] # c
      /\ request[c].op \in Builds
  BY <1>1, BuildHoldsNothing DEF ToolSteps
<1>4. ASSUME NEW code, NEW got, pc'[c] = "idle", Answered(c, code, got, request[c]) PROVE IInv'
  BY <1>2, <1>3, <1>4, EndKeeps DEF Builds
<1>5. ASSUME pc'[c] = "tool", UNCHANGED answer PROVE IInv'
  <2>1. CallOK(c)'
    BY <1>1, <1>2, <1>5 DEF IInv, CallOK, ToolSteps, DeviceSteps, LockedSteps, SimSteps, OpenSteps
  <2>2. HoldOK(c)'
    BY <1>2, <1>3, <1>5 DEF HoldOK, LockedSteps
  <2>3. GotOK(c)'
    BY <1>2, <1>5 DEF IInv, GotOK
  <2> QED BY <1>2, <2>1, <2>2, <2>3, StepKeeps
<1> QED BY <1>2, <1>4, <1>5

\* A run takes the lock of its own directory, and with it the device.
LEMMA LoadInv == ASSUME IInv, NEW c \in Callers, Load(c) PROVE IInv'
<1>1. /\ TypeOK' /\ OnlyOf(c) /\ UNCHANGED <<made, request, dir, todo, ran, found, files, opened>>
      /\ pc[c] = "load" /\ dir[c] \notin DOMAIN lock
      /\ \/ /\ lock' = With(lock, dir[c], c) /\ loaded' = loaded \union {c}
            /\ pc'[c] = "use" /\ UNCHANGED answer
         \/ /\ UNCHANGED <<lock, loaded>> /\ pc'[c] = "idle"
            /\ Answered(c, Crash, found[c], request[c])
  BY LoadStep DEF IInv
<1>2. c \notin loaded /\ c \notin opened /\ \A d \in DOMAIN lock : lock[d] # c
  BY <1>1 DEF IInv, HoldOK, LockedSteps, OpenSteps
<1>3. CASE /\ UNCHANGED <<lock, loaded>> /\ pc'[c] = "idle"
           /\ Answered(c, Crash, found[c], request[c])
  BY <1>1, <1>2, <1>3, EndKeeps DEF Crash, Ok
<1>4. CASE /\ lock' = With(lock, dir[c], c) /\ loaded' = loaded \union {c}
           /\ pc'[c] = "use" /\ UNCHANGED answer
  <2>1. /\ DOMAIN lock' = DOMAIN lock \union {dir[c]} /\ lock'[dir[c]] = c
        /\ \A d \in DOMAIN lock : lock'[d] = lock[d]
    BY <1>1, <1>4 DEF With
  <2>2. CallOK(c)'
    BY <1>1, <1>4 DEF IInv, CallOK, ToolSteps, DeviceSteps, LockedSteps, SimSteps, OpenSteps
  <2>3. HoldOK(c)'
    BY <1>1, <1>2, <1>4, <2>1 DEF HoldOK, LockedSteps
  <2>4. GotOK(c)'
    BY <1>1, <1>4 DEF IInv, GotOK
  <2> QED BY <1>1, <2>2, <2>3, <2>4, StepKeeps
<1> QED BY <1>1, <1>3, <1>4

LEMMA UseInv == ASSUME IInv, NEW c \in Callers, Use(c) PROVE IInv'
<1>1. /\ TypeOK' /\ OnlyOf(c)
      /\ UNCHANGED <<made, request, dir, todo, ran, files, lock, loaded, opened, answer>>
      /\ pc[c] = "use"
      /\ \/ pc'[c] = "unload" /\ found'[c] \in Results
         \/ pc'[c] = "abandon" /\ UNCHANGED found
  BY UseStep DEF IInv
<1>2. CallOK(c)'
  BY <1>1 DEF IInv, CallOK, ToolSteps, DeviceSteps, LockedSteps, SimSteps, OpenSteps
<1>3. HoldOK(c)'
  BY <1>1 DEF IInv, HoldOK, LockedSteps, OpenSteps
<1>4. GotOK(c)'
  BY <1>1 DEF IInv, GotOK
<1> QED BY <1>1, <1>2, <1>3, <1>4, StepKeeps

LEMMA UnloadInv == ASSUME IInv, NEW c \in Callers, Unload(c) PROVE IInv'
<1>1. /\ TypeOK' /\ OnlyOf(c)
      /\ UNCHANGED <<made, request, dir, todo, ran, found, files, lock, opened, answer>>
      /\ loaded' = loaded \ {c}
      /\ \/ pc[c] = "unload" /\ pc'[c] = "release"
         \/ pc[c] = "abandon" /\ pc'[c] = "fail"
  BY UnloadStep DEF IInv
<1>2. CallOK(c)'
  BY <1>1 DEF IInv, CallOK, ToolSteps, DeviceSteps, LockedSteps, SimSteps, OpenSteps
<1>3. HoldOK(c)'
  BY <1>1 DEF IInv, HoldOK, LockedSteps, OpenSteps
<1>4. GotOK(c)'
  BY <1>1 DEF IInv, GotOK
<1> QED BY <1>1, <1>2, <1>3, <1>4, StepKeeps

LEMMA ReleaseInv == ASSUME IInv, NEW c \in Callers, Release(c) PROVE IInv'
<1>1. /\ TypeOK' /\ OnlyOf(c)
      /\ UNCHANGED <<made, request, dir, todo, ran, found, files, loaded, opened>>
      /\ pc[c] \in {"release", "fail"} /\ pc'[c] = "idle"
      /\ \A d \in DOMAIN lock' : lock'[d] # c
      /\ \E code : /\ Answered(c, code, found[c], request[c])
                   /\ code = Ok => pc[c] = "release"
  BY ReleaseStep DEF IInv
<1>2. c \notin loaded /\ c \notin opened /\ (pc[c] = "release" => found[c] \in Results)
  BY <1>1 DEF IInv, HoldOK, GotOK, OpenSteps
<1>3. ASSUME NEW code, Answered(c, code, found[c], request[c]), code = Ok => pc[c] = "release"
      PROVE  IInv'
  BY <1>1, <1>2, <1>3, EndKeeps
<1> QED BY <1>1, <1>3

LEMMA CompareInv == ASSUME IInv, NEW c \in Callers, Compare(c) PROVE IInv'
<1>1. /\ TypeOK' /\ OnlyOf(c)
      /\ UNCHANGED <<made, pc, request, dir, todo, ran, found, files, lock, loaded, opened>>
      /\ pc[c] = "idle" /\ answer[c].asked.op = "run" /\ answer[c].code = Ok
      /\ answer'[c] = [answer[c] EXCEPT !.report = Diff(answer[c].got, Oracle)]
  BY CompareStep DEF IInv
<1>2. CallOK(c)' /\ HoldOK(c)'
  BY <1>1 DEF IInv, CallOK, HoldOK
<1>3. GotOK(c)'
  <2>1. DOMAIN answer[c] = {"code", "got", "asked", "report"} /\ answer[c].got \in Results
    BY <1>1 DEF IInv, TypeOK, GotOK
  <2>2. /\ answer'[c].code = answer[c].code /\ answer'[c].got = answer[c].got
        /\ answer'[c].asked = answer[c].asked
        /\ answer'[c].report = Diff(answer[c].got, Oracle)
    BY <1>1, <2>1
  <2> QED BY <1>1, <2>1, <2>2 DEF IInv, GotOK
<1> QED BY <1>1, <1>2, <1>3, StepKeeps

LEMMA OpenInv == ASSUME IInv, NEW c \in Callers, Open(c) PROVE IInv'
<1>1. /\ TypeOK' /\ OnlyOf(c)
      /\ UNCHANGED <<made, request, dir, todo, ran, found, files, lock, loaded>>
      /\ pc[c] = "open"
      /\ \/ opened' = opened \union {c} /\ pc'[c] = "upload" /\ UNCHANGED answer
         \/ /\ UNCHANGED opened /\ pc'[c] = "idle"
            /\ Answered(c, Crash, found[c], request[c])
  BY OpenStep DEF IInv
<1>2. c \notin loaded /\ c \notin opened /\ \A d \in DOMAIN lock : lock[d] # c
  BY <1>1 DEF IInv, HoldOK, LockedSteps, OpenSteps
<1>3. CASE UNCHANGED opened /\ pc'[c] = "idle" /\ Answered(c, Crash, found[c], request[c])
  BY <1>1, <1>2, <1>3, EndKeeps DEF Crash, Ok
<1>4. CASE opened' = opened \union {c} /\ pc'[c] = "upload" /\ UNCHANGED answer
  <2>1. CallOK(c)'
    BY <1>1, <1>4 DEF IInv, CallOK, ToolSteps, DeviceSteps, LockedSteps, SimSteps, OpenSteps
  <2>2. HoldOK(c)'
    BY <1>1, <1>2, <1>4 DEF HoldOK, LockedSteps, OpenSteps
  <2>3. GotOK(c)'
    BY <1>1, <1>4 DEF IInv, GotOK
  <2> QED BY <1>1, <2>1, <2>2, <2>3, StepKeeps
<1> QED BY <1>1, <1>3, <1>4

\* Tensors are passed in and the program runs, with the simulator open.
LEMMA SimulateInv ==
  ASSUME IInv, NEW c \in Callers, Upload(c) \/ Launch(c)
  PROVE  IInv'
<1>1. /\ TypeOK' /\ OnlyOf(c)
      /\ UNCHANGED <<made, request, dir, todo, ran, files, lock, loaded, opened, answer>>
      /\ pc[c] \in {"upload", "launch"} /\ pc'[c] \in OpenSteps
  BY UploadStep, LaunchStep DEF IInv, OpenSteps
<1>2. CallOK(c)'
  BY <1>1 DEF IInv, CallOK, ToolSteps, DeviceSteps, LockedSteps, SimSteps, OpenSteps
<1>3. HoldOK(c)'
  BY <1>1 DEF IInv, HoldOK, LockedSteps, OpenSteps
<1>4. GotOK(c)'
  BY <1>1 DEF IInv, GotOK, OpenSteps
<1> QED BY <1>1, <1>2, <1>3, <1>4, StepKeeps

LEMMA CloseInv == ASSUME IInv, NEW c \in Callers, Close(c) PROVE IInv'
<1>1. /\ TypeOK' /\ OnlyOf(c)
      /\ UNCHANGED <<made, request, dir, todo, ran, found, files, lock, loaded>>
      /\ pc[c] \in {"close", "give up", "break off"} /\ pc'[c] = "idle" /\ opened' = opened \ {c}
      /\ \E code : Answered(c, code, found[c], request[c])
  BY CloseStep DEF IInv
<1>2. /\ c \notin loaded /\ c \notin opened' /\ \A d \in DOMAIN lock : lock[d] # c
      /\ request[c].op = "simulate"
  BY <1>1 DEF IInv, HoldOK, CallOK, LockedSteps, SimSteps, OpenSteps
<1> QED BY <1>1, <1>2, EndKeeps

LEMMA StepInv == IInv /\ [Next]_vars => IInv'
<1> SUFFICES ASSUME IInv, [Next]_vars PROVE IInv'
  OBVIOUS
<1>1. ASSUME NEW c \in Callers, NEW r \in Requests, Begin(c, r) PROVE IInv'
  BY <1>1, BeginInv
<1>2. ASSUME NEW c \in Callers, Step(c) PROVE IInv'
  BY <1>2, InvokeInv, JudgeInv, LoadInv, UseInv, UnloadInv, ReleaseInv, OpenInv, SimulateInv,
     CloseInv DEF Step
<1>3. ASSUME NEW c \in Callers, Compare(c) PROVE IInv'
  BY <1>3, CompareInv
<1>4. CASE UNCHANGED vars
  BY <1>4 DEF vars, IInv, TypeOK, CallOK, HoldOK, GotOK
<1> QED BY <1>1, <1>2, <1>3, <1>4 DEF Next

-----------------------------------------------------------------------------
(* Theorems.                                                                *)

\* What a call holds at each of its steps, whichever step fails before: the
\* device with the lock of its directory, or the simulator, or nothing.
\* (invoke, run and TTRunner over every way a tool or a device may end.)
THEOREM Inductive == Spec => []IInv
<1>1. Init => IInv
  BY InitInv
<1>2. IInv /\ [Next]_vars => IInv'
  BY StepInv
<1> QED BY <1>1, <1>2, PTL DEF Spec

\* Between calls a process has no program loaded, no lock and no simulator open.
\* (The finally clauses of run and of TTRunner.)
THEOREM ThingsAreGivenBack == Spec => []NothingLeftOpen
<1>1. IInv => NothingLeftOpen
  <2> SUFFICES ASSUME IInv, NEW c \in Callers, pc[c] = "idle"
               PROVE  c \notin loaded \union opened \union Range(lock)
    BY DEF NothingLeftOpen
  <2> QED BY IdleHoldsNothing DEF Range
<1> QED BY <1>1, Inductive, PTL

LEMMA LoadedIsLocked ==
  ASSUME IInv, NEW c \in loaded
  PROVE  /\ c \in Callers /\ dir[c] \in DOMAIN lock /\ lock[dir[c]] = c
         /\ request[c] \in Requests /\ request[c].op = "run"
         /\ request[c].workdir # "none" => dir[c] = <<request[c].workdir, 0>>
<1>1. c \in Callers
  BY DEF IInv, TypeOK
<1>2. pc[c] \in {"use", "unload", "abandon"}
  BY <1>1 DEF IInv, HoldOK
<1> QED BY <1>1, <1>2 DEF IInv, HoldOK, CallOK, LockedSteps, DeviceSteps

\* The lock of one directory lets one process at a time onto the device: programs
\* that are loaded together have different directories.  (run under its FileLock.)
THEOREM DirectoriesAreExclusive == Spec => []OneProgramPerDirectory
<1>1. IInv => OneProgramPerDirectory
  BY LoadedIsLocked DEF OneProgramPerDirectory
<1> QED BY <1>1, Inductive, PTL

\* If all runs are asked for in one directory, there is never more than one
\* program on the device.  (With scratch directories there may be: the lock file
\* is in the work directory.)
THEOREM DeviceIsExclusive ==
  ASSUME NEW w, w # "none", \A r \in Requests : r.op = "run" => r.workdir = w
  PROVE  Spec => []DeviceExclusive
<1>1. IInv => DeviceExclusive
  <2> SUFFICES ASSUME IInv PROVE DeviceExclusive
    OBVIOUS
  <2>1. \A c, d \in loaded : c = d
    BY LoadedIsLocked
  <2>2. CASE loaded = {}
    BY <2>2, FS_EmptySet DEF DeviceExclusive
  <2>3. CASE loaded # {}
    <3>1. PICK c \in loaded : TRUE
      BY <2>3
    <3>2. loaded = {c}
      BY <2>1, <3>1
    <3> QED BY <3>2, FS_Singleton DEF DeviceExclusive
  <2> QED BY <2>2, <2>3
<1> QED BY <1>1, Inductive, PTL

-----------------------------------------------------------------------------
(* The comparison.                                                          *)

\* Arrays have finitely many elements.
LEMMA ElementsAreFinite ==
  ASSUME NEW S, NEW arrays \in Seq(Seq(S))
  PROVE  IsFiniteSet(Elements(arrays))
<1> DEFINE K == 1 .. Len(arrays)
           row == [k \in K |-> {k} \X DOMAIN arrays[k]]
           Rows == {row[k] : k \in K}
<1>1. DOMAIN arrays = K /\ Len(arrays) \in Nat /\ IsFiniteSet(K)
  BY FS_Interval
<1>2. Elements(arrays) = UNION Rows
  BY <1>1 DEF Elements
<1>3. ASSUME NEW k \in K PROVE IsFiniteSet(row[k])
  <2>1. arrays[k] \in Seq(S)
    OBVIOUS
  <2>2. DOMAIN arrays[k] = 1 .. Len(arrays[k]) /\ Len(arrays[k]) \in Nat
    BY <2>1
  <2>3. IsFiniteSet(DOMAIN arrays[k]) /\ IsFiniteSet({k})
    <3>1. IsFiniteSet(1 .. Len(arrays[k]))
      BY <2>2, FS_Interval
    <3> QED BY <2>2, <3>1, FS_Singleton, Zenon
  <2>4. IsFiniteSet({k} \X DOMAIN arrays[k])
    BY <2>3, FS_Product
  <2> QED BY <2>4
<1>4. row \in Surjection(K, Rows)
  BY DEF Surjection
<1> HIDE DEF Rows, row, K
<1>5. IsFiniteSet(Rows)
  BY <1>1, <1>4, FS_Surjection
<1>6. \A T \in Rows : IsFiniteSet(T)
  BY <1>3 DEF Rows
<1> QED BY <1>2, <1>5, <1>6, FS_UNION

\* What matches has the oracle's shape and differs from it nowhere.
LEMMA MatchedDiff ==
  ASSUME NEW got, Diff(got, Oracle).matched
  PROVE  /\ Len(got) = Len(Oracle)
         /\ \A k \in DOMAIN Oracle : Len(got[k]) = Len(Oracle[k])
         /\ Mismatched(got, Oracle) = {}
<1> DEFINE reshaped == {k \in DOMAIN Oracle : Len(got[k]) # Len(Oracle[k])}
           m == Cardinality(Mismatched(got, Oracle))
<1>1. Len(got) = Len(Oracle) /\ reshaped = {} /\ m = 0
  <2> HIDE DEF m
  <2>1. CASE Len(got) # Len(Oracle)
    BY <2>1 DEF Diff
  <2>2. CASE Len(got) = Len(Oracle) /\ reshaped # {}
    BY <2>2 DEF Diff
  <2>3. CASE Len(got) = Len(Oracle) /\ reshaped = {}
    BY <2>3 DEF Diff, m
  <2> QED BY <2>1, <2>2, <2>3
<1>2. Oracle \in Seq(Seq(Int \union {NaN}))
  BY NumbersAssumption
<1>3. IsFiniteSet(Elements(Oracle))
  BY <1>2, ElementsAreFinite
<1>4. IsFiniteSet(Mismatched(got, Oracle))
  <2>1. Mismatched(got, Oracle) \subseteq Elements(Oracle)
    BY DEF Mismatched
  <2> QED BY <1>3, <2>1, FS_Subset
<1> QED BY <1>1, <1>4, FS_EmptySet

\* A match is what it says: all arrays in their shapes, and no number further from
\* the oracle's than the tolerance.  (diff, of what run returned.)
THEOREM MatchesAgree == Spec => []MatchIsAgreement
<1>1. IInv => MatchIsAgreement
  <2> SUFFICES ASSUME IInv, NEW c \in Callers, answer[c].report.matched
               PROVE  LET got == answer[c].got IN
                      /\ Len(got) = Len(Oracle)
                      /\ \A k \in DOMAIN Oracle :
                           /\ Len(got[k]) = Len(Oracle[k])
                           /\ \A i \in DOMAIN Oracle[k] :
                                NaN \in {got[k][i], Oracle[k][i]}
                                \/ got[k][i] \in Oracle[k][i] - Tol .. Oracle[k][i] + Tol
    BY DEF MatchIsAgreement
  <2> DEFINE got == answer[c].got
  <2>1. answer[c].report # NoReport
    BY DEF NoReport
  <2>2. got \in Results /\ Diff(got, Oracle).matched
    BY <2>1 DEF IInv, GotOK
  <2>3. /\ got \in Seq(Seq(Int \union {NaN})) /\ Oracle \in Seq(Seq(Int \union {NaN}))
        /\ Tol \in Nat
    BY <2>2, NumbersAssumption
  <2> HIDE DEF got
  <2>4. /\ Len(got) = Len(Oracle)
        /\ \A k \in DOMAIN Oracle : Len(got[k]) = Len(Oracle[k])
        /\ Mismatched(got, Oracle) = {}
    BY <2>2, MatchedDiff
  <2>5. ASSUME NEW k \in DOMAIN Oracle, NEW i \in DOMAIN Oracle[k]
        PROVE  NaN \in {got[k][i], Oracle[k][i]}
               \/ got[k][i] \in Oracle[k][i] - Tol .. Oracle[k][i] + Tol
    <3>1. Len(got[k]) = Len(Oracle[k]) /\ k \in DOMAIN got
      BY <2>3, <2>4
    <3>2. Oracle[k] \in Seq(Int \union {NaN}) /\ got[k] \in Seq(Int \union {NaN})
      BY <2>3, <3>1
    <3>3. Oracle[k][i] \in Int \union {NaN} /\ got[k][i] \in Int \union {NaN}
      BY <3>1, <3>2
    <3>4. ~Differs(got[k][i], Oracle[k][i])
      <4>1. <<k, i>> \in Elements(Oracle)
        BY DEF Elements
      <4>2. <<k, i>>[1] = k /\ <<k, i>>[2] = i
        OBVIOUS
      <4>3. Differs(got[k][i], Oracle[k][i]) => <<k, i>> \in Mismatched(got, Oracle)
        BY <4>1, <4>2, Zenon DEF Mismatched
      <4> QED BY <2>4, <4>3
    <3>5. CASE got[k][i] # NaN /\ Oracle[k][i] # NaN
      <4>1. got[k][i] \in Int /\ Oracle[k][i] \in Int
        BY <3>3, <3>5
      <4> QED BY <2>3, <3>4, <3>5, <4>1 DEF Differs
    <3> QED BY <3>5
  <2> QED BY <2>4, <2>5 DEF got
<1> QED BY <1>1, Inductive, PTL

-----------------------------------------------------------------------------
(* Builds in scratch directories.                                           *)

\* A good verdict is given to a clean run only.
LEMMA VerdictIsClean == ASSUME NEW o, Verdict(o) = Ok PROVE Clean(o)
BY DEF Verdict, Clean, Ok

\* A build works in the directory of its own latest call.
LEMMA BuildDirectory ==
  ASSUME IInv, ScratchBuilds, NEW c \in Callers, pc[c] \in ToolSteps
  PROVE  /\ request[c] \in Requests /\ request[c].op \in Builds
         /\ dir[c] = <<c, made[c] - 1>> /\ made[c] \in Nat
<1>1. pc[c] # "idle" /\ made[c] \in Nat
  BY DEF IInv, TypeOK, ToolSteps
<1> QED BY <1>1 DEF IInv, CallOK, ScratchBuilds

\* What another process does leaves a build alone, unless it writes a file into
\* the build's directory, or into one that is not yet in use.
LEMMA OthersBuild ==
  ASSUME NEW x \in Callers, Same(x), BuildOK(x), AnswerOK(x), FreshOK(x),
         \A e \in DOMAIN files' : \/ e \in DOMAIN files /\ files'[e] = files[e]
                                  \/ e[1][1] # x /\ (pc[x] \in ToolSteps => e[1] # dir[x])
  PROVE  BuildOK(x)' /\ AnswerOK(x)' /\ FreshOK(x)'
<1>1. BuildOK(x)'
  <2> SUFFICES ASSUME pc[x] \in ToolSteps
               PROVE  BuildOK(x)'
    BY DEF BuildOK, Same
  <2>1. \A e \in DOMAIN files' : e[1] = dir[x] => e \in DOMAIN files /\ files'[e] = files[e]
    OBVIOUS
  <2> QED BY <2>1 DEF BuildOK, Same
<1>2. AnswerOK(x)'
  BY DEF AnswerOK, Same
<1>3. FreshOK(x)'
  BY DEF FreshOK, Same
<1> QED BY <1>1, <1>2, <1>3

\* A step that writes no file keeps the other builds.
LEMMA BuildStepKeeps ==
  ASSUME BuildInv, NEW c \in Callers, OnlyOf(c), UNCHANGED files,
         BuildOK(c)', AnswerOK(c)', FreshOK(c)'
  PROVE  BuildInv'
<1>1. ASSUME NEW x \in Callers PROVE BuildOK(x)' /\ AnswerOK(x)' /\ FreshOK(x)'
  <2>1. CASE x = c
    BY <2>1
  <2>2. CASE x # c
    <3>1. Same(x) /\ BuildOK(x) /\ AnswerOK(x) /\ FreshOK(x)
      BY <2>2 DEF BuildInv, OnlyOf
    <3>2. \A e \in DOMAIN files' : e \in DOMAIN files /\ files'[e] = files[e]
      OBVIOUS
    <3> QED BY <3>1, <3>2, OthersBuild
  <2> QED BY <2>1, <2>2
<1> QED BY <1>1 DEF BuildInv

\* So does one of a call that is no build, if it ends in no build either.
LEMMA NoBuildKeeps ==
  ASSUME BuildInv, NEW c \in Callers, OnlyOf(c), UNCHANGED <<files, made>>,
         pc'[c] \notin ToolSteps,
         pc'[c] = "idle" =>
           ~(answer'[c].code = Ok /\ answer'[c].asked.op \in Builds)
  PROVE  BuildInv'
<1>1. BuildOK(c)' /\ AnswerOK(c)'
  BY DEF BuildOK, AnswerOK
<1>2. FreshOK(c)'
  BY DEF BuildInv, FreshOK
<1> QED BY <1>1, <1>2, BuildStepKeeps

LEMMA InitBuild == Init => BuildInv
<1> SUFFICES ASSUME Init, NEW c \in Callers PROVE BuildOK(c) /\ AnswerOK(c) /\ FreshOK(c)
  BY DEF BuildInv
<1>1. pc[c] = "idle" /\ answer[c].code = "none" /\ DOMAIN files = {}
  BY DEF Init
<1> QED BY <1>1 DEF BuildOK, AnswerOK, FreshOK, ToolSteps, Ok

LEMMA DoneNone == \A r, runs, reads : DoneWell(r, runs, reads, 0)
BY DEF DoneWell

\* A call begins with all its tool runs left, in an empty directory.
LEMMA BeginBuild ==
  ASSUME IInv, IInv', ScratchBuilds, BuildInv, NEW c \in Callers, NEW r \in Requests, Begin(c, r)
  PROVE  BuildInv'
<1>1. /\ OnlyOf(c) /\ UNCHANGED <<files, lock, loaded, opened>>
      /\ pc[c] = "idle" /\ made'[c] = made[c] + 1 /\ request'[c] = r
      /\ ran'[c] = <<>> /\ found'[c] = <<>>
      /\ Refused(c, r) \/ SetOff(c, r)
  BY BeginStep DEF IInv
<1>2. made[c] \in Nat /\ r.op \in Ops /\ FreshOK(c)
  BY RequestsAssumption DEF IInv, TypeOK, BuildInv
<1>3. FreshOK(c)'
  BY <1>1, <1>2 DEF FreshOK
<1>4. CASE Refused(c, r)
  <2>1. answer'[c].code # Ok /\ pc'[c] = "idle"
    BY <1>4 DEF Refused, Answered
  <2>2. BuildOK(c)' /\ AnswerOK(c)'
    BY <2>1 DEF BuildOK, AnswerOK, ToolSteps
  <2> QED BY <1>1, <1>3, <2>2, BuildStepKeeps
<1>5. CASE SetOff(c, r) /\ r.op \notin Builds
  <2>1. pc'[c] \in {"load", "open"}
    BY <1>2, <1>5 DEF SetOff, FirstStep, Ops, Builds
  <2>2. BuildOK(c)' /\ AnswerOK(c)'
    BY <2>1 DEF BuildOK, AnswerOK, ToolSteps
  <2> QED BY <1>1, <1>3, <2>2, BuildStepKeeps
<1>6. CASE SetOff(c, r) /\ r.op \in Builds
  <2>1. /\ pc'[c] = "tool" /\ todo'[c] = Invocations(r)
        /\ dir'[c] = <<c, made[c]>>
    BY <1>6 DEF SetOff, FirstStep, Builds, DirOf, ScratchBuilds
  <2>2. AnswerOK(c)'
    BY <2>1 DEF AnswerOK
  <2>3. BuildOK(c)'
    <3> DEFINE steps == Invocations(r)
    <3>1. IsSeq(steps) /\ Len(steps) \in Nat
      BY <1>6, InvocationsAreSeq, SeqLen
    <3>2. \A e \in DOMAIN files' : e[1] # dir'[c]
      BY <1>1, <1>2, <2>1 DEF FreshOK
    <3>3. Len(found'[c]) = 0 /\ Len(ran'[c]) = 0 /\ todo'[c] = steps
      BY <1>1, <2>1, SeqEmpty
    <3> HIDE DEF steps
    <3>4. /\ 0 + Len(todo'[c]) = Len(steps)
          /\ \A k \in 1 .. Len(todo'[c]) : todo'[c][k] = steps[0 + k]
      BY <3>1, <3>3
    <3>5. DoneWell(r, ran'[c], found'[c], 0)
      BY DoneNone
    <3> QED BY <1>1, <2>1, <3>2, <3>3, <3>4, <3>5 DEF BuildOK, steps
  <2> QED BY <1>1, <1>3, <2>2, <2>3, BuildStepKeeps
<1> QED BY <1>1, <1>4, <1>5, <1>6

\* A tool run is added to the runs, and what it wrote to the files: good if the
\* run ended well.
LEMMA InvokeBuild ==
  ASSUME IInv, ScratchBuilds, BuildInv, NEW c \in Callers, Invoke(c)
  PROVE  BuildInv'
<1> DEFINE r == request[c]
           steps == Invocations(r)
           n == Len(found[c])
<1>1. /\ OnlyOf(c) /\ UNCHANGED <<made, request, dir, todo, found, lock, loaded, opened>>
      /\ pc[c] = "tool"
      /\ \/ /\ todo[c] = <<>> /\ pc'[c] = "idle"
            /\ Answered(c, Ok, found[c], request[c]) /\ UNCHANGED <<ran, files>>
         \/ /\ pc'[c] = "idle" /\ Answered(c, "TOOL-AIRCC-FAILED", found[c], request[c])
            /\ UNCHANGED <<ran, files>>
         \/ /\ todo[c] # <<>> /\ pc'[c] = "judge" /\ UNCHANGED answer
            /\ \E o \in ToolEnds :
                 /\ ran'[c] = Append(ran[c], o)
                 /\ files' = IF o.wrote = "nothing" THEN files
                             ELSE With(files, <<dir[c], todo[c][1].file>>,
                                       [by |-> todo[c][1].file, job |-> request[c].job,
                                        good |-> o.wrote = "output"])
  BY InvokeStep DEF IInv
<1>2. /\ r \in Requests /\ r.op \in Builds /\ dir[c] = <<c, made[c] - 1>> /\ made[c] \in Nat
  BY <1>1, BuildDirectory DEF ToolSteps
<1>3. /\ n + Len(todo[c]) = Len(steps)
      /\ \A k \in 1 .. Len(todo[c]) : todo[c][k] = steps[n + k]
      /\ DoneWell(r, ran[c], found[c], n) /\ Len(ran[c]) = n
      /\ \A e \in DOMAIN files : e[1] = dir[c] => files[e] = GoodContent(r, e[2])
      /\ FreshOK(c)
  BY <1>1 DEF BuildInv, BuildOK, ToolSteps
<1>4. /\ IsSeq(ran[c]) /\ n \in Nat
  BY SeqLen DEF IInv, TypeOK
<1> HIDE DEF steps, n
<1>5. CASE /\ todo[c] = <<>> /\ pc'[c] = "idle"
           /\ Answered(c, Ok, found[c], request[c]) /\ UNCHANGED <<ran, files>>
  <2>1. n = Len(steps)
    BY <1>3, <1>4, <1>5, SeqEmpty
  <2>2. answer'[c].asked = r /\ answer'[c].got = found[c]
    BY <1>5 DEF Answered
  <2>3. AnswerOK(c)'
    BY <1>3, <1>5, <2>1, <2>2 DEF AnswerOK, steps
  <2>4. BuildOK(c)' /\ FreshOK(c)'
    BY <1>1, <1>3, <1>5 DEF BuildOK, FreshOK, ToolSteps
  <2> QED BY <1>1, <1>5, <2>3, <2>4, BuildStepKeeps
<1>6. CASE /\ pc'[c] = "idle" /\ Answered(c, "TOOL-AIRCC-FAILED", found[c], request[c])
           /\ UNCHANGED <<ran, files>>
  <2>1. answer'[c].code # Ok
    BY <1>6 DEF Answered, Ok
  <2> QED BY <1>1, <1>6, <2>1, NoBuildKeeps DEF ToolSteps
<1>7. ASSUME todo[c] # <<>>, pc'[c] = "judge", UNCHANGED answer,
             NEW o \in ToolEnds, ran'[c] = Append(ran[c], o),
             files' = IF o.wrote = "nothing" THEN files
                      ELSE With(files, <<dir[c], todo[c][1].file>>,
                                [by |-> todo[c][1].file, job |-> request[c].job,
                                 good |-> o.wrote = "output"])
      PROVE  BuildInv'
  <2> DEFINE place == <<dir[c], todo[c][1].file>>
  <2>1. ASSUME NEW e \in DOMAIN files'
        PROVE  \/ e \in DOMAIN files /\ files'[e] = files[e]
               \/ e = place /\ (files'[e] = GoodContent(r, e[2]) \/ ~Clean(o))
    <3>1. CASE o.wrote = "nothing"
      BY <1>7, <3>1
    <3>2. CASE o.wrote # "nothing"
      <4> DEFINE value == [by |-> todo[c][1].file, job |-> r.job, good |-> o.wrote = "output"]
      <4>1. files' = With(files, place, value)
        BY <1>7, <3>2
      <4> HIDE DEF place, value
      <4>2. \/ e = place /\ files'[e] = value
            \/ e \in DOMAIN files /\ files'[e] = files[e]
        BY <4>1 DEF With
      <4>3. CASE e = place /\ files'[e] = value
        <5>1. e[2] = todo[c][1].file
          BY <4>3 DEF place
        <5>2. CASE o.wrote = "output"
          BY <4>3, <5>1, <5>2 DEF GoodContent, value
        <5>3. CASE o.wrote = "rubbish"
          BY <4>3, <5>3 DEF ToolEnds, Clean
        <5> QED BY <3>2, <5>2, <5>3, <4>3 DEF ToolEnds
      <4> QED BY <4>2, <4>3
    <3> QED BY <3>1, <3>2
  <2>2. place[1] = dir[c] /\ place[1][1] = c /\ place[1][2] = made[c] - 1
    BY <1>2
  <2> HIDE DEF place
  <2>3. /\ Len(ran'[c]) = n + 1 /\ ran'[c][n + 1] = o
        /\ \A k \in 1 .. n : ran'[c][k] = ran[c][k]
    BY <1>3, <1>4, <1>7, SeqAppend
  <2>4. BuildOK(c)'
    <3>1. DoneWell(r, ran'[c], found[c], n)
      BY <1>3, <2>3 DEF DoneWell
    <3>2. ASSUME NEW e \in DOMAIN files', e[1] = dir[c]
          PROVE  files'[e] = GoodContent(r, e[2]) \/ ~Clean(ran'[c][n + 1])
      BY <1>3, <2>1, <2>3, <3>2
    <3> QED BY <1>1, <1>3, <1>7, <2>3, <3>1, <3>2 DEF BuildOK, n, steps
  <2>5. AnswerOK(c)' /\ FreshOK(c)'
    <3>1. AnswerOK(c)'
      BY <1>7 DEF AnswerOK
    <3>2. ASSUME NEW e \in DOMAIN files', e[1][1] = c
          PROVE  e[1][2] \in 0 .. made[c] - 1
      <4>1. made[c] > 0
        BY <1>1 DEF IInv, CallOK
      <4>2. CASE e = place
        BY <1>2, <2>2, <4>1, <4>2
      <4>3. CASE e \in DOMAIN files
        BY <1>3, <3>2, <4>3 DEF FreshOK
      <4> QED BY <2>1, <4>2, <4>3
    <3> QED BY <1>1, <3>1, <3>2 DEF FreshOK
  <2>6. ASSUME NEW x \in Callers, x # c PROVE BuildOK(x)' /\ AnswerOK(x)' /\ FreshOK(x)'
    <3>1. Same(x) /\ BuildOK(x) /\ AnswerOK(x) /\ FreshOK(x)
      BY <1>1, <2>6 DEF BuildInv, OnlyOf
    <3>2. pc[x] \in ToolSteps => dir[x] = <<x, made[x] - 1>>
      BY BuildDirectory
    <3>3. pc[x] \in ToolSteps => place[1] # dir[x]
      BY <1>2, <2>2, <2>6, <3>2
    <3>4. \A e \in DOMAIN files' : \/ e \in DOMAIN files /\ files'[e] = files[e]
                                   \/ e[1][1] # x /\ (pc[x] \in ToolSteps => e[1] # dir[x])
      BY <2>1, <2>2, <2>6, <3>3
    <3> QED BY <3>1, <3>4, OthersBuild
  <2> QED BY <2>4, <2>5, <2>6 DEF BuildInv
<1> QED BY <1>1, <1>5, <1>6, <1>7

\* A file that is not there is passed over only if it is not looked for.
LEMMA MissingIsAllowed ==
  ASSUME NEW r, r.op \in Builds, NEW k \in 1 .. Len(Invocations(r)), NEW file,
         file = Invocations(r)[k].file, Missing(r, file) = Ok
  PROVE  file \in {"none", "trace"}
<1>1. CASE r.op = "artifact"
  <2> SUFFICES ASSUME file # "none" PROVE FALSE
    OBVIOUS
  <2> QED BY <1>1 DEF Missing, Ok, Crash
<1>2. CASE r.op = "facts"
  BY <1>2 DEF Missing, Ok, Crash
<1>3. CASE r.op = "trace"
  <2>1. file \in {"async", "trace"}
    BY <1>3, InvocationsAreSeq
  <2> QED BY <1>3, <2>1 DEF Missing, Ok, Crash
<1> QED BY <1>1, <1>2, <1>3 DEF Builds

\* A clean run's file is read; it is good, or it is one that is not looked at.
LEMMA JudgeBuild ==
  ASSUME IInv, ScratchBuilds, BuildInv, NEW c \in Callers, Judge(c)
  PROVE  BuildInv'
<1> DEFINE r == request[c]
           steps == Invocations(r)
           n == Len(found[c])
           o == ran[c][Len(ran[c])]
           file == todo[c][1].file
           there == <<dir[c], file>> \in DOMAIN files
           content == IF there THEN files[<<dir[c], file>>] ELSE Nothing
           read == [file |-> file, content |-> content]
<1>1. todo[c] # <<>> /\ pc[c] = "judge" /\ ran[c] # <<>>
  BY DEF IInv, CallOK, Judge, At
<1>2. /\ OnlyOf(c) /\ UNCHANGED <<made, request, dir, ran, files, lock, loaded, opened>>
      /\ \/ /\ pc'[c] = "idle" /\ UNCHANGED <<todo, found>>
            /\ \E code : code # Ok /\ Answered(c, code, found[c], r)
         \/ /\ Verdict(o) = Ok /\ (there \/ Missing(r, file) = Ok)
            /\ found'[c] = Append(found[c], read)
            /\ todo'[c] = Tail(todo[c])
            /\ \/ /\ Len(todo[c]) = 1 /\ pc'[c] = "idle"
                  /\ Answered(c, Ok, found'[c], r)
               \/ Len(todo[c]) # 1 /\ pc'[c] = "tool" /\ UNCHANGED answer
               \/ pc'[c] = "idle" /\ Answered(c, "TOOL-AIRCC-FAILED", found'[c], r)
  BY <1>1, JudgeStep DEF IInv
<1>3. /\ r \in Requests /\ r.op \in Builds
  BY <1>1, BuildDirectory DEF ToolSteps
<1>4. /\ n + Len(todo[c]) = Len(steps)
      /\ \A k \in 1 .. Len(todo[c]) : todo[c][k] = steps[n + k]
      /\ DoneWell(r, ran[c], found[c], n) /\ Len(ran[c]) = n + 1
      /\ \A e \in DOMAIN files : e[1] = dir[c] =>
           files[e] = GoodContent(r, e[2]) \/ ~Clean(ran[c][n + 1])
      /\ FreshOK(c)
  BY <1>1 DEF BuildInv, BuildOK, ToolSteps
<1>5. IsSeq(found[c]) /\ IsSeq(todo[c]) /\ n \in Nat /\ Len(todo[c]) \in Nat /\ Len(todo[c]) > 0
  BY <1>1, SeqLen, SeqTail DEF IInv, TypeOK
<1> HIDE DEF steps, n, o, there, content, read, file
<1>6. ASSUME NEW code, NEW got, code # Ok, pc'[c] = "idle", Answered(c, code, got, r)
      PROVE  BuildInv'
  <2>1. answer'[c].code # Ok
    BY <1>6 DEF Answered
  <2> QED BY <1>2, <1>6, <2>1, NoBuildKeeps DEF ToolSteps
<1>7. ASSUME Verdict(o) = Ok, there \/ Missing(r, file) = Ok,
             found'[c] = Append(found[c], read), todo'[c] = Tail(todo[c])
      PROVE  /\ DoneWell(r, ran[c], found'[c], n + 1) /\ Len(found'[c]) = n + 1
             /\ \A e \in DOMAIN files : e[1] = dir[c] => files[e] = GoodContent(r, e[2])
             /\ n + 1 + Len(todo'[c]) = Len(steps)
             /\ \A k \in 1 .. Len(todo'[c]) : todo'[c][k] = steps[n + 1 + k]
  <2>1. Clean(ran[c][n + 1])
    BY <1>4, <1>7, VerdictIsClean DEF o
  <2>2. \A e \in DOMAIN files : e[1] = dir[c] => files[e] = GoodContent(r, e[2])
    BY <1>4, <2>1
  <2>3. /\ Len(found'[c]) = n + 1 /\ found'[c][n + 1] = read
        /\ \A k \in 1 .. n : found'[c][k] = found[c][k]
    BY <1>5, <1>7, SeqAppend DEF n
  <2>4. file = steps[n + 1].file /\ n + 1 \in 1 .. Len(steps)
    <3>1. todo[c][1] = steps[n + 1] /\ n + 1 \in 1 .. Len(steps)
      BY <1>4, <1>5
    <3> QED BY <3>1 DEF file
  <2>5. file \in {"none", "trace"} \/ read.content = GoodContent(r, file)
    <3>1. CASE there
      <4>1. <<dir[c], file>>[1] = dir[c] /\ <<dir[c], file>>[2] = file
        OBVIOUS
      <4>2. files[<<dir[c], file>>] = GoodContent(r, file)
        BY <2>2, <3>1, <4>1 DEF there
      <4> QED BY <3>1, <4>2 DEF read, content
    <3>2. CASE ~there
      BY <1>3, <1>7, <2>4, <3>2, MissingIsAllowed DEF steps
    <3> QED BY <3>1, <3>2
  <2>6. DoneWell(r, ran[c], found'[c], n + 1)
    <3>1. ASSUME NEW k \in 1 .. n + 1
          PROVE  /\ Clean(ran[c][k])
                 /\ \/ steps[k].file \in {"none", "trace"}
                    \/ found'[c][k].content = GoodContent(r, steps[k].file)
      <4>1. CASE k = n + 1
        BY <2>1, <2>3, <2>4, <2>5, <4>1
      <4>2. CASE k \in 1 .. n
        BY <1>4, <2>3, <4>2 DEF DoneWell, steps
      <4> QED BY <1>5, <4>1, <4>2
    <3> QED BY <3>1 DEF DoneWell, steps
  <2>7. /\ n + 1 + Len(todo'[c]) = Len(steps)
        /\ \A k \in 1 .. Len(todo'[c]) : todo'[c][k] = steps[n + 1 + k]
    <3>1. /\ Len(todo'[c]) = Len(todo[c]) - 1
          /\ \A k \in 1 .. Len(todo[c]) - 1 : todo'[c][k] = todo[c][k + 1]
      BY <1>1, <1>5, <1>7, SeqTail
    <3>2. ASSUME NEW k \in 1 .. Len(todo'[c]) PROVE todo'[c][k] = steps[n + 1 + k]
      <4>1. k + 1 \in 1 .. Len(todo[c]) /\ todo'[c][k] = todo[c][k + 1]
        BY <1>5, <3>1
      <4>2. todo[c][k + 1] = steps[n + (k + 1)]
        BY <1>4, <4>1
      <4>3. n + (k + 1) = n + 1 + k
        BY <1>5, <3>1
      <4> QED BY <4>1, <4>2, <4>3
    <3>3. n + 1 + Len(todo'[c]) = Len(steps)
      <4>1. Len(todo'[c]) = Len(todo[c]) - 1 /\ n + Len(todo[c]) = Len(steps)
        BY <1>4, <3>1
      <4>2. \A a, b \in Nat : (a + 1) + (b - 1) = a + b
        OBVIOUS
      <4>3. n \in Nat /\ Len(todo[c]) \in Nat
        BY <1>5
      <4>4. (n + 1) + (Len(todo[c]) - 1) = n + Len(todo[c])
        BY <4>2, <4>3
      <4>5. (n + 1) + Len(todo'[c]) = (n + 1) + (Len(todo[c]) - 1)
        BY <4>1
      <4> QED BY <4>1, <4>4, <4>5
    <3> QED BY <3>2, <3>3
  <2> QED BY <2>2, <2>3, <2>6, <2>7
<1>8. ASSUME Verdict(o) = Ok, there \/ Missing(r, file) = Ok,
             found'[c] = Append(found[c], read), todo'[c] = Tail(todo[c]),
             Len(todo[c]) = 1, pc'[c] = "idle", Answered(c, Ok, found'[c], r)
      PROVE  BuildInv'
  <2>1. answer'[c].asked = r /\ answer'[c].got = found'[c]
    BY <1>8 DEF Answered
  <2>2. Len(ran[c]) = Len(steps) /\ DoneWell(r, ran[c], found'[c], Len(ran[c]))
    BY <1>4, <1>5, <1>7, <1>8
  <2>3. AnswerOK(c)'
    BY <1>2, <2>1, <2>2 DEF AnswerOK, steps
  <2>4. BuildOK(c)' /\ FreshOK(c)'
    BY <1>2, <1>4, <1>8 DEF BuildOK, FreshOK, ToolSteps
  <2> QED BY <1>2, <2>3, <2>4, BuildStepKeeps
<1>9. ASSUME Verdict(o) = Ok, there \/ Missing(r, file) = Ok,
             found'[c] = Append(found[c], read), todo'[c] = Tail(todo[c]),
             pc'[c] = "tool"
      PROVE  BuildInv'
  <2>1. BuildOK(c)'
    BY <1>2, <1>4, <1>5, <1>7, <1>9 DEF BuildOK, steps
  <2>2. AnswerOK(c)' /\ FreshOK(c)'
    BY <1>2, <1>4, <1>9 DEF AnswerOK, FreshOK
  <2> QED BY <1>2, <2>1, <2>2, BuildStepKeeps
<1>10. "TOOL-AIRCC-FAILED" # Ok
  BY DEF Ok
<1> QED BY <1>2, <1>6, <1>8, <1>9, <1>10

LEMMA BuildStep ==
  ScratchBuilds /\ IInv /\ IInv' /\ BuildInv /\ [Next]_vars => BuildInv'
<1> SUFFICES ASSUME ScratchBuilds, IInv, IInv', BuildInv, [Next]_vars PROVE BuildInv'
  OBVIOUS
<1>1. ASSUME NEW c \in Callers, NEW r \in Requests, Begin(c, r) PROVE BuildInv'
  BY <1>1, BeginBuild
<1>2. ASSUME NEW c \in Callers, Invoke(c) \/ Judge(c) PROVE BuildInv'
  BY <1>2, InvokeBuild, JudgeBuild
<1>3. ASSUME NEW c \in Callers, Load(c) \/ Use(c) \/ Unload(c) \/ Release(c) PROVE BuildInv'
  <2>1. /\ OnlyOf(c) /\ UNCHANGED <<made, files, request>>
        /\ pc[c] \in DeviceSteps /\ pc'[c] \in {"idle"} \union LockedSteps
        /\ pc'[c] = "idle" => \E code, got : Answered(c, code, got, request[c])
    BY <1>3, LoadStep, UseStep, UnloadStep, ReleaseStep DEF IInv, DeviceSteps, LockedSteps
  <2>2. request[c].op = "run"
    BY <2>1 DEF IInv, CallOK
  <2>3. pc'[c] \notin ToolSteps
    BY <2>1 DEF ToolSteps, LockedSteps
  <2>4. ASSUME pc'[c] = "idle" PROVE answer'[c].asked.op \notin Builds
    <3>1. PICK code, got : Answered(c, code, got, request[c])
      BY <2>1, <2>4
    <3>2. answer'[c].asked = request[c]
      BY <3>1 DEF Answered
    <3> QED BY <2>2, <3>2 DEF Builds
  <2> QED BY <2>1, <2>3, <2>4, NoBuildKeeps
<1>4. ASSUME NEW c \in Callers, Open(c) \/ Upload(c) \/ Launch(c) \/ Close(c) PROVE BuildInv'
  <2>1. /\ OnlyOf(c) /\ UNCHANGED <<made, files, request>>
        /\ pc[c] \in SimSteps /\ pc'[c] \in {"idle"} \union SimSteps
        /\ pc'[c] = "idle" => \E code, got : Answered(c, code, got, request[c])
    BY <1>4, OpenStep, UploadStep, LaunchStep, CloseStep DEF IInv, SimSteps, OpenSteps
  <2>2. request[c].op = "simulate"
    BY <2>1 DEF IInv, CallOK
  <2>3. pc'[c] \notin ToolSteps
    BY <2>1 DEF ToolSteps, SimSteps, OpenSteps
  <2>4. ASSUME pc'[c] = "idle" PROVE answer'[c].asked.op \notin Builds
    <3>1. PICK code, got : Answered(c, code, got, request[c])
      BY <2>1, <2>4
    <3>2. answer'[c].asked = request[c]
      BY <3>1 DEF Answered
    <3> QED BY <2>2, <3>2 DEF Builds
  <2> QED BY <2>1, <2>3, <2>4, NoBuildKeeps
<1>5. ASSUME NEW c \in Callers, Compare(c) PROVE BuildInv'
  <2>1. /\ OnlyOf(c) /\ UNCHANGED <<made, files, pc>>
        /\ pc[c] = "idle" /\ answer[c].asked.op = "run"
        /\ answer'[c] = [answer[c] EXCEPT !.report = Diff(answer[c].got, Oracle)]
        /\ DOMAIN answer[c] = {"code", "got", "asked", "report"}
    BY <1>5, CompareStep DEF IInv, TypeOK
  <2>2. answer'[c].asked.op = "run"
    BY <2>1
  <2>3. pc'[c] \notin ToolSteps /\ answer'[c].asked.op \notin Builds
    BY <2>1, <2>2 DEF ToolSteps, Builds
  <2> QED BY <2>1, <2>3, NoBuildKeeps
<1>6. CASE UNCHANGED vars
  BY <1>6 DEF vars, BuildInv, BuildOK, AnswerOK, FreshOK
<1> QED BY <1>1, <1>2, <1>3, <1>4, <1>5, <1>6 DEF Next, Step

\* If builds are made in scratch directories, one that is answered with success
\* ran all its tools, all ended well, and what it names is what the right tool
\* run wrote of its own module: never what a run that failed left behind.
\* (artifact, ir_facts and trace over invoke and verdict.)  In a directory that is
\* used again this is false: see the hazard at m6_tools.py:368.
THEOREM BuildsAreGood ==
  ASSUME ScratchBuilds
  PROVE  Spec => []ReturnedIsGood
<1>1. IInv /\ BuildInv => ReturnedIsGood
  <2> SUFFICES ASSUME IInv, BuildInv, NEW c \in Callers,
                      answer[c].code = Ok, pc[c] = "idle",
                      answer[c].asked.op \in {"artifact", "facts", "trace"}
               PROVE  LET r == answer[c].asked
                          steps == Invocations(r) IN
                      /\ Len(ran[c]) = Len(steps) /\ \A o \in Range(ran[c]) : Clean(o)
                      /\ \A k \in DOMAIN steps :
                           \/ steps[k].file \in {"none", "trace"}
                           \/ answer[c].got[k].content =
                                [by |-> steps[k].file, job |-> r.job, good |-> TRUE]
    BY DEF ReturnedIsGood
  <2> DEFINE r == answer[c].asked
             steps == Invocations(r)
  <2>1. Len(ran[c]) = Len(steps) /\ DoneWell(r, ran[c], answer[c].got, Len(ran[c]))
    BY DEF BuildInv, AnswerOK, Builds
  <2>2. DOMAIN ran[c] = 1 .. Len(ran[c]) /\ DOMAIN steps = 1 .. Len(steps)
    BY SeqLen, InvocationsAreSeq DEF IInv, TypeOK, Builds
  <2> HIDE DEF steps, r
  <2>3. \A o \in Range(ran[c]) : Clean(o)
    BY <2>1, <2>2 DEF DoneWell, Range
  <2>4. \A k \in DOMAIN steps :
          \/ steps[k].file \in {"none", "trace"}
          \/ answer[c].got[k].content = [by |-> steps[k].file, job |-> r.job, good |-> TRUE]
    BY <2>1, <2>2 DEF DoneWell, GoodContent, steps
  <2> QED BY <2>1, <2>3, <2>4 DEF steps, r
<1> QED BY <1>1, InitBuild, BuildStep, Inductive, PTL DEF Spec

=============================================================================
