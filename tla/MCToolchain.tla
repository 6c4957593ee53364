---------------------------- MODULE MCToolchain ----------------------------
(* Two processes; every kind of call with what makes its checks differ.      *)
EXTENDS Toolchain

AllTools == {"aircc", "air-opt", "air-runner", "xclbinutil"}

AnyHost ==
  {[pin |-> p, tools |-> t, device |-> d, simulator |-> d] :
     p \in {TRUE}, t \in {AllTools, AllTools \ {"air-runner", "xclbinutil"}}, d \in {TRUE}}
  \union {[pin |-> FALSE, tools |-> {}, device |-> FALSE, simulator |-> FALSE]}

Build(format) == [op |-> "artifact", job |-> "w1", target |-> "npu1", format |-> format,
                  workdir |-> "none"]
Facts(fs)     == [op |-> "facts", job |-> "w2", facts |-> fs, workdir |-> "none"]
Trace         == [op |-> "trace", job |-> "w3", workdir |-> "none"]
OnDevice(shapes, workdir) == [op |-> "run", job |-> "w1", shapes |-> shapes, workdir |-> workdir]
Simulate(given) == [op |-> "simulate", tensors |-> 1, given |-> given]

AllRequests ==
  {Build("none"), Build("pdi"), Build("xclbin"), [Build("pdi") EXCEPT !.target = "xcvc1902"],
   [Build("pdi") EXCEPT !.format = "elf"],
   Facts({"hoist_alloc_count", "pingpong_unroll", "cascade_channels"}), Facts({"speed"}), Facts({}),
   Trace, OnDevice(<<1>>, "shared"), OnDevice(<<1, 1>>, "shared"),
   OnDevice(<<2>>, "shared"), OnDevice(<<1, 1, 1, 1, 1, 1>>, "shared"),
   Simulate({}), Simulate({1}), Simulate({1, 2})}

\* What a device run may give back: what is right, what is off, too little, of
\* another shape, and no number.
SomeResults == {<<<<4>>>>, <<<<3>>>>, <<>>, <<<<5, 5>>>>, <<<<NaN>>>>, <<<<5>>, <<5>>>>}
TheOracle == <<<<5>>>>

\* Processes that leave the choice of the work directory to the call.
ScratchRuns == {OnDevice(<<1>>, "none")}

\* Builds of two modules, one after the other, in one directory.
Rebuilds ==
  {[Build("pdi") EXCEPT !.job = job, !.workdir = "shared"] : job \in {"w1", "w2"}}

OneHost == {[pin |-> TRUE, tools |-> AllTools, device |-> TRUE, simulator |-> TRUE]}
=============================================================================
