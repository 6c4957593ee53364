# Verification of the spatial DSL's plans and back ends

`src/spatial` compiles a plain Python loop nest and a schedule to a program for
an array of cores: one *plan* (`model.MappingPlan`) is synthesised by M4 and
either emitted as MLIR-AIR (M5) or as one Tenstorrent kernel per core (M5tt).
The program's difficulty is in what the plan makes the cores do to each other:
strips travel while neighbours compute, two buffers swap roles every trip, and
the emitter replaces channels by remote writes and counting semaphores. What
the compiler promises before that is no easier to test: a schedule is accepted only
if it respects the data flow of the loop nest, and the plan must move every tile
where and when it is needed. This directory models these parts, model-checks them
with TLC and proves the parts that matter most with TLAPS.

    tlc -workers 2 -config HaloTT_3x5.cfg HaloTTInv     one run
    tlapm HaloTTProofs.tla                              one proof module

## 1. The system

| component | state it keeps | operations | what is hard in it |
|---|---|---|---|
| M1 front end, `m1_frontend.py` | none | `capture`: syntax tree to `KernelModel`: domain, access maps, dependences, reduction | which store a load sees, from one vector per read; what is an accumulation |
| M2 schedule, `m2_schedule.py` | axis table, list of clause records | 14 clause methods in any order, `model` | clauses refused half way, clauses that read what earlier ones recorded, order that should not show |
| M3 legality, `m3_legality.py`, `intlin.py` | none | eleven checks in order over exact integer matrices | an order in time must respect the data flow, over tile edges too; what is shared, stays, is summed across cores or fits |
| M4 mapping, `m4_mapping.py` | none (builds a frozen plan) | tiles and residency (W1), cascade (W1-flip), halo (W2), wavefront (W3) | the plan is a concurrent program: deadlock, overwritten or stale strips, a peeled last trip |
| M4 self-check, `m4_selfcheck.py` | none | structural invariants, balance, acyclicity, budgets | deciding deadlock from the text of a plan |
| Plan interpreter, `tests/helpers/plan_interp.py` | a FIFO per channel index, an environment per actor | `run`: segment and PEs round-robin until nobody moves | the reference semantics of channels |
| M5 emitter, `m5_emit.py` | the MLIR under construction | one pass over the plan | decides nothing |
| M5tt emitter, `m5tt_emit.py` | pairing, landing, credit of each link | pairs puts with gets, computes credits, emits the kernels | remote writes guarded by never-reset semaphores |
| M6 driver, `m6_tools.py`, `m6tt_run.py` | work directories, the lock file, what is loaded and open | build, inspect, trace, run, compare; upload, launch, close | a tool that fails with exit status 0, a step that raises half way, several processes and one device |
| kernels, `kernels/w1_gemm.py`, `w2_jacobi.py`, `w3_sw.py` | - | the loop nests that *are* the specification | - |

How they interact: M1 and M2 are called by the user; M3 reads both results; M4
reads M3's mapping and builds the plan, which the self-check then accepts or
refuses; each emitter reads only the plan. At run time the components are the
**segment** (moves data between L3 and the herd), one **PE** or **core** per
herd coordinate, and the **channels** between them. On Tenstorrent there is no
segment: each core does its own DRAM transfers, and a channel between cores is a
write into the consumer's L1 with two semaphores, `full` on the consumer
(payloads delivered) and `empty` on the producer (regions given back).

What makes each part correct:

* **M2**: an accepted sequence of clauses yields a well-formed model; a refused
  clause changes nothing; tiling loses and duplicates no iterations; the order
  of clauses does not show. (Two configurations show where the code
  falls short of this.)
* **Halo (W2)**: every update reads its rows, ghosts and boundary at the plane it
  advances, on both back ends; nobody deadlocks; planes reach L3 in order.
* **Wavefront (W3)**: a row is scored from the finished row before it and the
  west neighbour's finished cell; the skew nobody wrote down emerges.
* **Cascade (W1-flip)**: a PE receives the sum of exactly the shares before it in
  the chain; the tail stores each tile's whole sum, whichever way the chain runs.
* **A link**: the credit computed from the landing regions is enough, for any plan.
* **M1 and M3**: an accepted schedule runs every store before the loads of what it
  stored, never puts two iterations at one place and time, keeps stationary
  operands where they are, sums along one line of cores, and fits in L1.
* **W1 staging**: tiles, multicasts, the order of the fills, the chain and the
  drains leave in L3 what the kernel computes.
* **M6**: a failed tool is never a success, the device has one user at a time,
  and whatever raises, everything is given back.
* **Self-check**: what it accepts runs to its end (if balanced body by body; a
  configuration shows a plan that is not); on straight-line plans, what it refuses cannot.

PROJECT.json lists the hazards of the code, each at its line.

## 2. The modules

| module | models |
|---|---|
| `SwapLoop` | `swap_loop`: a loop unrolled by two for the buffer swap, an odd last trip peeled |
| `HaloPlan` | geometry, links, guards and buffers of W2; what an update needs |
| `Jacobi` | abstract: planes in the order the loop nest of `w2_jacobi.py` allows, each stored in order |
| `HaloInterp` | W2's plan on the plan's own channels, with the segment actor |
| `HaloTT` | W2's plan as M5tt emits it: semaphores, remote writes, a credit per link |
| `HaloTTInv`, `HaloTTProofs` | its inductive invariant, and theorems for every herd and trip count |
| `HaloInterpInv`, `HaloInterpProofs` | the same for `HaloInterp` |
| `WavePlan`, `Wavefront`, `WaveInterp`, `WaveTT` | the same four levels for W3 |
| `WaveInterpInv`, `WaveInterpProofs`, `WaveTTInv`, `WaveTTProofs` | their invariants, and theorems for every line and number of rows |
| `CascadePlan` | the chain's orientation, its link indices, partial sums |
| `Reduction` | abstract: every PE multiplies its share of each tile, and the sum of all shares is stored, tile after tile |
| `CascadeTT` | W1-flip's chain as M5tt emits it |
| `CascadeTTInv`, `CascadeTTProofs` | its invariant, and theorems for every chain, in either direction |
| `BoundedFifo` | abstract: a FIFO of `depth` slots, a slot kept until the consumer returns |
| `Link`, `MCLink` | one M5tt link for *any* sequence of landing regions, bytes landing in any order |
| `SelfCheck`, `MCSelfCheck` | balance (P1'), acyclicity (P2b) and occurrence pairing, against the execution of the plan |
| `SelfCheckInv`, `ChannelProofs` | the invariant of `SelfCheck`; theorems for every link, and for every plan and fan-out |
| `Schedule`, `MCSchedule` | M2's clause builder with every check in its order |
| `ScheduleInv`, `ScheduleProofs` | its invariant, and theorems for every kernel and sequence of clauses |
| `Intlin` | `intlin.py`: fraction-free echelon form, rank, kernel, solution, intersection, containment, complement |
| `Frontend` | what M1 captures of a loop nest; the loop nest as Python runs it (which store each load sees) |
| `Legality` | M3: the eleven checks, one action each, on the captured kernel and a schedule; what acceptance promises, iteration by iteration |
| `Staging` | M4's plan for operands without a protocol of their own, its refusals, and a run of it on cells |
| `MCLegality` | kernels and schedules for the two |
| `Toolchain`, `MCToolchain` | M6 and M6tt: several processes, the external tools and devices failing at every step |
| `ToolchainInv`, `ToolchainProofs` | its invariants, and theorems for any processes, requests and results |

`HaloInterp` and `HaloTT` both EXTEND `HaloPlan`, which EXTENDS `SwapLoop`;
`WaveInterp` and `WaveTT` EXTEND `WavePlan`; `CascadeTT` EXTENDS `CascadePlan`;
`Staging` EXTENDS `Legality`, `Frontend` and `Intlin`, the compiler's passes in
their order. Each protocol module implements its abstract module
by a refinement mapping (INSTANCE ... WITH). `Link` is not specialised by the
three plans: it is the same protocol with the consumer's work left out and the
landing regions left open, so what it shows is true of every link M5tt can emit.

### State and actions against the code

*Data.* A cell of a strip holds not a float but the number of the plane (row) it
belongs to, or `Junk`. An update of a strip whose cells are not exactly the ones
the kernel's accesses name produces `Junk`, which then spreads, is stored and
breaks the refinement; so staleness and overwriting are visible and arithmetic
is not modelled.

*HaloTT.* `op[p]` is the next statement of core p's kernel: `fill` and `copy` the
two staging statements; per trip `wait_empty`, `write`, `signal` for each put in
plan order (north, then south), `release`, `wait_full` for each get, then
`update` and `drain`. A put or get whose guard is false at this PE is skipped.
`putn` and `getn` are the kernel's counters `<channel>_put_n` and `_get_n`, which
appear in the comparisons. A wait is one step, taken when the semaphore has
reached its value; the remote write with its barrier is one step on a strip,
whose effect byte by byte is what `Link` models; the increment is another.
`Credit` is computed in the model from the landing buffers exactly as
`_credit_of` does, not given.

*HaloInterp.* A put copies a slab into an unbounded FIFO and never waits; a get
waits while its FIFO is empty. The segment is an actor: it fills the PEs, then
drains PE after PE, all planes of each. The interpreter's round-robin is one of
the interleavings allowed.

*WaveTT, WaveInterp.* Per row: the west edge (from L3 at PE 0, from the neighbour
elsewhere) is received in `edge_in` and copied to the ghost cell of the row being
computed; the band is scored; the east edge is put (to L3 at the last PE); the
band is drained. The row before the first is zeroed in L1, not loaded.

*CascadeTT.* `chain` is chosen initially: ascending for a 1-D herd, descending for
a 2-D one. Per trip: the row tile is loaded from DRAM, the accumulator is zeroed
and the PE's share added; every PE but the head gets a sum in `recv` and adds it;
every PE but the tail puts its accumulator on; the tail stores it. A partial sum
is, for each PE, the trip whose share is in it, so a share that is missing, of
another tile or counted twice shows. `drainn` is the tail's counter of its
drains, which is where the emitted kernel takes the DRAM row from, not the trip.

*Link.* `landing` is any sequence of non-empty sets of bytes and `credit` is
what `_credit_of` reads off it. A write arrives byte by byte in any order; the
barrier waits for all of it; a payload is in use from the get that takes it to
the next one, which releases it at its top.

*SelfCheck.* A plan is, per actor, a sequence of loops over channel sites, guards
decided and every index identified with the actor that gets at it. It is held as the
set of its sites, as the walk yields them, each with its actor, the place of its loop
and its own place in it; an occurrence is a site with a trip. The checks read each site
once, as the code does; the execution goes through the occurrences in the order of the
body (`Sooner`). The k-th site of an end is found by the number of sites before it
(`Position`), the k-th occurrence likewise (`Turn`).

*Schedule.* A clause is one action with the code's checks in the code's order:
the first that fails gives the diagnostic. An axis name is the sequence of its
parts (`i`, `i0`, `i01`). `Model` is the canonical projection; fields the code
sorts are sets, fields it keeps in call order are sequences.

*Frontend, Legality.* A source kernel is the nest's axes, its parameters and, per
statement, the target and the loads with their integer subscript matrices; the
expression is left out. `Capture` is M1, `Build` the frames with `sigma` (time) and
`pi` (space), and then comes one action per check, each refusing with its code or
adding to `map` what later checks read. "crash" is a bare Python exception. The
checks work on vectors and bases; the properties quantify over the iterations.
`Flow` says which earlier store each load of the loop nest sees, and the time order
is compared with that, so the chain capture, solve, lift, compare is checked as a
whole. `Solve`, `KernelBasis` and the rest compute as the code does, floor
division in the elimination included.

*Staging.* `MakePlan` works out tiles, deliveries and the streaming loop, or why
there is no plan; `RunPlan` is a run of it as the interpreter does it, as a
function: each load finds the cell that the fill of that trip put into that slot,
each store adds the tuple of cells it was computed from, and a drain copies the
tile to where the plan says. A value is the bag of what was read into it, so a
wrong cell, a cell read twice and a missing one all show. A put of a multicast is
sent from one index and serves its line of elements. A subscript below 0 counts
from the end of its buffer, as numpy has it, and one further out ends the run
("raised"). The lengths of the arrays in L3 are left out.

*Toolchain.* A call is a sequence of steps of its process: tool runs with a verdict
each, or load, use, unload, release, or open, upload, launch, close. A tool ends
with status 0 or not, with error lines or not, by timeout, or is not run, and
leaves nothing, rubbish or its output; making a work directory may fail; a step on
a device gives up with the driver's own error or breaks off with the library's, or
returns any of a few arrays. `files` are keyed by directory, `lock` by the lock file's directory.

## 3. What is checked

| run | instance | shows |
|---|---|---|
| `halo_tt` | 3 cores, 5 planes | W2 on semaphores: updates fresh, early strips harmless, no circular wait, counters at the end, planes in order, refinement of `Jacobi`; the inductive invariant |
| `halo_interp` | 3 PEs, 3 planes | W2 on channels with the segment: at most two strips queue on a link, refinement of `Jacobi` |
| `wave_tt` | 4 cores, 5 rows | W3 on semaphores with one strip in flight: ready at each score, skew at most one, refinement of `Wavefront` |
| `wave_interp` | 3 PEs, 3 rows | W3 on channels: a link queues exactly the skew, the two writers of the last column agree, refinement |
| `cascade_tt` | 4 cores, 3 row tiles, both directions | a received sum is the sum of the shares before it, `recv` never overwritten while added, refinement of `Reduction` |
| `link` | 4 payloads, 3 bytes | any landing sequence: a payload is whole while used; refinement of `BoundedFifo` |
| `selfcheck` | bodies of at most two loops | see below |
| `schedule` | 3 axes, 2 operands, up to 4 clauses | the model is well formed after any accepted and refused calls |
| `legality` | 7 kernels under every placement and skew of up to two axes and every tiling of one, with the clauses that matter to each; odd cases; 5 kernels under every tiling and placement for the plans | what is accepted is causal, shares nothing, keeps what is stationary, sums on one line, has halos that cover the reads and fits; the plans compute the kernel |
| `legality_served` | 10 schedules | accepted schedules that are not served as written, see below |
| `toolchain` | 2 processes, one call each of 16 requests, 3 hosts | no failure taken for success, one user of the device, nothing left open, a match is agreement, every call ends |
| `toolchain_lock` | 2 processes without a work directory | both are on the device |

The cfg files list the properties of every run. `TypeOK` is among them for `Link`,
where it says that no semaphore passes the number of payloads, and is a part of
`IInv` in `halo_tt`; in the other modules it documents the types.

What the runs found out beyond "it holds":

* *In W2 the `empty` wait is conservative.* Because each trip's gets precede its
  update, a producer cannot be two trips ahead of a consumer anyway: the data
  dependence alone keeps a strip from being overwritten. In W3 the dependence
  runs one way only and the credit of 1 is all that protects `edge_in`
  (the mutant with two credits loses `ReadyAtScore`). The cascade is like W3: with
  two credits a PE upstream overwrites `recv` (`SlotIsFree`).
* *Deadlock freedom is a fact about a plan, not about links.* The same link with
  a credit one smaller is still a correct FIFO and deadlocks W2 (`NoCircularWait`
  fails with one credit).
* *A neighbour's first strip may land before or during this core's own staging.*
  Nothing orders the two. It is harmless only because that strip is number 0 and
  carries the values being staged (`EarlyStripHarmless`).
* *Balance alone leaves only circular waits* (`OnlyCirclesHang`), so acyclicity is
  the right second check, and it is exact on straight-line plans with one
  producer per index (`ExactOnStraightLine`). With loops, a plan whose bodies are
  each balanced is safe (`PerBodyIsSafe`). A plan balanced only in total need not be:
  `loop(2){put X; get Y}` against `loop(2){get X}; loop(2){put Y}` is balanced,
  acyclic, accepted, and hangs (`SelfCheck_loops.cfg`). The plans M4 synthesises are balanced per body.

* *The checker's promises hold where its inputs are right.* On the kernels whose
  dependences are captured and lifted exactly, nothing accepted breaks the data
  flow in any schedule of the instance; the lifting over a tile edge is what
  carries it (the mutant `LiftInside` loses it). What breaks it is in the first four
  cases of `legality_served`.
* *A shared device is safe per work directory.* `DeviceExclusive` holds of processes
  that pass the same directory, which is where the lock file is.

### Disagreements with the code's own text

Shown by runs, with the text quoted in PROJECT.json. `legality_served` states the
promise of goal G4, that a program agrees with the CPython oracle; each of its ten
schedules violates it (`tlc -continue` shows them all):

* `RunningMax`: `max(S[i-1,j], ...)` stored to `S[i,j]` is taken for an accumulation,
  because offsets are not compared, and the dependence is lost.
* `RunningSum`: one vector per read leads to the nearest store; where an inner loop
  repeats the store, the one that counts is the last.
* `Far`: a distance longer than a tile is lifted across one tile edge only.
* `Sheared`: the elimination skips rows whose factor is 0 without scaling them, so
  later divisions are not exact and the rank comes out too small.
* `Gemm` with tiles of i and j and only `j0` placed: a written operand whose tile a
  temporal loop moves is drained once.
* `Gemm` with `j0` and `j1` placed: origins multiply whichever coordinate of an axis
  comes last by the factor.
* `GemmHigh`: the zeroing nest of an untiled axis runs from 0, the compute nest from
  its lower bound 3, so the zeroing stores below its buffer and the interpreter
  raises `IndexError`. (From 1, numpy wraps the store round and hides it.)
* `Reversed`: for a subscript that falls with its axis, `A[3-i,k]`, the region starts
  at the wrong end of the tile: an element is sent rows of another's.
* `PlaneSums`: an operand that two tile loops move is fetched per trip of the outer
  one only.
* `Gemm` with nothing streamed is refused as a defect of the compiler: the order
  counted in `_sites` leaves out the compute nest.

`toolchain_lock`: the lock file is in the work directory, and a call without one makes
its own, so processes that leave it to the call do not exclude each other.

Four more are shown by configurations kept beside the runs; TLC stops at each with the
counterexample described:

| configuration, of module | property | what the code does |
|---|---|---|
| `Schedule_partial.cfg`, `MCSchedule` | `NoPartialClause` | `reside` and `double_buffer` record the operands before the bad one and raise, while design/03-lld-M2-schedule.md:289-290 says there is no partially applied clause. `RefusedChangesNothing` is about the other clauses |
| `Schedule_order.cfg`, `MCSchedule` | `PlaceInAnyOrder` | `place` resolves a handle at the call: `place(ax.i)` before `tile(ax.i, 1)` records `i` and after it `i0`, while lines 187-188 of the same document let order show in two fields only. A placed name that is no leaf makes `check` raise a bare `ValueError` (`Build`) |
| `SelfCheck_loops.cfg`, `MCSelfCheck` | `ZippingIsExact` | pairing the k-th put site with the k-th get site is called exact in `_pairs`; when the two sides divide the payloads of a link among loops differently it is not, and a plan that hangs is accepted. `PerBodyIsSafe` says when it cannot |
| `Toolchain_reused.cfg`, `MCToolchain` | `ReturnedIsGood` | in a work directory used before, the artifact of an earlier build passes for the new one when the tool exits 0 without writing |

Met while modelling, and not the subject of a run:

* `_pair` of M5tt zips put sites to get sites in the same way, and so supposes what
  `PerBodyIsSafe` supposes; `Link` has the n-th payload land where the n-th get, in the
  order they run, names.
* `check` raises `KeyError` without a grid, `ValueError` for a window on a tile handle
  and `StopIteration` for one on an operand that is not written ("crash").
* `diff` counts no NaN as a mismatch (`MatchIsAgreement` admits them).
* `trace.json` and the directory of a compile-only build are named without being
  looked at.
* What the simulator's library raises reaches the caller as it is; `TTRunError` is for
  what the driver finds itself. The device is given back either way.
* A `reduce` clause with another operator than the kernel's is not refused, and the
  cascade applies the clause's.

### Bounds, and why they are enough

Three cores have both kinds of edge and one inner PE, which is every kind of
core of a line; four in `wave_tt` and `cascade_tt` add two inner neighbours (four
is also the flip's own grid). M3 refuses a cascade on a herd whose other axis is
longer than one, so one chain is the whole herd. Three tiles are one more than
the skew of a link. An odd trip count
has both phases of the swap and the peeled trip; 5 lets a fast core be several
trips from the start and the end. Those runs have no other bound: loops end.
`link` has all landing sequences over three bytes, so every credit from 1 to 4
and partial overlaps occur. `selfcheck` bounds a body to two loops of at most
two sites and two trips: enough for a wait inside a loop, across loops, and for
loops of different shapes on the two sides; an unbalanced plan is not run, as
the check has already refused it. `schedule` bounds the records (four clauses
about the herd, two others), one more than any check looks back at.

`legality` has boxes of two to four values an axis: a tile of 2 in an axis of 4 has
an inside, an edge and a second tile, and distances of 1 stay and cross. `L1Usable`
is 60 bytes, so that both answers occur. The schedules have one level of tiles,
steps of one and constant extents; for a plan the written operand starts from zeros
and no stream, forward, exchange, window or reside clause is given. `Foreseen` is
the restriction under which plans are right; the cases beyond it are in
`legality_served`. The plans have 1 to 4 tiles an axis, so streaming loops of one
and of several trips, chains of 2 and of 4, and multicasts along each axis occur.
`toolchain` gives each of two processes one call: interference is over the shared
directory and the device, and a second call begins as the first does, but for what is
in a directory used before (`Toolchain_reused.cfg`, two calls).

### Fairness

Every core (actor) is weakly fair as a whole: the emitted kernel of a core runs
on its own processor and does not stop, and the interpreter's round-robin visits
every actor. Waits need no stronger assumption: a semaphore only grows and a
non-empty FIFO has one reader, so a satisfied wait stays satisfied. In `Link`
the producer's fairness includes that the NoC delivers what was written. The
abstract modules ask weak fairness of each of their steps, which the detailed
ones must provide: `ImplementsJacobi` and its siblings are where it is shown that
every plane (row, payload) is eventually computed and stored.

In `Toolchain` each process is weakly fair in the steps of a call it has begun: it
runs on, tools are killed after their timeout, and the device answers or raises
(the code has no timeout for the device, so this is assumed of it). A free lock is
taken when its waiter polls; as each process makes finitely many calls, weak
fairness is enough. Beginning a call and comparing results are never forced.

CHECK_DEADLOCK is off only for `Schedule` (the user may stop calling clauses),
`SelfCheck` (a plan may hang, which is what the properties are about), `Legality` (a
verdict or a run ends the compilation) and `Toolchain` (processes stop calling);
elsewhere a finished system stutters in `Return` and any other stop is an error.

## 4. What is proved

Assumptions, as weak as the code justifies: a herd has at least two PEs
(`strip_geometry` refuses fewer), trip and payload counts are natural numbers; for
`Schedule`, a kernel has finitely many axes with non-empty names and natural or unknown
extents, and factors and grid extents are integers; for `Toolchain`, arrays are of numbers and
NaN, the tolerance is a natural number, requests are of the kinds M6 serves. Every theorem is about all values
of the constants, and every `Inductive` is the invariant the others follow from. That of
`HaloTT` is a property of its run; the others were given to TLC, before they were
proved, on the instance of their component's run and, for the protocols, on lines of
2 to 5 with 0 to 5 trips. `SelfCheck` supposes that a plan is a finite set of sites with
at most one at a place of a body, that the sites of a loop share its trips, and that the
destinations of a channel are actors.

**HaloTTProofs**, for every number of PEs and every trip count. None of the
properties is inductive: that a strip is fresh at the update depends on counters
at the other end of the link. `IInv` (module `HaloTTInv`) adds, per core, where
it may be in a trip (`CtlOK`), and per link, that the kernel's counters are
functions of the two program counters (`CountOK`), that `full` and `empty` are
functions of the counters (`LinkOK`: everything but the last strip taken has been
given back, and that one too once the consumer waits again), that strips the core
fills itself are right (`StripOK`), that every strip which has landed and is not
used up is intact in its band (`GhostOK`), and that L3 holds exactly the
completed planes (`L3OK`). The proof has one lemma per action; a core's step
touches only its own links and the far ends of them, so the frame lemmas
(`OthersSame`, `OtherLinksSame`) dispose of the rest.
From it follow `Inductive`, `TypeCorrect`, `UpdatesAreFresh`,
`EarlyStripsAreHarmless`, `SkewIsOne`, `StripsAreNotOverwritten`,
`CountsAtTheEnd`, `NoDeadlock` and `PlanesDrainInOrder`. `NoDeadlock` is the
safety half of progress: a core furthest behind can always step, because its
neighbours are ahead of it and a credit of 2 (`CreditIsTwo`, proved from the
alternation of the buffers) lets it put without being given anything back.
`RefinesJacobi` is the safety part of `ImplementsJacobi`. Its mapping reads the two
buffers and L3, so it needs one fact more (`Latest`, proved as `LatestIsHeld`): no buffer
is ahead of the planes computed and one of them holds the last. Then `Mapping` turns both abstract
variables into functions of the program counters, and `StepRefines` goes through the actions.

**WaveTTProofs**. A line runs one way, so the dependence gives a producer no reason to
wait, and all rests on the credit of one: `LinkOK` says that what was put is at most
one ahead of what was given back, and that a core past its wait has everything back;
`EdgeOK`, that `edge_in` holds the strip written last. `RowsAreReady`, `SkewIsOne`,
`StripsAreNotOverwritten` and `RefinesWavefront` follow. `NoDeadlock`: among the cores on
the least trip take the westmost: the one to its west is past that trip and has put, and
if the slot to its east is not free, the core there, on the same trip, can step.

**CascadeTTProofs**, for a chain in either direction. `RecvOK` and `AccOK` say which shares
are in what was delivered and in the accumulator. For the refinement a neighbour's counter
is not enough: a sum is whole only when every core before in the chain, not only
the next one, has passed the trip (`AheadOK`). `SumsArePrefixes`, `SlotsAreNotOverwritten`,
`NoDeadlock` (least trip, nearest to the head) and `RefinesReduction` follow.

**HaloInterpProofs, WaveInterpProofs**, the same plans on unbounded channels with the
segment. Both invariants have one idea: every FIFO holds a run of consecutive planes
(rows), and the run's two ends are functions of the program counters of the actors at
its ends (`Holds`, `LinkOK`, `DrainsOK`, `OutOK`, `EastQOK`); a put extends the run and a
get takes its first element (`HoldsAppend`, `HoldsTail`), so no action needs more than
the two counters. `LinksAreTheSkew` is then the definition of the run's length.
`LinksQueueTwo` goes round the pair of links between two PEs: for a producer to be two
strips ahead it must have got what its consumer has not put. `ColumnIsWrittenOnce` holds
because the boundary FIFO is taken back before the bands are. `NoDeadlock`: the segment
waits for nobody until everything is put; from then on, while some PE has not returned, the
westmost such PE (W3), or one on the least trip or the neighbour it waits for (W2), can
step; and when all have returned, what the segment takes back is in the FIFOs.
`RefinesWavefront` and `RefinesJacobi` show that channels with a segment and
semaphores without one implement the same abstract module.

**ChannelProofs, the link**, for every number of payloads, every sequence of regions and
the credit they give. The key is `CreditIsSafe`: two payloads less than `credit` apart
share no byte. The invariant says that the producer is at most a credit ahead of
what was given back, that a payload's bytes are in memory from the barrier until
it is given back, and that bytes arriving now hit none of those.
`PayloadsStayIntact` is the claim of ruling R-TT-B, which
design/08-tt-backend.md:396-402 calls "Not a general theorem" and supports by the
four plans measured; for the link it is general. `LinkIsFifo` is the safety part
of the refinement of `BoundedFifo`.

**ChannelProofs, the self-check**, for any plans, bodies, loops, channels and fan-outs:
what the two checks of a plan's text say of its run. `PlanInv` (module `SelfCheckInv`)
says that what waits for an actor has been put and not got (`Counted`); that with one
producer the queue is a run of its puts by turn (`Waiting`) and the k-th get was fed by the
k-th put (`FedInTurn`); that what an actor has left is the rest of its body
(`InBodyOrder`); and that on straight-line code the sites executed are closed under
the graph's edges and hold no cycle (`NoCycleDone`). The sums of trips are cardinalities
of sets of occurrences, so that counting is comparing sets (`SubsetSize`, `SameSize`), and
the k-th of anything is its place in a finite order (`PlaceInOrder`).
`HangsInCircles` (`OnlyCirclesHang`): who waits has got all that was put, fewer than all
his gets, so by balance a put is left. `StraightLineIsExact`: if an accepted plan is stuck,
the graph has a first site among those left; its actor waits there, because the text
before it is done (`WaitsAtFirst`), and the put it is paired with is left too
(`PairedPutIsLeft`), an edge into what was first. A plan that completes has executed
every site, so `NoCycleDone` is acyclicity. `BalancedBodiesAreSafe` (`PerBodyIsSafe`): take
the first trip of the first region anyone waits in (`FirstSlot`) and the sites left in it.
Balance body by body gives as many puts as gets up to that trip (`SlotSizes`), so someone is
short of a put in it (`ShortOfAPut`), and where sites are zipped partners are in the
same region and come at the same turn (`ZipKeepsRegion`, `TurnsAgree`).

**ScheduleProofs**, for any kernel, any arguments and any sequence of accepted and
refused calls. The invariant says what records mean, and it survives because nothing is ever taken
back: an axis stays in the table with its extent, a record keeps its place
(`GrowInv`, on which every accepting clause rests). `PlaceOK` needs that the outer leaf of an
axis exists (`OuterLeafKnown`): re-tiling only lengthens a name, the table is finite, so by
the pigeonhole principle the descent ends. `TilingIsExact`, `ModelsAreWellFormed` (with
it, that re-validation finds nothing the calls let through) and the action property
`RefusalsChangeNothing` follow.

**ToolchainProofs**, for any processes, requests, hosts, oracle, results and number of
calls. `CallOK` says which steps a request has and in which directory, `HoldOK` what a call holds at
each step and nothing else, `GotOK` what it may report. `ThingsAreGivenBack`,
`DirectoriesAreExclusive` and `MatchesAgree` need no hypothesis. Two theorems have
one, because without it they are false, as runs show: `DeviceIsExclusive` supposes that
every run names one work directory (`toolchain_lock` is the counterexample), and
`BuildsAreGood` that builds use scratch directories (`Toolchain_reused.cfg`: in one
used before, an old artifact is found). For the latter `BuildInv` says how far a build has come, that the invocations
before that ended well, and that a scratch directory is new when its call begins.

## 5. What is only model-checked, and what is not modelled

Only model-checked:

* The liveness parts of the refinements, and `EveryCallEnds`: liveness under fairness,
  and ENABLED, are out of the prover's reach. `NoDeadlock` is what of them is proved.
* `Intlin`, `Frontend`, `Legality` and `Staging`: what elimination, rank and lifting compute
  for every matrix is again induction over data, and the deep properties
  (`AcceptedIsCausal`, `NothingShared`, `ComputesKernel`) rest on it.

Not modelled:

* M0, the package facade and the demo driver: data, re-exports, I/O.
* M5: builds MLIR through an external library and decides nothing of the protocol.
* Of M1, Python's syntax, expression trees and parameter types; texts of diagnostics
  everywhere.
* Of M4's self-check, unrolled loops, bundle indices, the structural invariants and
  the budgets (L1, shim, DMA channels, broadcast guard, master selects): counts over
  the plan's text whose limits are facts of the hardware and of the lowering, which
  `src/` only quotes.
* Of M4, the node structure of plans, and deliveries by stream, forward, exchange or
  window clause in general; the halo and the wavefront are modelled as W2 and W3 use
  them.
* Of M5tt, the text of the kernels, padding and alignment of DRAM rows, resource limits.
* Of M6, the tools' arguments and the numbers read out of IR.
* Arithmetic of the cells; object identity of schedule handles. The row before the
  first of W3 is the caller's, and the models start with it zero, as the plan assumes.
  Semaphores are 32 bits wide in the hardware: `LinkTypeCorrect` bounds them by the
  number of payloads, which `_PAYLOAD_LIMIT` keeps at 100 000.

## 6. Plan

Done, in this order: the halo on both semantics and its proofs, because the
overwrite it must avoid is the least visible error in the system; links in
general; the wavefront; the self-check; the schedule builder; the cascade on
semaphores; capture and legality against the data flow; W1's staging; the driver.

Then the proofs: `HaloTT` and `Link`; the wavefront and the cascade on semaphores; the
safety part of the refinement of `Jacobi`; the driver; the schedule builder; the two
plans on channels, with their refinements; the checks of a plan's text.

Next:

1. `Legality`: that a verdict is final, and that an accepted mapping passed every check
   in the order of the code - the part that is control and not linear algebra.
2. `WaveInterp`, `HaloInterp`: that L3 receives rows and planes in order, as action properties
   (`L3OK` gives them).
