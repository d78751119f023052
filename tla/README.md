# StableHLO in TLA+

TLA+ models of the parts of StableHLO whose correctness is hard to test:

* the multi-process reference interpreter, in which collective ops synchronize
  OS threads;
* portable artifacts, which are converted between the versions of the opset and
  must stay readable for years;
* the methods of the ops (inference, verification, reification, speculation),
  which have to agree with each other while the sizes in a program become known;
* the passes that rewrite programs, whose patterns are applied in any order and
  have to keep what the program computes.

The models are translated from the C++ and TableGen sources; paths below are
relative to the repository.

## The system

StableHLO is an MLIR dialect with its tooling.  It is a library: most of it is
sequential rewriting of IR, and one part, the reference interpreter, runs
programs on a grid of processes.

| Part | State | Operations | What makes it correct |
|---|---|---|---|
| `reference/ProcessGrid` | per (group, channel): contributions, result, counter; per channel: slot, readiness; infeed and outfeed queues | `rendezvous`, `send`, `recv`, `infeed`, `outfeed`, the four grouping strategies | barrier, no lost wakeup, in-order delivery, no data race |
| `reference/Ops` collectives, `Process` | none | seven collective ops | the result docs/spec.md prescribes, for every schedule |
| `reference/InterpreterOps`, `Api` | tasks, thread pool | `run_parallel`, `print`, `probe`, `evalModule` | every run ends; results in task order |
| `reference/Ops`, `Scope`, `Element`, `Tensor` | SSA scopes, buffers | `eval` and about 110 ops | value semantics, shapes agree with inference |
| `dialect/Version`, `VhloOps`, `transforms/VhloToVersion`, `Serialization` | a VHLO module and a target version | upgrade, downgrade, legality | artifacts stay readable for 5 years, round trips lose nothing |
| `dialect/VhloBytecode`, `StablehloBytecode` | encoder and decoder | attributes and types | decoding inverts encoding |
| `dialect/TypeInference`, `StablehloOps` | none | shape functions, verifiers | inferred types are the ones the interpreter produces |
| `transforms/StablehloRefineShapes` | worklist, call stack, shape effects | refine arguments, functions, calls | terminates, refines monotonically |
| `transforms/optimization` | none | folding and simplification patterns | semantics preserved, patterns do not undo each other |
| `transforms/StablehloCompatibilityExpander` | none | patterns for old targets | semantics preserved |
| other `transforms`, `conversions`, `integrations` | none | rewrite patterns, bindings | semantics preserved |

Interaction: `evalModule` evaluates a function; `run_parallel` starts a task
per process on a thread pool; the tasks evaluate their ops and meet only in
`ProcessGrid`, by mutexes and condition variables with a 3 second timeout.
`evalModule` first makes the program static: it refines the arguments, then the
shapes of all functions that are called, with the folder on the side, and then
replaces dynamic ops by static ones.  Refinement and simplification take types
from the inference functions of the ops and leave programs that the verifiers
have to accept.

Hard behaviours: interleavings of the threads, spurious wakeups, timeouts that
race completion, reuse of a barrier, cycles of blocking calls, a pool with too
few threads.  In VHLO: thirty versions that every conversion has to respect at
once, calls that leave the caller's module half converted, artifacts written by
earlier releases.  In the passes: patterns that meet in any order, a function
that is refined while its caller waits for it, values whose type changes under
their users, and checks that are skipped until a size is known.

## Modules

* `Rendezvous` - `ProcessGrid::rendezvous`.  `values`, `result` and `useCount`
  are the fields of `RendezvousState` for each key; `at` and `asleep` say which
  call a thread is in and whether the condition variable holds it.  A critical
  section is one action: `RendezvousAlone` (group of one), `Contribute` (wait),
  `Complete` (the last contributor), `Resume` (a waiter that got the mutex
  back), `TimeOut`.  `SpuriousWakeup` and `BlockAgain` are the freedom that the
  C++ standard gives a condition variable.  `contributed` and `returned` are
  histories.
* `BarrierSpec` - the documented promise: a reusable barrier per key.
* `RendezvousProofs`, `BarrierRefinement` - the theorems about `Rendezvous`, and
  the proof that it implements `BarrierSpec`.
* `SendRecv` - `ProcessGrid::send` and `recv`: a slot, a ready set and one
  condition variable per channel.  The lookup in the unlocked
  `std::map sendRecvConditions_` has a duration (`pc = "lookup"`), so that two
  threads can be in it at once; `MapRace` is the undefined outcome.
  `SendRecvProofs` has its theorems.
* `CollectiveOps` - process groups and the seven collectives as functions.
  Tensors are one-dimensional; an element is the sequence of inputs that it
  was reduced from (the free computation), so that one input per program
  stands for all inputs and all computations.  `CollectiveOpsProofs` is about
  the groups and the order in which their barriers are visited.
* `CollectivesSpec` - the reference for them, after docs/spec.md: groups by
  what members have in common, not by the loops of `ProcessGrid.cpp`.
* `RunParallel` - `evalRunParallelOp`, composed of the two above: main thread,
  pool, tasks, straight-line programs, infeed and outfeed.  `RunParallelProofs`
  has the theorems about any programs, `SpmdProofs` those about whole runs and
  about one program that all processes run.
* `Vhlo` - versions, the tables of the opset (which form of an op exists when,
  which attributes it has) and the conversions between StableHLO and VHLO, as
  operators on one op.  An op is a name, a form (`_v1`, `_v2`), attributes and
  types; an attribute value is its default, a member of a small set, or absent.
* `VhloToVersion` - the pass of that name: legality of types, attributes and ops
  at a target version, the versioned constraints, the upgrade and downgrade
  patterns, and the conversion of a module, which happens for all ops or none.
* `VersionLog` - the reference: what an op means whatever its form, and which
  versions it needs according to the log in `VhloDialect.td`.
* `PortableArtifact` - `serializePortableArtifact` and
  `deserializePortableArtifact`.  `module` is the caller's module, which the
  first rewrites in place; `SerializePortableArtifact` is a call whose first pass
  succeeds, and either the second, too (`Serialize`), or not (`FailToConvert`);
  `FailToLegalize` is a call whose first pass fails.
* `ReplicaGroupUtils` - replica groups that are given by axes of a mesh, or by
  parts of axes, as lists of devices.
* `VhloAttributes` - the types and attributes of StableHLO, of the builtin
  dialect and of VHLO, and the conversions between them.
* `VhloBytecode`, `StablehloBytecode` - how those of each dialect are written
  and read: a code and numbers, in the order of the source, on MLIR's readers
  and writers (`DialectBytecode`).  `PortableArtifact` keeps what is written and
  reads it back, so a reader that differs from the writer changes the module;
  `SaveAndLoad` does so with a StableHLO module that is not converted.

Types and methods of the ops:

* `ShapedTypes` - types with dynamic and bounded dimensions, and how two of them
  are merged (`Base.cpp`).  `TypeInferenceProofs` has the theorems about them.
* `TypeInferenceUtils`, `TypeInference`, `OpVerifiers` - `TypeInference.cpp`:
  shared checks, the shape functions, the verifiers.  A shape function gives the
  inferred types or `Failure`.
* `StablehloOps`, `OpInterfaces` - the methods of the ops, their run-time shape
  functions and speculatability, and the dispatch by the name of an op.
* `OpRefinement` - a state machine over them.  An instance is an op as it will
  execute, and some of its places (a dimension of an operand or a result, the
  value of a shape operand) are hidden, with or without a bound.  Each step
  learns a place: `RefineOperand`, `FoldShapeOperand`, `DeclareResult`, or
  `RefineReturnTypes`, which takes what the inference gives.
  `OpRefinementProofs` has its theorems.

Programs:

* `Elements`, `Tensors`, `ReferenceOps`, `Interpreter` - the reference
  interpreter for one process.  `eval(block, args, env)` evaluates a block with
  a stack of scopes and the functions of the program.
* `Programs` - a block of ops as the rewriter sees it: definitions, uses,
  replacement, constants, dead ops.  This is the part of MLIR that the passes
  use.
* `AggressiveFolder`, `AggressiveSimplification`, `CompatibilityExpander`,
  `ShapeRefinement` - one operator per pattern, from a program and an op to the
  rewrite, or `NoMatch`.
* `Rewriting` - the passes.  `passes` are those left to run, `stack` the
  functions being refined, `contexts` what each was refined for.
  `FunctionPass` is a step of a pass over all functions, `RefineFunction` one of
  shape refinement in the function on top of the stack.  In them `RewriteFunction`
  and `RefineOp` are one application of one pattern anywhere; `EnterCallee`, `ReturnToCaller`, `RefineCallAgain` and `RefuseCall` are the
  branches of `RefineCallOpPattern`.  `MeaningPreserved` is about steps: no rewrite
  changes what the program computes.  A program has a reference: itself, or, if
  it is dynamic, the same program written for the sizes of the inputs.
* `MC*` - instances for TLC.

Definitions called a faulty variant are plausible mistakes in the definition
that follows them; they are in no specification and serve to see that the
properties notice them.  In `PROJECT.json` the map names the lines of every
definition that models code, except helpers whose lines lie inside those of
another definition of their module.

## Runs

| Run | Question | Instance |
|---|---|---|
| `rendezvous` | is `rendezvous` the documented barrier when no key is used twice? | 3 processes; groups {1,2,3}, {1,2}, {3}; operands of two sizes |
| `rendezvous_reuse_barrier` | is it still a barrier? (no) | 2 processes, 1 key, 2 calls each |
| `send_recv` | are messages delivered once, in order, without a lost wakeup? | 2 processes, a channel in each direction, 2 messages each |
| `send_recv_race` | is the map of condition variables safe? (no) | 2 pairs of processes on 2 channels |
| `run_parallel_grid` | do all schedules give the specified results? | 2 x 2 grid, 4 threads, 19 programs, 5 of them with groups on a mesh |
| `run_parallel_line` | does `collective_permute` ever deadlock? do faulty programs end? | 3 x 1 grid, 3 threads, 91 programs |
| `portable_artifact` | do modules survive any sequence of conversions, and are they refused exactly when they must be? | 370 modules and 298 old artifacts, 41 target strings |
| `op_refinement` | do inference, verifiers, reification and speculation agree, whatever is known of an op? | 230 instances of 85 ops |
| `rewrites` | do the passes keep meaning and validity, make programs static, and end? | 81 programs |
| `rewrites_booleans` | does folding know that `i1` is a boolean? (no) | the sum of two boolean constants |
| `portable_artifact_conv` | is every feature refused for versions that lack it? (no) | one `dynamic_conv` |
| `run_parallel_workers` | are as many threads as processes needed? (yes) | 2 x 1 grid, 1 thread |

Bounds.  Three processes are the least number with overlapping groups, two
waiters of one barrier and cycles longer than a swap; two calls per key show
reuse; two messages per channel let a message meet its successor.  The code
treats all processes, keys and channels alike, and the theorems below cover
the other instances of the barrier and of the channels.

For artifacts the modules have one op, since ops are converted independently of
each other, and some have two, since a module is refused as a whole.  There is
a module for every attribute with a default, every value that some version is
concerned with, and every feature of the version log except those below.  The
targets are all versions, the neighbours of the window, a malformed string and
versions with a patch number.  The number of calls is not bounded.  Each type
and attribute of VHLO occurs in the dictionary of a `composite`, on its own or
nested, and so does each attribute of StableHLO with a code of its own, also
those that cannot be converted; left out are integer attributes of type `i2` and `ui2`, whose reader
stops the process (VhloBytecode.cpp:867), dense tensors whose type has bounds,
and memrefs with a layout.

For ops, every op has an instance that is right and most have one whose sizes
do not fit, which is accepted until the sizes are known.  A bound is `Slack` = 1
above the size: the merges of bounds only compare and add them.  Hidden places
are learned in every order.  A type whose bounds are all `?` is not told from one
without an encoding.

The programs of `rewrites` each meet a group of patterns that interact:
constants that move and merge, compares that are inverted, reductions with
unused results (a maximum of which only the value or only the index is used),
loops with constant operands, a division by zero in a loop that is never
entered, calls with constant and token operands, functions called twice with
the same and with other sizes, a function that calls itself directly and by way
of another, shape assertions that hold, that do not, whose attributes or message
are wrong and that are ignored, batching dimensions in the order of the operand
and in another.  Tensors have at most 12 elements.  Indices of two bits, with batches of two and three, stand for
narrow index types whose range a batch exceeds, and `foldOpElementLimit` = 64
for 65536.  Every order of the patterns is explored; the number of steps is not
bounded.

`ReduceOpUnusedResultCanon` compares how many pairs of arguments the used results
read with how many results are used.  That is enough where each result reads its
own pair, as in every reducer that forms a monoid with its initial values
(docs/spec.md:5094); the programs have no other.

Fairness.  A thread that can go on is scheduled (weak fairness of its steps):
this is what the operating system provides.  Nothing forces a process to make
a call.  In `RunParallel` a wait times out only when no thread can go on, that
is, the 3 seconds of `wait_for` are assumed to be longer than any computation;
`Rendezvous` and `SendRecv` let a timeout come at any time.  The pattern driver
goes on as long as some pattern applies: `Fairness` of `Rewriting` is weak
fairness of `Next`, with its ENABLED written out as `passes # << >>`, which is
where every state has a next step.  No pattern is favoured.

Deadlock checking is off for `Rendezvous` and `SendRecv`, whose processes may
stop calling at any time, and for `OpRefinement`, where everything is known at
the end; it is on for `RunParallel`, `PortableArtifact` and `Rewriting`.

## Findings

* `state.result = std::move(state.values)` (ProcessGrid.cpp:267) copies, since
  `RendezvousResult` takes the map by const reference.  `values` is never
  emptied, so from the second use of a key on the call does not block and
  returns operands of the round before.  Ops without a channel handle all have
  channel 0, so two cross-replica collectives over one group share a key.
* `sendRecvConditions_` (ProcessGrid.h:297) is a `std::map` that several
  threads insert into under different mutexes.
* A pool of `hardware_concurrency()` threads runs the processes, and a waiting
  process keeps its thread: with fewer threads than processes a collective
  times out.

* The 1.20.0 constraint on mixed f8 operands is missing on `DynamicConvOpV1`: a
  `dynamic_conv` that 0.20.0 to 1.19.0 refuse is written for 0.9.0 to 0.19.0.
  Two features slip through in the same way and are left out of
  `portable_artifact`: `isLegalType` does not look into
  `UniformQuantizedPerAxisV1Type` (VhloToVersion.cpp:207), so that `i2` storage
  is accepted before 1.2.0; and `verifyConstraint_1_17_0` (VhloOps.cpp:349) looks
  at the inputs of a `custom_call` only, so that a `future` result is accepted
  for 1.15.0 and 1.16.0.

* `FoldAddOpPattern` (StablehloAggressiveFolder.cpp:625) adds booleans as
  integers of one bit: `true + true` becomes `false`; the op means logical or.
  In the same way `clamp` of booleans is folded with signed comparison.

Bounds: `inferTypeWithCustomFn` (Base.cpp:402) looks for bounds in the first type
only: if it has none, the bounds that were merged from the others are dropped.  So
what is inferred for `add` depends on the order of its operands, where Base.cpp:309
says that the rules of merging are commutative, and a step that makes the last
bounded dimension of the first operand static takes the bounds of the others away.
`InferenceIsMonotone` excludes that step (`LosesItsBounds`) and holds of every
other; without the exception the instances with a bound in each operand violate it.

Speculation: Base.td:375 says of the trait of `slice` that "there cannot be a
mismatch".  `slice`, `pad`, `select_and_scatter` and `all_to_all` have further
conditions on the sizes of their operands (`SizeConstrained`), and may fail
where an op that was hoisted meets other sizes.  `set_dimension_size` to a
constant is speculatable whatever size its result declares.  `SpeculatableIsSafe`
excludes exactly these cases.

A `select_and_scatter` without `window_dimensions`, an attribute that StableHLO
has as optional, cannot be serialized for any version
(StablehloLegalizeToVhlo.cpp:1049); `RefusedOnlyWhenNew` excludes it.

Two restrictions of the runs come from the code as well.  `recv` takes a
non-empty slot for the arrival of data, so a `send` of no tensors is never
received: payloads have at least one tensor.  `all_reduce` folds the operands
in the order of process ids, docs/spec.md:815 in the order of the group:
results are compared up to the order of reduction.

## Proofs

The theorems hold for every value of the constants: any number of processes,
keys, channels, messages, any groups that overlap in any way, any grid.  Each
inductive invariant was first checked with TLC.

### The barrier (`RendezvousProofs`, `BarrierRefinement`)

With keys reused any number of times:

* `TypeCorrect`: `TypeOK`; `useCount`, a `size_t`, never goes below zero.
* `MonitorCorrect`: `MonitorInv`.  `useCount` is the number of processes inside,
  and a waiter of a complete barrier finds a result from every member.
* `WaitersAreWoken`: `NoLostWakeup`.
* `TimeOutMeansIncomplete`: `TimeOutOnlyWhenIncomplete`.

If no key is used twice (`MaxCalls = 1`, which the finding on reuse shows to be
needed):

* `SingleUseSameRound`, `SingleUseBarrier`: `SameRound` and `Barrier`.
* `RendezvousIsBarrier`: `ImplementsBarrier`.  `Contribute` and `Complete` are
  the abstract call, `Leave` the abstract return; waking, sleeping and the
  hand-over of `result` are invisible.

`MonitorInv` is the inductive invariant of the first group.  It adds to the
stated facts that only members have entries in `values`, that a process inside
a call has one, and that sleepers are inside a call: without the second a new
contribution could complete a map that some waiter is missing from.
`EntryPerCaller`, that a member has an entry if and only if it has ever called,
is what `TimeOutMeansIncomplete` and the refinement need: the code looks at the
size of `values`, the specification at the calls.  `SingleUseInv` adds, key by
key, that `values` is what the first calls contributed, that nobody has
returned before all members have an entry, and that the published result is
`values`.  The counting step, that adding or removing a process changes a
cardinality by one, rests on FiniteSetTheorems.

### Channels (`SendRecvProofs`)

* `TypeCorrect`, `DeliveryCorrect` (`DeliveryInv`), `DeliveredInOrder` (`InOrder`),
  `WakeupsReachTheOtherEnd` (`NoLostWakeup`), `SendMeetsReceiver` (the action
  property `SendNeedsReceiver`).
* `NonEmptyDataIsVisible`: `SentDataIsVisible` if no payload is empty.  `recv`
  takes an empty slot for no message, so the hypothesis is needed; the other
  theorems do without it.

`DeliveryInv` is inductive.  A channel is in one of three phases (no receiver; a
ready receiver and an empty slot; a receiver whose message is in the slot), and
a sender that is about to write still has a ready receiver, although it let go
of the mutex while it slept.  The three phases are why one condition variable
for both ends is enough: at most one of them sleeps for a reason that can become
true.  From the assumptions only `NoOpAssumption`, that `NoOp` is no operation,
is the proof's own.

### Groups and their order (`CollectiveOpsProofs`)

* `MembersFindTheirGroup`, `OutsidersFindNoGroup`, `MembersCallTheSameBarrier`:
  where no process is listed twice, as the verifier asks, the members of a group
  find the same group and call `rendezvous` with the same key, and nobody else
  does.
* `FlattenedIdsPartitionTheGrid`: with global device ids that list every device
  once, every process has exactly one place and finds its group.
* `KeysInOneOrder`: for every op, the keys that its processes call have a rank,
  every process calls its keys by increasing rank, and every member of the group
  of a key calls it.  For `collective_permute` the rank is the place of the pair
  in the list: this is what the loop over all pairs (Ops.cpp:1574) is for.

### Whole runs (`RunParallelProofs`, `SpmdProofs`)

For any grid, any programs, any number of workers and whatever fails on the way:

* `TaskInOnePlace`: `RunInv`, and from it `NothingLeftBehind`: `QuietAtReturn`.
  `RunInv` follows a task from its submission to its output (submitted once, taken
  once, without an output while it runs) and ties being inside a rendezvous to being run by a worker.
  `ProgramsAssumption` says that programs are sequences of ops and that `Key` has
  the keys their collectives use.
* `BarrierHoldsInRuns` (`BarrierInRun`), `CollectivesMeetInRuns` (`Barrier` and
  `SameRound`) and `RunsImplementBarrier` (`ImplementsBarrier`): the barrier in whole
  runs, if no key is used twice.  Every step of a
  run is a step of `Rendezvous`, fails, or leaves it alone (`RunIsRendezvous`), so
  that `SingleUseInv` carries over.
* `RunTimesOutOnlyWhenIncomplete`: a run that times out had a barrier that some
  member of its group had not come to.
* `EntriesAreFedOnce`: `FedOnce` wherever each outfeed passes on what the op before
  it took from an infeed of different entries (`DirectFeeds`).  The invariant,
  `FeedInv`, says that an entry is in the infeed, with one process between its two
  ops, or in the outfeed, and never in two of these places.

For one program that all processes run, with groups that the verifiers accept and
at least as many workers as processes (the finding on the pool shows that the last
is needed):

* `SpmdNeverStuck`: `NeverStuck`.  No interleaving reaches a state in which every
  thread waits.
* `SpmdNeverFails`: `NoFailure` of a run none of whose ops fails by itself
  (`OpsSucceed`: an infeed finds an entry, groups are there, operands can be
  split).

The argument: suppose that everyone waits.  Take a process that waits at the
earliest op and, within that op, at the key of least rank.  Some member of the
group of that key has not called it (`SomebodyMissing`).  That member is at the
same op or at a later one.  If it is at a later one, it has visited all keys of the
earlier op; if it is at the same one, it waits at a key of a rank that is no less,
and by `KeysInOneOrder` has called every key below it.  Either way it has called.
The invariants under this are `VisitInv`, that a process has called every key of
the ops before its own and the first keys of its own, and waits with the last of
these, and `PlacedInv`, that a submitted task is in the queue, running or has no op
left, so that with a worker per process nobody is kept from starting.  The least element comes from `LeastNumber`,
which is induction on a bound with the set as a constant, a form that the prover
can instantiate.

These theorems assume `OperandsAreTensors`, that what collectives contribute are
vectors of tensors: that results are tensors again needs induction over the folds
that compute them, and is checked by the run `run_parallel_line` as a part of
`BarrierInRun`.

### Types (`TypeInferenceProofs`)

For all sizes and bounds that `verifyBounds` accepts, with a dimension read as
the set of sizes that it admits:

* `MostSpecificIsIntersection`: `inferMostSpecificDimAndBound` is the
  intersection, and fails exactly when that is empty; `LeastSpecificIsUnion`: the
  merge of branches is the narrowest dimension above both;
  `ConcatenatedIsSound`: the sum.
* Both merges commute (`MostSpecificCommutes`, `LeastSpecificCommutes`), and all
  three are monotone (`MostSpecificIsMonotone`, `LeastSpecificIsMonotone`,
  `ConcatenatedIsMonotone`): what becomes known later only sharpens what was
  inferred.
* `CompatibleMeansCommonShape`: `verifyCompatibleShapeWithBounds` accepts two
  types, of any rank, exactly when they have a shape in common;
  `CompatibleMeansInferable`: that is when the inference succeeds;
  `CompatibilityIsMonotone`: a rejection is final.
* `StridedBoundCountsWindows`: the size inferred for a window is the number of
  its places.

### Methods of the ops (`OpRefinementProofs`)

The theorems hold for ops of any rank, sizes and attributes, whatever is hidden of
them and with whatever bounds (`RuntimeAssumption` says only what the definition of
an op guarantees: that types are well formed and static at run time, arrays of
attributes are as long as each other, and the operands are there).

* `InferenceOnlySharpens`: `InferenceIsMonotone` of the ops in `Elementary`: 40 ops
  whose shape function is a formula over the operand types, among them `slice`,
  `pad`, `transpose`, `dot`, `broadcast`, `dynamic_slice`, `dynamic_update_slice`,
  `triangular_solve`, `all_to_all`, `all_reduce`, `map`, `scatter`, `while` and batch
  normalization.
* `InferenceAdmitsExecution`: `InferenceIsSound` of the same ops.
* `RejectionStands`: `RejectionIsFinal` of the ops in `Judged`, which are these
  without `optimization_barrier` and the two that have verifiers of windows and
  scatter dimensions.

`SharperType(t, u)` says that every shape that `t` admits is one of `u`, and
`SharperOp` that the operands and results of an op are sharper than those of
another.  What the program knows of an op is related by `SharperOp` to what it knew
before (`MoreIsKnown`) and to what will execute (`ActualIsSharper`).  There is a
lemma per shape function (`SliceSharpens`, `PadSharpens`, ...), which says that from
sharper types it infers sharper ones and that what it accepts it accepted before;
`InferenceSharpens` puts them together by the name of the op.  Monotonicity is that
lemma along a step, and soundness the same lemma from the op at run time, whose
inferred types have no bounds (`InferenceAddsNoBound`), so that the results, which
the verifier compares with them, are the shapes inferred.  For `RejectionStands` the
same is shown of the constraints on types, the traits and `verify`.  The arithmetic
is in `PaddedDimSharpens`, `SplitDimSharpens` and `JoinDimSharpens`: a padded, split
or joined bound is one, since the size functions are monotone, also where they
divide.

The hypothesis on the name is about the behaviour, whose op never changes; it is no
condition on what else `RuntimeOps` contains.

### Model-checked only

* Liveness (`EveryoneReturns`, `Delivered`, `RunEnds`, and that the passes end):
  fairness and ENABLED are outside the prover.
* `ResultsAreSpecified`, which needs induction over the folds that compute results
  and groups.
* `PortableArtifact` and `Rewriting`: types, attributes and programs are nested to
  any depth, the operators over them are recursive, and modules that reach a
  recursive operator are outside the prover.
* Of `OpRefinement` the other ops, whose shape functions select dimensions or fold
  over any number of operands (`SelectSeq` and `FoldLeft` have no facts in the
  prover's library); `SpeculatableIsSafe`, which says that what is accepted of an op
  early is accepted later, the converse of the relation that the lemmas follow;
  and `ReifiedShapeIsActual`.

## Plan

Done, in this order: `Rendezvous` with its proofs, `SendRecv`, the collectives,
`RunParallel`, `PortableArtifact`; then types and methods of the ops, the
interpreter, the passes, mesh axes, and the bytecode of types and attributes;
then the proofs above.

Left, in order of value: `RejectionIsFinal` and `InferenceIsMonotone` for the ops
with lists of dimensions (`dot_general`, `gather`, `reduce`, `concatenate`), which
needs a small theory of `SelectSeq`; that the collectives return tensors, which
would remove `OperandsAreTensors`; the remaining transforms.

## Not modelled, and why

* Floating point: rounding, the functions of libm (the constant `Libm`), CHLO
  decompositions, quantized arithmetic.  Floats are integers and NaN.
* The pattern driver of MLIR beyond "some pattern is applied somewhere, until
  none applies": its limit on iterations, benefits of patterns, simplification
  of regions, merging of constants.
* In the ops: `ragged_dot`, CHLO, tuples in refinement, builders, discardable
  attributes, the lookup of mesh symbols.
* In the passes: replica groups on a mesh in shape refinement; `tan`, mesh axes
  and locations in the compatibility expander; composites and quantization;
  backend configurations of custom calls.
* Text, `.npy` files and the sections and varints of bytecode: input and output,
  mostly MLIR's.  The version of the StableHLO dialect in bytecode
  (`readVersion`, `writeVersion`): nothing in the repository sets one.
* Rewrites into Linalg and TOSA: the meaning of the target is outside the
  repository.  The broadcast builders of `BroadcastUtils.cpp`.
* Bindings, tools, the builder API: thin wrappers.
* In artifacts: ops of other dialects, locations and regions, which are carried
  along or converted op by op; attributes that are regrouped without a
  condition.
