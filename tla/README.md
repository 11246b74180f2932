# A TLA+ model of the ONNX Runtime QNN execution provider

The QNN execution provider (`src/onnxruntime/core/providers/qnn`) runs ONNX
graphs on Qualcomm NPUs through the QNN libraries. This project models it from two
sides:

- the parts in which threads, callbacks, sessions and a restarting device meet:
  they are hard to test and they are where the code's comments make promises;
- the translation of an ONNX graph into QNN graphs, from `GetCapability` to the
  results of a run: which nodes are claimed, how they are grouped, fused and
  composed, and whether the result computes what ONNX says.

Model checking covers small instances of each part. Proofs cover the safety
properties of the concurrent parts, of the backend manager and of the partitioner
for instances of any size.

## The system and its parts

One *backend manager* (`QnnBackendManager`) owns the loaded QNN library, the
device and the *contexts*. Sessions (`QnnEp`) may share it. A context holds the
graphs of a model; it is composed from ONNX nodes or created from a *context
binary* file. Each graph is a `QnnModel`, which any thread may execute.

| part | source | modelled by |
|---|---|---|
| release timer | `builder/timer.{h,cc}` | `Timer`, `TimerSystem` |
| HTP power config manager | `builder/qnn_htp_power_config_manager.{h,cc}`, `qnn_htp_power_state_guard.h` | `HtpPowerConfigManager` |
| recovery from a subsystem restart (SSR) | `builder/qnn_model.cc`, `builder/qnn_backend_manager.cc` | `SsrRecovery` |
| shared memory allocator and allocation tracker | `qnn_allocator.cc` | `SharedMemory` |
| mem handles of a context | `builder/qnn_context_mem_handle_manager.cc` | `SharedMemory` |
| job thread pool, compilation of a batch of graphs | `builder/qnn_thread_pool.{h,cc}`, `qnn_execution_provider.cc` | `JobThreadPool`, `GraphPrepare` |
| sessions, models passed between them, context binaries | `shared_context.h`, `qnn_execution_provider.cc`, `builder/onnx_ctx_model_helper.cc` | `Sessions` |
| backend manager: library, device, contexts, SoC loop | `builder/qnn_backend_manager.{h,cc}` | `BackendManager`; contexts also in `Sessions`, `SsrRecovery`, `SharedMemory` |
| model wrapper, quantization parameters, utilities | `builder/qnn_model_wrapper.cc`, `builder/qnn_utils.cc`, ... | `OpBuilder`, `Precision` |
| op builders | `builder/opbuilder/` | `Elementwise`, `MoveOps`, `IndexOps`, `ReduceOps`, `ConvOps`, `MatrixOps`, `NormOps`, `OpFactory` |
| node units, fusions | `qdq_node_group_selector.cc`, `ort_api.cc`, `builder/qnn_node_group/` | `NodeUnits`, `PointFusions`, `ShapeFusions`, `BlockFusions`, `LinearFusions` |
| node groups, op affinity | `builder/qnn_node_group/qnn_node_group.cc`, `op_affinity/` | `NodeGroups` |
| partitioning | `qnn_ep_partition_utils.cc` | `Partitioner` |
| capability, layout, compile, run of one graph | `qnn_execution_provider.cc`, `builder/qnn_model.cc` | `OpTranslation` |
| profiling, op tracing, telemetry; provider factory, importer, file mapping, GenAI, library wrappers | see `PROJECT.json` | no |

`PROJECT.json` lists every part with its files, the lines each definition
models, and the hazards of the code at the lines where they bite.

How the concurrent parts interact: a run (`QnnModel::ExecuteGraph`) binds its
tensors through the mem handle manager of its context, asks the power config
manager for a mode before it executes and gives it back afterwards, and recovers
its context when the device restarted. The power config manager relaxes the
clocks from the thread of its release timer. Memory is freed by the application
at any time; the allocator then calls back into the backend manager.

## Modules

### Timer and TimerSystem

`Timer` has the members of `power::Timer` as variables: `thread_status`, the
three flags, and for the condition variable the set `asleep` of threads that wait
on it. `bkg` is where the background thread is in `BkgTimer`. One critical
section of `mtx_` is one action: `LaunchAccepted`/`LaunchRefused`,
`AbortTimerSkip`/`AbortTimerStop`, `DeInitializeStart`/`DeInitializeJoin`,
`InitializeStart`/`InitializeFail` for the callers, `Bkg...` for the thread. A
wait is split into falling asleep and being woken, so that a lost wake-up would
show. Time is a nondeterministic expiry.

`TimerSystem` closes `Timer` with threads that create, launch, abort and release
it as `CreateTimerThread`, `SetSustainedPerformance`,
`AbortActiveTimerAndDropBoostedId` and `ReleaseTimerThread` do. A release may come
at any moment, as the snapshot of `timer_` in `AbortActiveTimerAndDropBoostedId`
is meant to allow. The history variable `overtaken` has the aborts that were
waiting when a release began.

### HtpPowerConfigManager

Composes `Timer` with the manager and everything that drives it. `SetState` is
one section of `state_mutex_`; sections of `perf_mutex_` are entered and left in
separate actions because the callback takes that mutex with `try_lock` and acts
differently when it is held. A client goes through the program points `pc` of
`SetState` -> `SetSustainedPerformance` (boosting modes) or
`AbortActiveTimerAndDropBoostedId` -> `SetPerformance` (other modes), for the
start and again for the done call of a run or a compilation (`gs`). `ReturnStatus`
is the scope guard of `BindAndExecuteGraph` and the retry of
`HtpPowerStateGuard`'s destructor. `vote[id]` is what the driver was last told.
The history variable `leaked` counts the starts that no done call answers: the run
has no mode for its end, or its done call is rejected for want of a timer.

### SsrRecovery

Threads run models; models of the same binary share a context. `Crash` makes all
contexts of the moment useless. The actions follow `ExecuteGraph` (sizes, lock,
stale check, bind, execute, one retry) and `RecoverFromSSR` (clear the tensor
lists, take the recovery mutex, free and reload or take over, retrieve the graph,
set up the tensors). Using a context that is gone may have any outcome. Two history
variables name what transparent recovery does not promise: `disturbed` has the runs
that met a restart or another thread's recovery of their model, `broken` the models
that a failed recovery has left without tensor lists or, when the file could not be
loaded again, without a context. `RecoveryIsTransparent` is about the step in which a
run returns and takes `broken` from before that step, so a run is not excused by its
own failed recovery, unless there is no file or the file could not be loaded.

### SharedMemory

A block is a record of a base address and a size. `memory` is what `rpcmem` has
handed out; `allocations`, `clean_up_fns` and `tracked` are the allocator's and
the tracker's tables; `mem_handles[c]` is the table of context `c`;
`context_map`, `record`, `manager` and `session` are the lives of the owners.
Destroying a record is several steps ("dying", then its handles are cleared),
as the destructors run after the last `shared_ptr` count is gone. A callback locks
one `weak_ptr` and then the other, unregisters, and drops the owners, which may make
it the one that destroys them; each is a step of its own. A run that meets a restart
takes the recovery mutex and releases its context (`RecoverFromSSR`), also while
runs of sibling models are bound to it or about to register with it; going on with
the erased entry of `context_map_` (`GetOrRegisterErased`) is undefined and may end
the run or let it execute without a handle. Three things are not concurrent: an
allocation is not freed while a run uses it, as the comment in
`GetOrRegisterContextMemHandle` states; a session ends only when no run and no
recovery is in it; and one recovery at a time holds `GetContextRecoveryMutex`. A
section of `allocations_mutex_`, of `records_mutex_` or of `mem_handles_mutex_` is one
action, and so is `AllocImpl` as a whole, whose block nobody else knows before it
returns.

### JobThreadPool and GraphPrepare

`JobThreadPool` has the members of `thread::QnnJobThreadPool`; `at[t]` is where
the loop of worker `t` is, and a section of `queue_mutex_` is one action. The
200 ms limit lets a worker's wait end in any state, so its notification is not
modelled; the submitter's wait has no limit and is woken only by
`NotifyJobFinished` (or spuriously). `GraphPrepare` is the only user of the pool,
`QnnEp::CompileOnnxModel`: graphs are composed, then finalized in the same loop or,
if `use_multithreaded_prepare`, as jobs between the two calls of the power guard.
Each call may fail; an early return destroys the guard, the pool and the models in
this order. `boosted` is the vote of the guard. A call of the guard that fails leaves
`finalized_` false, and its destructor tries once more (`GuardEnds`) and ignores the
error; `relax_failed` records that. An exception in a job would end the
process (`std::terminate`) and is not modelled.

### Sessions

Up to three `QnnEp` objects in one process. A "generate" session compiles graphs
into the context of its manager and writes EPContext nodes; a "load" session
restores its graphs from context binaries or takes the models that others
published in `SharedContext`; an "htp" session loads with VTCM backup buffer
sharing, where the contexts of all sessions belong to one manager. One action is
what a session does between two acquisitions of a lock that another session may
hold. `HasQnnModel` reads the shared vector without the mutex: while another
session changes it (`holder`), the answer is a free choice and `raced` records it.
A model that was taken or found may still be refused (`SetGraphInputOutputInfo`,
`SetupQnnInputOutput`, `ApplyRuntimeGraphConfigs`): the session fails, the model
is destroyed and `rejected` records it; a failing `CompileContextModel` drops its
table (`Abandon`). The shared manager is published in two steps, since the slot is
read and set under two acquisitions of `mtx_`. With generating sessions created
one after the other nobody publishes in between, so the error of the second step
does not occur in the run. Constructors, set-up, deserialization, the exchange of
models, the written file, failures and destructors are actions; `backend` is the
state of every manager. The application keeps a session alive while models that
went to others use its manager.

### BackendManager

The members of `QnnBackendManager` are the fields of `m`. Set-up is the list of
steps of `SetupBackend` (or of the two halves that the multi-SoC compilation
uses); any step may fail, a failure runs `ReleaseResources`, and in a release any
single free may fail. An object is recorded by the serial number of the library
load it was made under, so that an object that survives its library shows.
Contexts are made alone or by lists of binaries with file mapped weights, a failed
mapped load and a plain retry; the callbacks of a list come in any order.
`SetupBackend` holds `logger_recursive_mutex_` and is one action. A recovery does
not hold it on a manager that several sessions share: `RecoverFromSSR`, which
releases a context that was loaded from a file, and `ReloadContextForSSR` are two
actions, and the set-ups of other sessions come in between. A compatibility check
is three: it finds the manager not set up (`ProbeBegin`), sets it up without
contexts (`ProbeSetup`) and releases it (`ProbeEnd`), whoever has set it up
meanwhile. The end of a round of the SoC loop and the two steps of the destructor
of its scope are actions too. The history variable `served` has the nodes that a
set-up in the shared mode has reported ready; a recovery takes away those of its
context and a probe all. In serializer mode the validator twins are made unless
`skip_backend_op_validation_` is set; it is off here.

### The translation of a graph

`Tensors` has dense tensors, the arithmetic of their elements and what the
operations compute. Real numbers are residues modulo the prime 8191:
sums, products and quotients are exact, so that an algebraic identity a
translation relies on holds of them and one it breaks fails. A transcendental
function is a fixed function of its own. Quantization is kept: a tensor of a QNN
graph holds codes, and an encoding is a scale and an offset, per tensor or per
channel. Rounding is abstracted away. A value beyond the range of an encoding of
scale 1 saturates, since small integers keep their order among the residues; for
other scales saturation is abstracted away too.

`OpBuilder` is `QnnModelWrapper` and `BaseOpBuilder`: a builder gives the sequence
of calls it makes on the wrapper ("steps"), and `Do` makes them on the tensor
table and the op list. The first tensor of a name stays, as in
`AddTensorWrapper`; a name of `UniqueNameGenerator` ends in the node's name, a
name the code puts together itself does not, so that two nodes can meet on it.
`Precision` has the mixed precision conversions. `Elementwise`, `MoveOps`,
`IndexOps`, `ReduceOps`, `ConvOps`, `MatrixOps` and `NormOps` have for every
operator what its builder checks (`...Supported`), registers as inputs
(`...Inputs`) and creates (`...Outputs`); `OpFactory` is the table of builders.

`NodeUnits` is `GetAllOrtNodeUnits` and the selectors behind it
(`qdq_node_group_selector.cc`): which `DequantizeLinear` and `QuantizeLinear`
nodes around an operator make one unit with it, which `Relu` or `Clip` before the
`QuantizeLinear` is folded into the unit because the encoding clamps as well, and
which `Reshape` behind a `Gemm` is absorbed. What no selector takes stays a unit
of its own, quantizers included. It also has the two ways in which the edges between
units are counted, `GetInputEdgesCount` and `GetOutputNodes`, and the helpers with
which the fusions walk the units.

`PointFusions`, `ShapeFusions`, `BlockFusions` and `LinearFusions`
have for every fusion when it matches (`...Match`) and the calls it makes
(`...Steps`), which may differ between trying, validating and composing.
`NodeGroups` is `GetQnnNodeGroups` with the fusions in the order in which they
are tried, `op_affinity` and the question whether a layout changes.
`Partitioner` is the walk of `CreateSupportedPartitionNodeGroups`, one action per
step of its loop. The walk counts a unit down from what `GetInputEdgesCount` says
of it, once for each place that `GetOutputNodes` of its producers lists; the model
keeps the two apart, and `CountsAgree` says that they agree.

`OpTranslation` puts them together. A model is loaded, and ONNX gives every tensor
its value (`OnnxReference`). `GetCapability` forms units of its nodes, groups the
units and asks every group's builder and the backend; the backend may refuse any
subset of what the model calls refusable, always the same one. The supported units
become partitions. ORT changes the layout of claimed layout-sensitive nodes and
`GetCapability` runs once more, on units that are formed again from the changed
nodes. Every partition is composed with its own inputs and outputs and with units
that are formed a third time, from the nodes of the partition alone
(`qnn_model.cc:282`): what another partition reads is an output there, and a
quantizer whose other neighbours are outside may join a unit it was kept from
before. The graphs run (`QnnSemantics`) between the nodes that stay on the CPU.
`MCOperators` and `MCTranslation` have the graphs.

`OnnxReference`, `QnnSemantics` and `Tensors` are external to the repository: the
operators of ONNX, and what a QNN op computes according to the parameters the
builders give it and to what their comments say of it.

## Runs

| run | instance | shows |
|---|---|---|
| `timer` | 3 threads | `NoLostWakeup`, `CallsReturn`, `CountdownEnds` |
| `power_sessions` | 2 sessions, 1 client each | `CountMatchesRuns`, `NeverDroppedMidRun`, `BoostedIdsAreLive`, `CallsComplete` |
| `power_failures` | 1 client, all failures, modes for one half of a run | `NothingCountedAtRest` |
| `power_skipped_relax` | 1 client | violation: a skipped relax is never made up for |
| `ssr` | 2 threads, 2 models, 1 binary, 2 crashes | `OneContextPerBinary`, `RecoveryIsTransparent`, `FreesOnlyDeadContexts`, `RunsReturn` |
| `ssr_swallowed_error` | 1 thread | violation: a failed retry returns OK |
| `shared_memory` | 2 threads, 2 contexts, addresses {0, 1}, sizes {1, 2} | `NothingNamesFreedMemory`, `LookUpFindsAllocation`, `BoundTensorsRegistered`, `UnregisterFindsHandle`, `CleanUpOnLiveRecord` |
| `graph_prepare` | 1 to 5 graphs, 1 to 3 threads | `JobsUseComposedModels`, `BoostedWhileFinalizing`, `PublishedAreFinalized`, `NothingLeftBehind`, `CompileReturns` |
| `sessions` | 3 sessions, 4 graphs, 4 binaries, 9 configurations | `OneOwner`, `ReadySessionsCanRun`, `GroupBinaryComplete`, `ConsumersServed` |
| `backend` | 3 kinds of session, 2 binaries, 2 SoCs | `NodesHaveContexts`, `ObjectsOfTheLoadedLibrary`, `DlcHoldsEverySoc`, `NodesServed`, `MappedNodesKeepWeights` |
| `translation` | 960 graphs on HTP and the CPU backend | `EdgeCountsAgree`, `GroupsCoverSupported`, `FusedGraphIsAcyclic`, `LayoutClaimsStand`, `AffinityHolds`, `SupportedComposes`, `GraphIsDataFlow`, `DeclarationsHold`, `ComputesOnnx` |
| `translation_gelu` | 1 graph | violation: a factor of 3 is taken for the half of a Gelu |

A violation run states what a comment or a document of the repository says; the
finding in `PROJECT.json` quotes the line. Every property of a passing run has a
mutant, a plausible bug in one definition, that TLC finds with the same
configuration.

What the properties except, and why, is said above each of them; the main ones:
`CallsReturn` an abort that a release overtakes, `NothingCountedAtRest` the starts
without a done call, `BoundTensorsRegistered` a context that a sibling's recovery
released, `NothingLeftBehind` a guard whose last attempt failed, `ConsumersServed` a
consumer that refused its model, `NodesServed` recoveries and probes.

The properties of `translation`, in the order of a graph's way: a unit has as many
input edges as its producers have readers in it; every supported
node is in exactly one group and the graph with each group fused into a node has
no cycle; what was claimed before the layout change is taken after it; no pinned
operator is smuggled in by a fusion; what `GetCapability` took, `Compile`
composes; a composed graph reads only what is there and writes each tensor once;
declared shapes and types are the ones the ops produce; and every tensor that
leaves a partition has the value ONNX defines.

### Bounds

- `timer`: two threads already show every pair of calls; the third lets a launch
  come between an abort and its wake-up by another thread.
- `power_*`: `MaxInflight` stops new starts at three counted or leaked ones. Two
  clients never count more than two, so in `power_sessions` the bound is not
  reached; in `power_failures` it allows for three leaks.
- `graph_prepare`: five graphs reach the threshold at which the pool is used even
  with one thread; with three threads two can be busy while the third takes the
  last job.
- `ssr`: two threads are the racing pair of the recovery mutex; two crashes allow
  a crash during a recovery. `MaxCrashes` bounds the handles.
- `shared_memory`: with two addresses and two sizes blocks can be adjacent, can
  span both addresses and can be allocated again at the same base with another
  size. Threads and contexts are symmetric; there is no liveness property in that
  run.
- `sessions`: three sessions are one that publishes and two that compete, or a
  group with a first, a middle and a last member. `SerialKinds` are the kinds that
  the application creates one after the other, because they pass one manager on;
  "load" sessions are created concurrently. `shared_context.h:115` says "Producer
  sessions can be in parallel" of sessions that publish models; the generating
  sessions of a group are serial here, since two in parallel would each publish a
  manager and write a binary without the other's graphs.
- `backend`: `MaxLoads = 2` is one attempt and its retry, `MaxContexts = 3` two
  binaries and one that is loaded again after a failure or a restart, and two SoCs
  are one round after another.
- `translation`: each operator is a graph of its own, on both backends, in the
  variants its builder tells apart (opsets, negative axes, missing inputs, empty
  and broadcast dimensions, encodings, 64-bit integers). Each input has a
  `DequantizeLinear` of its own: ORT makes the ones that are shared unique before
  it asks the provider. Then graphs in which operators meet on a tensor, quantized
  operators with what may keep them from becoming a unit (an activation that
  clamps more than the encoding, a float result that has another reader or leaves
  the graph, encodings that differ), every fusion's pattern and near misses of it,
  and all 64 graphs of four nodes with any subset refused, which is where
  partitioning is interesting. Tensors have at most a few dozen elements.

`power_sessions` leaves compilations to `power_failures` (`InitModes = {}`):
they go through the same calls and never arm the timer.

### Fairness

Threads inside a call go on, the timer's thread runs and time passes (weak
fairness). A thread that waits for a mutex, or that was woken and needs the mutex
while its predicate holds, gets it if it could again and again (strong fairness):
the operating system does not starve a thread for ever. Nobody is obliged to begin
a call, except that in `sessions` the application does create the sessions of its
configuration. `SharedMemory`, `BackendManager` and `OpTranslation` are checked
for safety only; in `translation` deadlock is checked too, so every graph reaches
the end of its run or a failed session.

## Proofs

TLAPS checks these for every value of the constants. Each proof module has the
inductive invariant, one lemma per action that says what the action does to it,
and the theorems. Every inductive invariant was an invariant of a TLC run before
it was proved.

- `HtpPowerProofs`, about the timer alone (`TimerSystem`): `TimerInvHolds`,
  `NoLostWakeupHolds`. Type correctness and the absence of lost wake-ups are not
  inductive: that the background thread does not sleep on a launched timer needs
  that `thread_status` tells where the thread is and that a launched timer keeps
  its flag. `TimerInv` adds both. A release may come at any moment.
- `HtpPowerProofs`, for any sessions, clients and modes of the manager. `PowerInv`
  says who holds `perf_mutex_` at each program point, that work happens inside the
  life of its session and in which half of a run a client is; it holds whatever
  fails and gives `BoostedIdsAreLiveHolds`. About the in-flight count two things
  are proved:
  - `CountBoundedHolds`: the count is at most the number of clients that still owe
    a done call plus `leaked`, hence at most `leaked` at rest
    (`NothingCountedAtRestHolds`), whatever the run options and whatever fails.
  - `CountMatchesRunsHolds`: the count is the number of clients in flight. With
    `OnlyWaiting` (while the callback relaxes, whoever is in flight waits for
    `perf_mutex_`) it gives `NeverDroppedMidRunHolds`. Hypothesis: starts and done
    calls are paired (`Paired`), which is to say that both modes of a run are set or
    neither, the timer thread can be created, and the done call of a compilation
    does not fail.

  The code does not enforce `Paired`, and without it the count is wrong: a pre-run
  mode alone leaks it, a post-run mode alone takes that of another run, a session
  whose timer thread could not be created has its start rejected and its done call
  counted, and `HtpPowerStateGuard` repeats a done call that failed.
- `SsrProofs`: `SsrTypeOKHolds`, `OneContextPerBinaryHolds`,
  `FreesOnlyDeadContextsHolds`, `RecoveryIsTransparentHolds`. A reload adds a
  context of its model's binary, so the invariant `SsrInv` also says who holds the
  two mutexes at each program point, that the reloading thread's binary has no
  context left, that a graph's context is of its model's binary, and that a thread
  in recovery knows its context to be dead or gone. `AttemptInv` adds what an
  undisturbed run relies on: every binary has a context, or a thread that is making
  one, or was lost by a failed reload; a model without tensor lists is being
  recovered or lost; and a second attempt has a context that no restart has killed.
  The constants satisfy `SsrAssumption` (finitely many binaries, one for each
  model). Transparency has two more hypotheses: `graphExecute` fails only with
  restarts (`OtherErrors = FALSE`), any other error being returned as it is, and
  there is one binary, since with two a model may take over the wrong context.
- `SharedMemoryProofs`: `MemTypeOKHolds`, `CleanUpOnLiveRecordHolds`,
  `LookUpFindsAllocationHolds`, `NothingNamesFreedMemoryHolds`,
  `UnregisterFindsHandleHolds`, `BoundTensorsRegisteredHolds`. `MemInv` says that
  blocks of `memory` are disjoint, that the tables hold only such blocks and that a
  block being freed is in no table (`BlockInv`), and which record and manager are
  alive at each program point (`LifeInv`). That the search by `upper_bound` finds
  exactly the block around an address follows from disjointness and from the
  existence of a greatest base below it. `HandleInv` relates the mem handles of live
  contexts to the callbacks that will remove them: each handle is in a block that is
  allocated and has a callback for it, or is being registered, or is being freed
  with the callback still to run. `CallInv` is the converse, that each pending
  callback has its handle, and with it `UnregisterFindsHandle`. `BindInv` says that
  what a run is bound to is allocated until the run returns, and registered as long
  as no recovery has released its context.
- `GraphPrepareProofs`: `PrepareInvHolds`, `JobsUseComposedModelsHolds`,
  `BoostedWhileFinalizingHolds`, `PublishedAreFinalizedHolds`,
  `NothingLeftBehindHolds`. Jobs are submitted in the order of the graphs and taken
  in that order, so the jobs taken so far are `1..Taken`; `PrepareInv` says that
  each of them is finished or on exactly one worker, that the rest of the queue is
  still composed, and that `in_flight_jobs` is the number of busy workers. When the
  wait ends both are zero, hence every graph is finalized or its result is an error.
  The only assumption is that there is at least one thread.
- `BackendProofs`: `NodesHaveContextsHolds`, `ObjectsOfTheLoadedLibraryHolds`,
  `DlcHoldsEverySocHolds`, `NodesServedHolds`, `MappedNodesKeepWeightsHolds`, for
  any binaries, nodes, SoCs and bounds and any failures. They share the invariant
  `BackendInv`: handles are numbered in the order of creation, so that a new one
  is never in the node table; contexts and objects belong to the library that is
  loaded; between set-ups nothing is left but what could not be freed; a node that
  was promised has an entry; and inside the SoC loop, also while its scope is
  being left, the device is that of the SoC and the power id that of the device.
  The proof goes from the inside out: what loading binaries, set-up steps and
  releases do to the members, then one lemma per public call.
- `PartitionerProofs`: `EveryNodeIsProcessed`, `GroupsCoverSupportedHolds`,
  `FusedGraphIsAcyclicHolds`, for any graph with its nodes in topological order
  (`IsGraph`) on which the two counts of its edges agree (`CountsAgree`), and any
  set of supported nodes. `EdgeCountsAgree` checks the hypothesis on the graphs of
  the run `translation`. They are about `Walk`, the walk by itself; in
  `OpTranslation` it starts from `InitWalk` on the nodes `1..N`, whose inputs come
  from earlier nodes. The induction is on the steps: `QueueInv` says what
  `in_degree` counts and that the two queues hold the ready nodes once, `GroupInv`
  that the groups hold the supported nodes processed so far, and `BorderInv` that
  what the open group feeds is in it or still to come. The node that a step adds
  to the graph of groups is therefore a sink of it, and adding a sink makes no
  cycle (`AcyclicInv`). That the walk ends with every node processed, so that the
  exception at its end is unreachable, is by the least node left over.
- `SessionsProofs`: `OneOwnerHolds` and `ReadySessionsCanRunHolds`, for any
  sessions, graphs, binaries and configurations. A model goes from the table of
  the session that deserialized it to that session or to the shared vector, and
  from there to another session, or is destroyed when it is refused (`Drops`);
  that nobody else has it at any of these points is not visible in the state
  before. `OwnerInv` adds where a session of each kind can be (`PlaceInv`), which
  models it can have there (`OwnInv`), and that a model found elsewhere comes from
  a session whose creation is over (`AbroadInv`): a session that is still
  deserializing makes models that nobody can have yet. This holds whatever fails
  and in whatever order the sessions run. `RunInv` adds what a ready session needs
  in order to run: a model belongs to the manager of the session that made it, or
  to one that is kept alive (`HomeInv`); the names of a manager lead to contexts
  of their binaries (`NamesInv`); contexts of models stay (`ModelsInv`); a manager
  that the compatibility check may release has no models (`UpInv`); and a session
  has the models of the nodes it has been through (`ProgressInv`). The
  configurations are well formed (`ConfigsWellFormed`: a session has nodes, no
  node twice, and one that loads names a binary for each of its nodes).
  `ReadySessionsCanRunHolds` has the hypothesis `SharingRules`: sessions that may
  use the manager of another one are created one at a time, a session with VTCM
  backup buffer sharing does not also share models, and the name of a main node
  stands for one binary. The run's configurations satisfy it. The code does not
  enforce it: a second session would set up or release a manager that the first is
  composing in, and the context that a main node's name leads to would be the one
  of the other binary.
- `GroupProofs`, on top of `SessionsProofs`: `GroupBinaryCompleteHolds`, for any
  sessions, graphs, binaries and configurations and whatever fails. That the binary
  of an ended group has every member's graphs depends on the whole life of the
  group: its members find each other through the slot of the shared manager and
  their file through a name that `SharedContext` keeps elsewhere, and both are
  changed at different points of a session's creation. `GroupInv` says, besides
  which session belongs to which group and names which file (`MembersInv`,
  `FoundersInv`): a manager keeps what its members compiled, and the session about
  to write has all of it (`CompiledInv`, `BufferInv`); while a sharing session is
  created, the other members of its group name the current file and the slot has
  their manager or is empty (`NamingInv`); a group that was ended is never joined,
  renamed or written again (`ClosedInv`); and as long as no session has failed, two
  sessions that name one file are of one group (`AgreeInv`). `GroupEffect` reduces
  the actions to the eight things a step can do to groups and files.
  The theorem has the hypotheses `SharingRules` and `GroupRules`: where a generating
  session ends a group, only sessions that generate and share stop the sharing. The
  run's configurations satisfy both. The code does not enforce `GroupRules`, and
  the property needs it: a session of another kind that stops the sharing empties
  the slot in the middle of a group, whose later members compile on another manager
  and still write to the file of the earlier ones, without their graphs.

Only model-checked: all liveness properties (fairness is out of the provers'
reach), and the properties of the translation other than the ones of the walk: they
are about what recursive definitions compute, and induction over data is out of the
provers' reach.

## Observations

The findings of the three violation runs are in `PROJECT.json`. The following
were met while the models were built and bounded. The passing runs leave these
cases out or state their properties around them, as said below.

Power and timer:

- An `AbortTimer` that finds the timer idle leaves `is_timer_stopped_` set; a
  launch before the background thread has taken the flag is put back to IDLE and
  its callback never comes (`timer.cc:43`, `:61`, `:92`). `CountdownEnds` counts
  this as an end.
- RUN_START of an id whose timer was armed by another session only aborts that
  timer and does not vote for its own id (`qnn_htp_power_config_manager.cc:478`),
  although line 476 says "This id holds a burst/sustained vote".
- A pre-run mode with neither a post-run mode nor a session default issues
  RUN_START without RUN_DONE (`qnn_backend_manager.cc:2550`), so every such run
  leaks one count; a post-run mode alone issues RUN_DONE without RUN_START, and
  it takes another session's count: the timer may then relax in the middle of that
  session's run, although `qnn_htp_power_config_manager.cc:459-461` says that a
  running graph is never dropped mid-computation. `power_sessions` has modes for both
  halves; `power_failures` has one client, for which the count shows the leak.
- An `AbortTimer` that waits when the timer is released may wait for ever: `BkgTimer`
  leaves with DEINIT and without a notification (`timer.cc:36-40`), and the abort
  waits for IDLE, while the comments at `timer.cc:83-86` and
  `qnn_htp_power_config_manager.cc:690-692` say that it cannot hang. `CallsReturn`
  excepts it.

Contexts and memory:

- A model whose context is gone takes over the first context of the manager,
  whichever binary it was made from (`qnn_model.cc:584`). The run `ssr` has one
  binary, for which the comment at line 582 is right.
- When memory is freed while the last owner of its context record destroys it,
  `lock()` fails and the memory goes back before the record's mem handles are
  unregistered (`qnn_backend_manager.cc:3001`). `NothingNamesFreedMemory` is about
  the handles of live records.
- On a manager that is set up, only the first path of a set of binaries is looked
  up (`qnn_backend_manager.cc:2179`); with a known first and a new second binary
  `at()` throws out of a `noexcept` function. No model of `sessions` has such a set;
  `NodesServed` counts such a set-up as failed.
- The same lookup takes the first element of the list of binaries
  (`qnn_backend_manager.cc:2179`). A compatibility check passes an empty list; if
  another session has set the manager up in the shared mode since the check found it
  not set up, there is no first element. The model lets the check go on.
- A compatibility check that found the manager not set up releases it at its end
  (`qnn_execution_provider.cc:3843`), also when another session has set it up in the
  meantime and uses it. `NodesServed` excepts it; in `sessions` the sessions that
  share a manager are created one at a time.
- A recovery erases the entries of its context from the table of nodes
  (`ReleaseSpecificContextHandle`), and the reload does not enter the new context: a
  session that is created later does not find it and loads the binary once more or,
  as above, throws.
- A recovery releases its context without regard to runs of sibling models that are
  bound to it (`qnn_model.cc:578`); a run that has found the entry of `context_map_`
  and not yet registered goes on with a reference to an erased element.
  `BoundTensorsRegistered` is about contexts that are still there.
- A model that a session has taken from the shared vector and then refuses is
  destroyed (`qnn_execution_provider.cc:2888-2890`); no other session can have it.
- The recovery path is set on all models of the accumulated table
  (`qnn_backend_manager.cc:2134`), so with two main context nodes the models of the
  first binary get the path of the second.
- A failed load with file mapped weights deregisters the weights of all contexts,
  while `emplace` keeps the table entries of the failed request
  (`qnn_backend_manager.cc:1418`, `:1714`). `MappedNodesKeepWeights` holds up to
  such a failure.
- A device or backend that could not be freed keeps its flag although the library
  is unloaded next (`qnn_backend_manager.cc:1009`); in the SoC loop it is taken for
  the next SoC's. `ObjectsOfTheLoadedLibrary` and `DlcHoldsEverySoc` hold while no
  free has failed.

Translation:

- An empty `Slice` that only a `Concat` reads is elided on HTP; if the backend
  refuses the `Concat`, the empty tensor leaves the partition and `Compile` fails
  (`slice_op_builder.cc:216`).
- A `Conv` with SAME padding and dilations, or a `ConvTranspose` whose padding
  turns out negative, is claimed before the layout change and declined after it
  (`conv_op_builder.cc`).
- A second `MatMulInteger` or `ConvInteger` over one `DynamicQuantizeLinear` is
  stranded when the backend refuses its fusion after the first one was accepted
  (`dq_matmul_integer_fusion.cc:240`, `dq_conv_integer_fusion.cc:321`).
- The override of the output encoding of 16-bit `Sigmoid` and `Tanh`
  (`simple_op_builder.cc:660`) also applies to a tensor that leaves the partition,
  whose reader uses the encoding of the ONNX graph.
- With native MatMul, a `Gemm` that absorbed a `Reshape` is still built as
  `FullyConnected` while its weight is left untransposed; the models of absorbed
  Reshapes leave native MatMul off (`gemm_op_builder.cc`).
- `GetClipMinMax` takes a bound of a `Clip` that is no initializer for an absent
  one (`qdq_node_group_selector.cc:288-296`), so a `Clip` whose bound is computed
  is folded whatever the bound, while the comment above (line 307) allows it "iff
  the terminal Q's encoding cannot represent values outside the activation's clamp
  range".
- The selector of `Gemm` reads `beta` with the default 0, where ONNX has 1 and the
  same file another time reads 1 (lines 1447 and 427): a `Gemm` that leaves `beta`
  out and has a dequantized bias never becomes a unit.
- `IsQDQPairSupported` compares only the first scales, and no zero points
  (line 669): quantizers that differ in the zero point pass for equal ones.
- `CheckFlattenableLayerNorm` compares element counts, while its comment
  (`layernormalization_op_builder.cc:101`) says "sized exactly to X.shape[axis:]":
  a scale of the right size and another shape is broadcast differently.
- The scale of `ScaleSoftmax` is fused without regard to the opset, on which the
  default axis depends (`softmax_op_builder.cc:38`).
- When a cast to int64 follows a `Transpose`, the `Transpose` writes the graph
  output and the cast reads a tensor that nothing writes
  (`transpose_op_builder.cc:219-269`).
- Names that are put together without `UniqueNameGenerator` can meet: the indices
  of two `ScatterND` with different bounds (`scatternd_op_builder.cc:57`), the
  transposed input of two `TopK` (`topk_op_builder.cc:103`), and static weights
  that are laid out anew under the initializer's own name.

## Not modelled, and why

- Rounding, the precision of floats, and saturation for scales other than 1: the
  residue arithmetic is exact. A translation that is right only up to rounding
  cannot be told from one that is exact.
- Op builders whose operators have no finite exact model here or whose semantics
  the builders leave to the backend: attention, grouped-query attention, rotary
  embedding, LSTM, GRU, RNN, NonMaxSuppression, ROI operators, STFT, Inverse, the
  random operators, Buffer, `If` subgraphs, and the block quantized forms
  (MatMulNBits, GatherBlockQuantized, LPBQ fusions).
- Of the node units, the selector of `GRU` and the check of block quantized weights
  in `IsGemmSafeForAbsorbedReshape`. Custom ops and `SequenceAt` fusions.
- The GPU and IR backends in the translation, BF16, and ORT's optimizer, which
  may move the Transposes of the layout change.
- Values of power configs: no property modelled here tells them apart.
- Data races inside `context_map_` and `contexts_` during a recovery: a lookup, an
  insertion and an erasure are atomic in the models. Reuse of a freed context
  handle's value.
- The Dx12 allocator and imported memory have the structure of the HTP allocator
  and are Windows only.
- Profiling, tracing, telemetry and dumps write output that nothing reads back.
  The provider factory, option parsers, EPContext protobufs and the compatibility
  strings are sequential parsing and formatting. File mapping, rpcmem, GenAI and
  SoC tables wrap other libraries.
