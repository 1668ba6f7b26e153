# TLA+ models of scene-polytree

scene-polytree keeps a scene graph as an immutable forest ("polytree") with flat
transform records, evaluates world transforms incrementally (optionally on a thread
pool), and is integrated into O3DE as a set of components that reserve slots of a
prebuilt scene for prefab instances. This directory models the parts of it that keep
state, model-checks them with TLC on small instances and proves part of the results
with TLAPS for every instance. Paths below are relative to the repository.

## 1. Inventory

| Part | State | Operations | Interacts with | What makes it correct |
|---|---|---|---|---|
| `cpu_task_executor` (`src/cpu_task_executor.cpp`) | job fields under `m_mutex`, atomic `m_next`, join counter, generation, statistics | `execute`, `drain_job`, `worker_main`, `reset_statistics`, destructor | called by `evaluate_transforms` once per dependency level | chunks are disjoint and cover the range; all are done before `execute` returns; no worker touches a job after its call; no lost wake-up |
| `transform_state` (`include/scene_polytree/transform_state.hpp`) | records (local, world, revisions, dirty flag), dirty frontier, revision, mutation and evaluation generations | `set_local`, `mark_dirty`, frontier compaction | plans, evaluation, observers | the frontier lists each dirty node once; revisions do not wrap |
| planning and evaluation (`transform_evaluation.hpp`, `evaluation_plan.hpp`) | workspace stamps, generation, node vectors; plan handles | `prepare`, `make_plan` (full, partial), both `evaluate_transforms`, `changed_transform_nodes_since` | state, executor | plans hold exactly the affected nodes, parents first; stale plans are refused; clean worlds are composed from their parents |
| authoring and freeze (`authoring_scene.hpp`, `scene_freeze.hpp`, `basic_scene.hpp`) | mutable topology by stable id, authoring records and their revision; per runtime scene a frozen topology, records and the authoring revisions they came from | insert, `set_local`, reparent, detach, erase, freeze (first or incremental) | hands records to `transform_state` | topology and records stay coupled; worlds an incremental freeze carries over are still coherent; revisions never go back for an observer |
| motion extension (`extensions/motion`) | records of moving nodes sorted by handle, a mutation generation; the tick of `fixed_step_sequence` | set, deactivate, batches (two algorithms), clear; `advance_motion_scene` | writes locals, evaluates | batches mean the last update of each node; stale spans are detectable; a step is all or nothing |
| `SceneInstance` (O3DE) | slots (reserved, generation, placement), bindings both ways, controllers with their targets, write owners, batches and command epoch, accumulated time, the batch of evaluated nodes | reserve, place, bind, unbind, reset, release, attach, detach, input, correct, advance, synchronise | owned by the system component; calls into controller batches, which call back | leases are unique; old handles and tokens reach nothing; controllers never outlive their lease; a failed attachment leaves no trace; entities show the scene |
| `ScenePolytreeSystemComponent` (O3DE) | scene lives, command queue, registrations, controller factories, tick connection | create, destroy, submit, tick, collect registrations, activate, deactivate | completions call back into the spawner, which queues more commands | every accepted command is executed once and answered; the tick sleeps only when there is nothing to do |
| `ScenePolytreeSpawnerComponent` (O3DE) | lifecycle, generation, one record per instance, a cancellation boundary shared with service callbacks | `Spawn`, `Despawn`, `CancelSpawn`, completions, `Activate`, `Deactivate` | system queue, engine spawn service, TickBus queue | every request is answered once; cancellation is final; no slot or entity is lost on any failure path |
| `ScenePolytreeComponent` (O3DE) | lifecycle, its resolved registrations, the scene it builds | begin build, asset events, scene completion, fail, deactivate | collection of the system component, asset system, spawners | a registration is answered once; a ready scene has all its partitions; a scene does not outlive its component |
| `PrefabTopology.cpp` (O3DE) | none | extract, validate and normalise a hierarchy; match an instance with it | spawner, service callbacks | exactly the well-formed hierarchies are accepted, parents precede children, ids are unique and the same for prefab and instance |

Hard behaviours: real threads in the executor (three lock regions per worker and job, an
atomic cursor, two condition variables); plan handles whose spans point into a workspace
that later plans overwrite; generations that wrap; immediate reservation against queued
release; cancellation racing the spawn service; failure of any of the eleven steps of an
instance's life; deactivation with commands and callbacks in flight; controller callbacks
that call back into the system under a recursive mutex; a tick that disconnects itself;
assets that load in any order while components come and go; worlds carried from one frozen
scene to the next. `PROJECT.json` lists them one by one under "hazards", at the line where
each bites.

## 2. Modules

| Module | Models | Composed with |
|---|---|---|
| `ParallelFor` | what `execute` promises, without threads: a call visits every index of `[0, count)` exactly once before it returns | abstract specification of `TaskExecutor` |
| `TaskExecutor` | `cpu_task_executor`, one step per lock region, atomic access, notification or function call | `MCTaskExecutor`, `TaskExecutorProofs` |
| `SceneForest` | the frozen topology, the transforms and the records a freeze hands over, with their assumptions | `SceneTransforms`, `TransformEvaluation` |
| `SceneTransforms` | what state, plans and evaluation promise together: edits, node-by-node evaluation of whole dirty subtrees, an observer by revision | abstract specification of `TransformEvaluation` |
| `TransformEvaluation` | the code behind that promise: frontier, workspace, every path of `make_plan`, stale-plan checks, both evaluators | implements `SceneTransforms`; `MCTransformEvaluation`, `TransformEvaluationProofs` |
| `SceneOperations` | `SceneInstance` slots and the system component's queue, as operators on a state record | `SceneSlots`, `Spawner` |
| `SceneSlots` | those operations under clients that submit any command with any handle ever issued | `MCSceneSlots`, `SceneSlotsProofs` |
| `Spawner` | `ScenePolytreeSpawnerComponent` on the same operations, with the engine's spawn service and TickBus queue | `MCSpawner`, `SpawnerProofs` |
| `ActiveMotionSet` | `active_motion_set` with both overloads of `apply_updates` and a client's span | `MCActiveMotionSet` |
| `MotionStep` | local edits, evaluation and `advance_motion_scene` as functions from scene to scene | `SceneSync` |
| `SceneFreeze` | the authoring scene, full and incremental freezes, the runtime scene and an observer | `MCSceneFreeze`, `SceneFreezeProofs` |
| `SceneSync` | commands, bindings, corrections, `Advance`, entity synchronisation and the tick connection, on `MotionStep` | `MCSceneSync`, `SceneSyncProofs` |
| `ControllerRuntime` | factories, batches, controllers, targets, command epochs, callbacks | `MCControllerRuntime`, `ControllerRuntimeProofs` |
| `SceneBuild` | registration, collection, asset loading, building and destroying scenes, the system's own shutdown | `MCSceneBuild`, `SceneBuildProofs` |
| `PrefabTopology` | hierarchy extraction, normalisation and instance preparation as operators, against reference definitions | `MCPrefabTopology` |

Definitions keep the code's names where TLA+ allows it; `PROJECT.json` maps each to its
lines. A definition placed just before another one and described as a variant of it
("a release that hands the lease back with its old generation", ...) is a plausible wrong
form of the code: substituting it must break the property named under "mutants".

### How state and actions correspond to the code

**TaskExecutor.** Fields keep their names. `pc` is where each thread is; `"asleep"` and
`"blocked"` are the two `wait` calls after their predicate was false, and both may wake
spuriously. `Dispatch` is the lock region of `execute` that publishes a job; `NotifyJob`
the `notify_all` after it; `LoadNext`, `FetchAdd`, `RunChunk` are `drain_job`, run by the
caller and each worker; `WorkerWait`, `WorkerStart`, `WorkerFinish` the three lock regions
of `worker_main`. `total`, `hits` and `expected` are history: the current call's range,
visits per index, and the chunks that should have been counted. Only one thread calls
`execute` (`docs/transforms.md` forbids reentrant and concurrent use).

**SceneTransforms / TransformEvaluation.** A transform is an element of a constant set and
`Compose` a constant operator; the MC modules use sequences of locals, so two worlds are
equal only if all their inputs were. Node records are functions on `Node`. A plan is a
handle (workspace, length, generations), its contents are read from the workspace at the
time of use, as spans are. `begin_evaluation` is the checks and counter updates of both
overloads, `push` one node of the sequential sink, `execute_task` one node of a level's
batch, `finish_evaluation` the commit and `compact_dirty_frontier`. `fresh` is history:
nothing has happened since that should outdate the plan. `Synchronize` is an observer in
the manner of `SceneInstance`'s entity synchronisation.

**SceneOperations.** A scene's `life` is its entry in the system component's map: absent
(`None`), `Pending` (created, not built), `Alive`, `Destroying`, `Erased`. A slot keeps
`reserved`, `generation`, whether its placement stands, and which group of entities is
bound to it. `m_commands` is swapped into `draining` at a tick, so what a completion
queues runs one tick later. `Result` lists the early returns of the commands in their
order; `Execute` applies the effect. `controllers` is the set of instance handles
with attached controllers.

**Spawner.** One record per instance, with the code's states. Helper functions of the code
are operators from state to state, so that a handler's whole call chain (complete, submit
the next step, or fall through to cleanup because the scene is gone) is one action.
`boundary` and `prepared` are the `SpawnCallbackState` shared with the service's callbacks.
`service` is the request queue of each ticket and `queued` the TickBus function queue;
both are external and modelled from how the component uses them: requests of one ticket
run in order, a callback posts its continuation to the queue, destroying a ticket queues
the removal of its entities ("Drop"). `answers`, `despawnAnswers`, `instanceOf`,
`cancelled` record what callers have been told.

**ActiveMotionSet.** The vector of records is a sequence. `Set` and `Erase` are the bodies
of `set` and `deactivate`; `apply_each` folds `Set` over a batch as the sink does;
`normalized`, `merged` and `mutated` are the three phases of the workspace overload (the
counting pass only reserves memory). `span` is what a client got from `records()`, with the
generation it read.

**MotionStep.** A scene is one record: locals, worlds, dirty nodes, revisions, motions (as
the map `ActiveMotionSet` shows the set to be) and the next tick. `step_error` lists the
early returns a `SceneInstance` can meet, `admitted_step` is the rest, including its own
error paths, which `HeadRoomExact` shows unreachable once a step is admitted. Evaluation is
a whole full-plan evaluation; `TransformEvaluation` shows what plans and threads make of it.

**SceneFreeze.** Everything is keyed by stable identity; dense handles and sibling order are
left out. `recorded` is the key set of the authoring records. `remapped_clean` is the
condition under which `freeze_scene_impl` leaves a carried-over record clean. An observer
of an incremental freeze goes on from its last revision; a freeze without a previous scene
starts its own clock, so an observer of it starts from nothing.

**SceneSync.** `si` is the `SceneInstance`: the scene of `MotionStep`, `m_entityBindings`
and `m_entityToNode`, `m_active`, the accumulator, and the direct batch with its stamps,
epoch and validity. A tick is split where other code may run (between commands, whose
completions queue more) and where the properties look (each fixed step); the mutex keeps
everybody else out. A controller is whether one is running and what it writes. `shown` is
the world last written to each entity.

**ControllerRuntime.** `rt` holds the controller tables of `SceneInstance`; `frame` is the
callback in progress, if any, with the commands it was granted (callbacks do not nest, see
section 6). An attachment is prepared in one step, then constructs its controllers one
callback at a time; during a callback the controller may write through its sink. Client code may use any token ever issued (`issued`) and the
last sink after its callback. `inexact` collects the kinds of callbacks whose applied
values were not what their granted commands say.

**SceneBuild.** `comp` is each component's lifecycle, registrations and scene, `sys` the
collection (scene entities, each with whether it is a default target, and registrations), `asset` the state of each prefab's asset. Handlers that call into other
components (`BeginBuild`, `FailBuild`, notifications) are operators on the component's
state, so that a whole call chain is one action. Slot commands of the same queue are left
to `SceneSlots` and `SceneSync`. `dropped` are registrations whose component or system
went before it could answer; the code tells nobody then. `ended` is a history variable,
read by properties only: the scenes that components had been given, whether queued or
alive, when the system component stopped and forgot all of them. It is computed from the
components, not from `m_scenes`, so that it cannot excuse a scene that vanished earlier.
`ReadyIsWhole` demands the scene of every ready component in `m_scenes` unless it is in
`ended`, and demands it absent if it is.

**PrefabTopology.** Strings are sequences of character codes, because escaping and the
lexicographic order are what is checked; a world is the sequence of the locals it is
composed of. The recursive lambdas are functions over the number of steps to the root.
`WellFormed`, `Descent`, `RawPath` and `DescendsIn` define the wanted result by
reachability and unescaped paths.

## 3. Runs

Sizes are distinct states of the complete state space.

| Run | Instance | States | Properties | Shows |
|---|---|---|---|---|
| `executor` | 3 workers, counts 1, 2, 5, grains 0 and 2, 2 dispatches | 293 thousand | `NoWorkerOutlivesCall`, `StatisticsExact`, `ImplementsParallelFor`, `CallsReturn` | the thread pool is a parallel-for; `execute` and the destructor return |
| `evaluation` | 4 nodes, a depth-first and a breadth-first order, 1 workspace, 2 plan handles, modulus 3 | 265 thousand | `PlanExact`, `AcceptedIffFresh`, `ImplementsSceneTransforms` | plans are exact, accepted exactly while fresh, and evaluation keeps the promise of `SceneTransforms` |
| `scene_slots` | 1 scene, 2 slots, modulus 3, 2 queued commands, 2 releases per slot | 1.1 million | `EndedLeasesStayEnded`, `DormantSlotsClean`, `ControllersHoldLease`, `LeasesUnique` | leases, dormant slots and controllers under arbitrary clients |
| `spawner` | 2 slots, 2 spawns, 1 despawn, 2 activations, prefabs with and without controllers | 4.9 million | `LeaseHeld`, `ActiveIsComplete`, `BoundEntitiesExist`, `EntitiesOwned`, `AnswersCoherent`, `StrandedOnlyByControllers` | safety of the whole instance lifecycle, across deactivation |
| `spawner_answers` | 1 slot, 2 spawns, 2 despawns, controllers, fair engine | 89 thousand | `RequestsAnswered` | every request is answered |
| `spawner_attaching` | 1 slot, controllers, 1 activation | stops at the violation | `NoOrphanSlots` | the finding of section 7 |
| `active_motion` | 3 nodes, 2 motions and a stationary state, every batch of up to 3 updates | 2 thousand | `SpansDetectable`, `LastUpdateWins` | batches against their meaning, detectable spans |
| `controllers` | 2 slots, 2 types, attachments of 1 and 2 controllers, a write conflict, handle width 3 | 3.1 million | `TargetsExact`, `TokensFaithful`, `HandlesNeverRevive`, `FreeSlotsStill`, `CallbacksApplyExactly` | exact tables, no revived tokens or handles, exact application of commands |
| `scene_sync` | 2 slots of 3 nodes, 2 entities, steps of 2 units, frames of 1 and 5, epoch width 3, 6 revisions, 2 ticks, fair tick bus | 2.6 million | `DirectBatchExact`, `QuiescentShown`, `BindingTableAgrees`, `HeadRoomExact`, `WorldCorrectionExact`, `EventuallyShown` | exact batch, safe sleep, exact corrections and refusals, everything shown in the end |
| `scene_freeze` | 3 identities, 2 transforms, 4 revisions | 1.8 million | `Coherent`, `ObserverComplete` | coherence and observers across freezes, up to the last revision |
| `scene_build` | 2 components, 3 owners and prefabs (2 registrations at a time), 2 scenes, 1 reset, a configuration and a prefab that are refused, the system may stop, fair engine | 1.4 million | `AnsweredOnce`, `ReadyIsWhole`, `ScenesOwned`, `NoneLost`, `BuildsEnd` | answers, ready components with their whole scenes, no orphan scene, no lost registration, every build ends |
| `prefab_topology` | prefabs of up to 3 entities over 4 names, faulty pairs, configurations of up to 3 nodes, edited instances | 45 thousand | `TopologyExact`, `PlacedExactly` | extraction, normalisation and placement against their definitions |

`SceneTransforms` has no run of its own: `evaluation` checks that the code's plans and
evaluators implement it, and section 4 proves that and what it promises.

Bounds and why they suffice. Executor: three workers and the caller give four concurrent
drainers, count 5 with grain 2 gives a short last chunk and overshooting claims, two
dispatches let a slow worker of one job meet the next; the safety results are proved for
any pool anyway. Transforms: four nodes have an ancestor chain of three and a sibling,
enough for nested dirty nodes, several topmost ones, and a subtree split by another one;
modulus 3 lets the workspace generation wrap while stamps of an earlier round are left.
One workspace suffices because workspaces share nothing but the state; two handles let a
later plan overwrite the vectors an earlier one points into. The handles are
interchangeable, so the run uses their symmetry; all its properties are safety.
A plan handle whose workspace generation comes round again is dropped: with 2^64 values
no caller holds one that long. Slots: two slots are needed for binding conflicts and first-free
search; modulus 3 with two releases reaches the wrap. Spawner: capacity 2 with two spawns
lets lives overlap, and the capacity 1 of `spawner_answers` makes spawns fail for want of a
slot and reuse the slot of an ended instance; a second activation meets the leftovers of
the first. Counters that grow without limit (`m_generation` of the executor,
request numbers, `m_evaluation_generation`) are bounded by named constants in guards.
Motion set: three nodes and three updates contain every pattern of a merge step (before,
at and after a record, repeated, stopping). Controllers: two targets of one slot and a
second slot let a target be recycled for another slot; the slot whose lease ends twice
meets tokens of two earlier leases. Synchronisation: a frame of 5 units exceeds the backlog
of two steps, one of 1 unit takes none; an epoch width of 3 wraps after two ticks. Clients
stop acting after `LastEdit` revisions or `LastTick` steps, and ticks go on until
everything is shown, so the liveness property is checked beyond the bounded part. Edits
before that point can still use up the revisions and ticks: `HeadRoomExact`,
`DirectBatchExact`, `BindingTableAgrees` and `WorldCorrectionExact` hold there too, while
`QuiescentShown` and `EventuallyShown` exempt an `Exhausted` scene, whose steps or
evaluations the code refuses. Freeze: three
identities give an inserted, a moved and an erased node at once; four revisions are the
last ones of the clock. Build: two components, one of which
has a refused configuration, and three owners, the prefab of one of which is refused once
it has loaded, give missing, ambiguous and explicit targets, scenes of one and of two good
partitions, and scenes refused for either reason; two registrations suffice for one asset
to be ready before another. The system may stop and start any number of times. Prefabs: the names `a`, `a/a` and `a%2Fa`
are those that collide when escaping is wrong.

Deadlock is checked for the executor, the evaluation and the freeze runs (an authoring
scene out of revisions can still be frozen and observed). It is not for the others: when
all allowed requests have been made and answered nothing more happens, which is how an
idle system looks.

### Fairness

* `TaskExecutor!FairSpec`: weak fairness of the caller's own steps and of each worker's
  steps. The operating system schedules runnable threads and a mutex held for a bounded
  region is eventually granted. Nothing is assumed of calls or of spurious wake-ups.
* `Spawner!FairSpec`: weak fairness of the tick, of the TickBus function queue and of each
  ticket's requests: the engine runs all three every frame. Nothing is assumed of callers,
  the level or the component's activation, and the outcomes of steps remain free.
* `SceneSync!FairSpec`: the tick bus calls a connected handler in every frame and the call
  returns. `TickFairness` is weak fairness of `Tick` written without `ENABLED`, using that
  `Tick` is enabled exactly during a tick or when one is due. Nothing is assumed of clients.
* `SceneBuild!FairSpec`: weak fairness of the end of asset loads, which the asset system
  guarantees for a queued load (ready, error or cancelled), and of `Process`: a queue that is
  not empty keeps the system connected to the tick bus (`RefreshTickConnection`).

The other runs use no fairness.

## 4. Theorems

All proofs are in `TaskExecutorProofs`, `TransformEvaluationProofs`, `SceneSlotsProofs`,
`SceneFreezeProofs`, `SceneSyncProofs`, `SceneBuildProofs`, `ControllerRuntimeProofs` and
`SpawnerProofs`.
Each module states an inductive invariant, proves it, and derives the theorems from it. A
theorem holds for every value of the constants that satisfies the named assumptions, the
bounds of the runs included: nothing in a proof uses that a bound is small.

**Executor** (any finite set of workers, any counts and grains: `WorkerAssumption`,
`JobAssumption`, `BoundAssumption`).
`JoinCountExact` is not inductive: it does not say which generation a worker in the drain
serves, nor why a claimed index is not claimed again. The invariant `IndInv` adds
* in `SyncInv`: only the destructor sets `m_stopping` and ends workers, a worker that
  drains or finishes has observed the current generation, the counter is zero between
  calls, and the caller waits only when `m_next` has passed `m_count`;
* in `CoverAll`: a running thread owns a nonempty chunk below `m_next` that nobody has
  visited, chunks do not overlap, and an index below `m_next` was visited once or is in a
  running chunk while one above was not visited.

`ExecutorInvariant` proves it inductive, one step per action; `ExecutorTypes`,
`JoinCounterCorrect` and `JobFieldsRaceFree` are its consequences, and
`ExecutorImplementsParallelFor` maps every step to a step of `ParallelFor` or a stutter:
the step that matters is `Join` with the counter at zero, where `SyncInv` says that no
worker holds a chunk and `CoverAll` that then every index was visited once.
`StatisticsCorrect` rests on one more invariant, `CountInv`: while a job is out, the tasks
counted, the chunks being run and the chunks of what is left unclaimed (`Left`) add up to
`expected`. Claiming a chunk moves one from the last group to the second, which is the
arithmetic of `ChunksMore`: a range longer than the grain is one chunk and the rest.

**Planned evaluation** (any forest, any set of topological orders, contiguous or not, any
workspaces, plan handles, requests, grains and generation width, any transforms,
composition and revision maximum: the assumptions of `SceneForest`, `OrderAssumption`,
`ModulusAssumption`, `RequestAssumption`, `PlanAssumption`; `NoPlan` is not a plan and a
request has a length).
`PlanExact` is about a plan at the moment it could be executed, and is not inductive: the
plan's nodes are in the workspace, which was stamped by other plans in other generations,
from a frontier that edits and partial evaluations maintain. `PlanningInv` adds
* `FrontierInv`: the frontier lists every dirty node, once, and between evaluations nothing
  else, so "as long as the scene" means "all dirty";
* `WorkspaceInv` (`Stamped`): no node carries a stamp newer than the workspace's generation,
  so after `++m_generation`, or after the wrap, which erases the stamps, no node looks
  claimed or selected;
* `RunInv`: what is left of an evaluation is in topological order, and a sequential one has
  stamped and cleaned the rest;
* `PlansInv`: a plan's counters are not ahead of the scene's, it is fresh exactly if it
  would be accepted, and if so no evaluation is running and it is exact.

Most of the proof is about what one call of `make_plan` computes (`ClaimExact`,
`SelectScopeExact`). Each of its loops is a recursive function: its existence is derived
(`Iterates`), and an invariant of the loop is carried to its end by `UpTo`. The accumulation
over the reversed order gives the last rank and the size of every subtree
(`SubtreeFacts`); if the sizes agree with the ranges everywhere, a subtree is a slice of the
order (`SubtreeSlice`), so that the contiguous path (`ClaimSubtreesExact`), like the
general one (`ClaimNodesExact`) and the one for a scene that is all dirty (`AllDirty`), ends
with the nodes below the topmost dirty ones by ascending rank, and there is only one such
sequence (`BelowUnique`). `PlanningInvariant` composes the actions; `PlansAreExact` and
`StalePlansRefused` follow.

`PlansImplementScene` maps every step to a step of `SceneTransforms` or a stutter. An
accepted plan begins the evaluation of whole dirty subtrees because it is exact; an empty
one is a stutter. `push` visits a node all of whose ancestors are done because plans are in
topological order; `execute_task` because an ancestor has a lower level, by the cardinality
of a proper subset. At the end the commit, or the pushes that came before it, have stamped
and cleaned exactly the scope.

What `SceneTransforms` promises is proved of the state it is instantiated with. `Coherent`
speaks only of the states between evaluations. `SceneInv` extends it into an evaluation:
what is below a pending node is pending; a node with no *stale* node above it is coherent,
where stale means dirty outside the evaluation's scope or pending inside it (the parallel
overload leaves flags set on nodes it has visited); and a world that differs from what the
observer saw either was stamped after it last looked or was written by the evaluation in
progress, whose revision it has not seen. `Coherence` and `ObserverMissesNothing` follow for
`SceneTransforms`, and with the refinement `PlansCoherent`, `PlansObserved` and `PlansTyped`
for the code's plans and evaluators.

**Scene slots** (any set of scenes, any capacity and generation width, any clients:
`CapacityAssumption`, `GenerationAssumption`).
None of the properties is inductive alone: `ControllersHoldLease` needs that a release moves
the generation, `LeasesUnique` that the lease whose release is still to come is the reserved
one. `IndInv` adds: only built scenes have reserved slots; no handle is issued before its
scene is built; an issued lease is at most the number of releases, and if equal the slot is
reserved; and the generation is the number of releases counted in rounds of
`GenerationModulus - 1` (`Round`), which gives the exact reach of `EndedLeasesStayEnded`:
two leases of one generation are at least a round apart. The proof reduces every slot
command to one of four effects (`ExecuteEffect`) and shows that each keeps the invariant.
`SlotInvariant` proves it; `SlotTypes`, `DormantSlotsStayClean`,
`ControllersNeverOutliveLease`, `EndedLeasesRefused` and `LeasesAreUnique` follow. The
generations of the code are 32 bits wide: the result says that 2^32 - 1 leases of one slot
must end before an old handle could be taken for a current one.

**Freezing** (any set of identities, transforms, composition and revision maximum:
`IdAssumption`, `TransformAssumption`, `RevisionAssumption`).
`Coherent` and `ObserverComplete` speak of the runtime scene alone, so an incremental freeze,
which takes over a record because revisions are equal, would break them from an arbitrary
state. `IndInv` adds `ParentsExist` (a parent is a node of the same topology),
`ClocksAhead` (no record, authoring revision or observer is ahead of the clock it was
stamped by) and `SameRevisionSameLocal`: a runtime local that still carries the authored
revision is the authored local, which is what `remapped_clean` relies on.
`FreezeInvariant` proves it, `FreezeCoherence` and `FreezeObserver` follow.

**Synchronisation** (any finite forest whose parents have smaller numbers, any transform
algebra with inverses, any division into slots, any limits: `StepAssumption`,
`SyncAssumption`; clients that unbind before they bind again: `ClientAssumption`).
The proof has three layers. Functions defined by recursion along the forest (evaluated
worlds, ancestors) exist and satisfy their equations (`ForestRecursion`). Every operation
of `MotionStep` is one of two things, an edit (`EditOf`: dirty nodes grow, worlds stay) or
an evaluation (`EvaluationOf`: the affected nodes become clean and are stamped). Edits and
evaluations keep an instance `Good` (coherent, stamps not ahead, batch exact, binding
tables inverse to each other) and its entities `ShownUpTo` the synchronised revision.
`IndInv` adds what the queue and the tick hold (`BindsApart`, `Settled`).
`SyncInvariant` proves it. `BatchShortcut`, `BindingTable` and `SleepingIsSafe` follow;
`HeadRoom` compares what `head_room` counts with what the sets of locals and the evaluation
of a step use up (`GrantedCount`, `StepParts`); `CorrectionsExact` is the action
property, from the inverse law and the worlds above a node (`CorrectionEvaluated`).

**Building** (any scene entities, owners, prefabs and configurations: `BuildAssumption`).
That nobody is answered twice does not follow from any one handler: it rests on a token
having one holder whose life says whether it has been answered. `IndInv` has
* `CompInv`: a component's number is given out once and names its scene;
* `AnsInv`: a token is held by one component, unanswered while that builds, answered
  "ready" when it is ready, and tokens not yet given out are unanswered;
* `SceneInv`: a component with a scene had only loaded, valid prefabs, a ready one has its
  whole scene, a scene not being destroyed has its component, and a queued creation has
  the partitions its component still asks for, unless that component is on its way out;
* `PendingInv`: while the collection is open its registrations are held by nobody.

`BuildInvariant` proves it; `OneAnswer`, `OwnedScenes` and `NothingLost` follow. That a
ready component has its scene at all is a second invariant on top of the first, `KeptInv`
(`ScenesKept`): the scenes a stop took are gone and bear numbers that no build still
without a scene has, every other ready component's scene is in `m_scenes`, and a scene
queued for destruction is that of a component that went. `WholeScenes` needs both. The lemmas `AnswerHeld` and `AnswerUnheld` say once what an answer to a set of
tokens does, `BuildKeepsScenes` and `SceneGone` what creating and removing scenes do; the
actions are reduced to them.

**Controllers** (any slots with disjoint nodes, any declarations, values and handle width:
`ControllerAssumption`).
Between callbacks the tables agree, but an attachment builds them up step by step and may
be undone at any of these steps, so `IndInv` describes the tables half way:
* `Table`: the free list holds each inactive target once and a node's write owner is its
  one active writable target, at every step (`FreeExact`, `OwnersExact`);
* `HeldInv`: every active target is held by exactly one controller of a leased slot or by
  the one under construction;
* `AttachInv`: what is still to be constructed was prepared, is unowned, and does not write
  the nodes of other declarations, so no allocation overwrites an owner;
* `BatchInv`: batches are those in use or under construction;
* `IssuedInv`: a token's generation never exceeds its target's, and if equal the target is
  active and still for that node;
* `HandleInv`: all handles, live or retired, come before the counters in the order in which
  handles are given out (`Before`), which a wrap respects because it moves the generation;
* `CommandInv`: the touched targets hold what the callback was granted, each node written
  by one of them, and the stamps of earlier epochs are smaller (`Noted`).

Releases and allocations are recursive functions over sequences; `ReleaseEach`,
`AllocateEach` and `DetachEffect` state their effect for sequences of every length. Steps
are then of three kinds, each with one lemma: steps that give and take no target
(`SteadyStep`), steps that undo (`UndoneKeeps`: detachment and every abort) and construction
(`BeginKeeps`, `SuccessKeeps`). `ControllerInvariant` proves the invariant; `TargetTable`,
`FaithfulTokens`, `HandlesStayDead`, `FreeSlotsAreStill` and `ExactCallbacks` follow.

**Spawner** (any configuration, capacity and generation width, any number of requests and
activations: `ConfigurationAssumption`, `BoundsAssumption`, and the two assumptions of the
slots). No property is inductive, because a handler relies on what was queued for it steps
ago: `ActiveIsComplete` holds of an attachment's completion only if the slot was bound, the
entities spawned and the boundary committed before, and if nothing else in the queues can
touch them meanwhile. The invariant `Inv(s, {})` therefore says, of a state record `s`, what
is outstanding:
* of each record r, in whatever state it is (`Fits`): the answer it owes (`Owes`), its ticket,
  the one request the service has for it and its entities (`TicketIn`), and its slot
  (`SlotIn`);
* `Queue`: every command of the present scene is the one its record waits for, each record
  waits for at most one, and the state says which (`Steps`);
* `Tickets`: a ticket's service queue holds one request, then possibly the drop that whoever
  lost the record has asked for; at most one callback is queued for it (`Answering`);
* `Lifecycle`, `Answering`, `Boundaries`: only a ready component has records, of its own
  generation; a request has one answer, given, queued or owed; only a committed spawn
  succeeds and a cancelled one is never committed;
* `Leases`, `Stranding`: unreserved slots are clean, controllers of the scene belong to
  records, and a lease without a record has a release queued or controllers that no queued
  command will detach.

A handler is a chain of calls (`SubmitDetachControllers` falls through to `SubmitUnbind`,
that to `BeginEntityDespawn`, and so on to `FinishRelease`), and between two calls the record
it works on is in no state at all. `Inv(s, {r})` is the invariant with what is said of r alone
suspended: each call has a lemma that takes a state in which r is between two states to one
that satisfies `Inv(t, {})`, and names the previous lemma where the code falls through.
`SpawnerInvariant` composes them over the actions; `LeasesHeld`, `ActiveComplete`,
`BoundExist`, `EntitiesKept`, `AnswersAgree` and `StrandedExplained` follow.

**Induction.** The library's induction rules take an operator, which the provers cannot
instantiate. Where a proof needs induction it argues about a set instead: the set of
numbers for which a statement holds contains 0 and successors (`NatInd`, `UpTo`), or its
complement would have a least member (`WellOrder`, from `WFMin`). In the same way the
existence of a recursive function is derived (`ForestRecursion`, `Iterates`), which is
needed before its defining equation can be used.

**Only model-checked**:
* all liveness (`CallsReturn`, `RequestsAnswered`, `EventuallyShown`, `BuildsEnd`): outside
  the prover's reach;
* `ActiveMotionSet` and `PrefabTopology`: sorting, merging, folds over batches and path
  construction over sequences, whose results for every input are inductions over data. They
  are checked against their definitions for every bounded input; `SpansDetectable` needs the
  same of the fold that `apply_updates` makes of a batch.

## 5. Not modelled, and abstractions

* Floating-point composition (`AzTransformPolicy`), component descriptors and module
  registration, reflection and serialisation, benchmarks: no control to check. Statistics
  counters and pure queries change nothing.
* Node and edge payloads of the authoring scene and the order of siblings: no transform
  depends on them. The mutable graph and its freeze algorithm are another repository's
  (`wz::core::graph`) and modelled as external.
* The modules of `SceneInstance` divide it: leases (`SceneSlots`), controller tables
  (`ControllerRuntime`), transforms and entities (`SceneSync`). Each takes the others for
  free: `SceneSync` has leased slots and arbitrary controller writes, `ControllerRuntime`
  arbitrary inputs, `SceneSlots` one group of entities per slot. `SceneBuild` in turn has the
  level that `Spawner` treats as arbitrary, and `PrefabTopology` the hierarchies that
  `Spawner` and `SceneBuild` take as valid or not.
* `FrozenAssumption` of `SceneForest` is what `freeze_scene` delivers: `Coherent` of
  `SceneFreeze` is checked in every state, in particular right after each freeze.
* The revision running out inside one controller callback's commands, commands submitted
  without a completion entity (their id is unobservable), a scene descriptor that fails
  `SceneInstance::Create` for a particular reason (`SceneBuild` lets any creation fail),
  and a `Spawn` called from inside `OnScenePolytreeSpawnerReady`.
* The generations of controller targets (32 bits), the generation that accompanies a public
  controller handle (32 bits) and the command epoch (64 bits) grow without limit in
  `ControllerRuntime`. `TokensFaithful` says nothing of a token that is kept while its target
  is recycled 2^32 - 1 times, nor `HandlesNeverRevive` of one kept until that generation
  comes round. The handle counter itself wraps at `HandleWidth`.
* Missing engine interfaces (`AZ::Interface` returning null) in the spawner; `SceneBuild`
  models the one that matters, the system component that is gone.

## 6. Client assumptions

Some properties hold only for clients that keep a discipline which nothing in the code
enforces. The models' clients keep it, because the repository's own callers or its
documentation do; `PROJECT.json` lists the first three as hazards without a property.

* *A frozen scene is not replaced in place under a workspace or a plan.* `prepare`
  recognises its topology by address and node count (`transform_evaluation.hpp:59`), and
  `evaluate_transforms` compares revisions and generations that a newly frozen scene may
  share with its predecessor (`transform_evaluation.hpp:508`). When a scene frozen again
  after a reparent is assigned over the old one, the workspace's subtree ranges are those of
  the old topology and an old plan can be accepted. `docs/transforms.md:53-62` and `123-128`
  ask the owner to treat both as stale. `PlanExact` and `AcceptedIffFresh` are about one
  frozen topology.
* *A bound slot is unbound before it is bound again.* `BindSlot` accepts a bound slot and
  uses `emplace` (`SceneInstance.cpp:312`), so `m_entityToNode`, from which controller
  targets are resolved, would keep earlier entries and `BindingTableAgrees` fail. The
  spawner binds only slots that it has just reserved, and a release unbinds.
* *A controller callback does not submit input itself.* Each callback begins a command epoch
  and clears the pending commands (`SceneInstance.cpp:1005`), also when it runs inside
  another one, which the system's recursive mutex allows: the outer callback's commands
  given so far would be lost and `CallbacksApplyExactly` fail.
* *A component's scene is destroyed by that component alone.* `CreateScene` and
  `DestroyScene` are public (`ScenePolytreeBus.h:42`) and take any handle; outside the
  tests only `ScenePolytreeComponent` calls them. A client that destroyed the scene of a
  ready component would leave it ready without one (`ReadyIsWhole`), and a scene that a
  client creates has no component (`ScenesOwned`).

## 7. Finding

`spawner_attaching` finds `NoOrphanSlots` violated. `Deactivate`
(`ScenePolytreeSpawnerComponent.cpp:512`) destroys controllers only of records with
`m_controllersAttached`, which is set when the completion of `AttachControllers` arrives.
If the component is deactivated after that command was queued and before it is answered,
the queue executes attach, then the unbind, reset and release that `Deactivate` queued,
and those are refused with `ControllersActive`: the slot stays reserved and its
controllers stay attached until the scene is destroyed. `integrations/o3de/README.md`
(lines 94-97 and 188) says that deactivation initiates the cleanup of entities and slots.
`StrandedOnlyByControllers` of `spawner` shows that no slot is lost without controllers
running on it, on any failure, cancellation or deactivation path.

## 8. Plan

Done: every component that keeps state has a model and runs; the executor, planned
evaluation, slots, freezing, synchronisation, scene building, controllers and the spawner
are proved for all instances, with the refinements `ImplementsParallelFor` and
`ImplementsSceneTransforms`.

Left:

1. `ActiveMotionSet`: that each step of a batch leaves the records sorted and changes them
   only together with the generation, from which `SpansDetectable` would follow, then
   `LastUpdateWins` for the merge.
2. Liveness stays with the model checker.
3. A topology replaced in place under a workspace (hazard at `transform_evaluation.hpp:59`)
   would need frozen scenes with addresses in `TransformEvaluation`.
