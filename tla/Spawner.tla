------------------------------ MODULE Spawner ------------------------------
(***************************************************************************)
(* ScenePolytreeSpawnerComponent on top of the scene system of             *)
(* SceneOperations, with the engine's spawn service and TickBus function   *)
(* queue (external) between them.                                          *)
(*                                                                         *)
(* A spawn runs reset, place, entity spawn, bind and controller attachment *)
(* as separately completed commands and callbacks; a failure, a despawn or *)
(* a cancellation turns it around into detach, unbind, entity despawn,     *)
(* reset and release.  Requests are numbered 1, 2, ...; a request's ticket *)
(* and its entities carry its number.  Placement values, binding lists and *)
(* declarations are abstracted to whether they are valid and present.      *)
(***************************************************************************)
EXTENDS SceneOperations

CONSTANTS TriggerMode,          \* SpawnTriggerMode
          InitialSpawnCount,
          Declares,             \* does the prefab carry behaviors: values met
          MaxSpawns, MaxDespawns, MaxActivations    \* bounds; also the scenes

ASSUME ConfigurationAssumption ==
  /\ TriggerMode \in {"OnReady", "ExternalRequestsOnly", "OnReadyAndExternalRequests"}
  /\ InitialSpawnCount \in 0 .. Capacity
  /\ Declares \subseteq BOOLEAN
  /\ Scene = 1 .. MaxActivations
ASSUME BoundsAssumption == MaxSpawns \in Nat /\ MaxDespawns \in Nat /\ MaxActivations \in Nat

VARIABLES
  life, slots, controllers, m_commands, draining, m_nextCommandId,  \* the system
  m_lifecycle, m_generation, m_spawner, m_instances,                \* RuntimeState
  m_nextSpawnRequest, m_nextDespawnRequest,
  boundary, prepared,   \* SpawnCallbackState of each request, shared with callbacks
  service,              \* the spawn service's request queue of each ticket
  entities,             \* tickets whose entities exist in the world
  queued,               \* functions queued on the TickBus
  answers,              \* notifications a spawn request has received
  despawnAnswers,       \* notifications a despawn request has received
  instanceOf,           \* the instance handle announced for a request
  cancelled             \* requests for which CancelSpawn returned true

vars == <<life, slots, controllers, m_commands, draining, m_nextCommandId,
          m_lifecycle, m_generation, m_spawner, m_instances, m_nextSpawnRequest,
          m_nextDespawnRequest, boundary, prepared, service, entities, queued,
          answers, despawnAnswers, instanceOf, cancelled>>

Requests == 1 .. MaxSpawns
NoInstance == [slot |-> <<>>, generation |-> 0]
NoScene == 0
Idle == [id |-> NoCommand, type |-> "Reset"]

(* The component is activated and deactivated in turn, its generation      *)
(* counts both; each level start builds one scene.                         *)
SceneOf(generation) == (generation + 1) \div 2

Now == [life |-> life, slots |-> slots, controllers |-> controllers,
        m_commands |-> m_commands, draining |-> draining,
        m_nextCommandId |-> m_nextCommandId, m_lifecycle |-> m_lifecycle,
        m_generation |-> m_generation, m_spawner |-> m_spawner,
        m_instances |-> m_instances, m_nextSpawnRequest |-> m_nextSpawnRequest,
        m_nextDespawnRequest |-> m_nextDespawnRequest, boundary |-> boundary,
        prepared |-> prepared, service |-> service, entities |-> entities,
        queued |-> queued, answers |-> answers, despawnAnswers |-> despawnAnswers,
        instanceOf |-> instanceOf, cancelled |-> cancelled]
Become(next) == \E s \in {next} :
  /\ life' = s.life /\ slots' = s.slots /\ controllers' = s.controllers
  /\ m_commands' = s.m_commands /\ draining' = s.draining
  /\ m_nextCommandId' = s.m_nextCommandId /\ m_lifecycle' = s.m_lifecycle
  /\ m_generation' = s.m_generation /\ m_spawner' = s.m_spawner
  /\ m_instances' = s.m_instances /\ m_nextSpawnRequest' = s.m_nextSpawnRequest
  /\ m_nextDespawnRequest' = s.m_nextDespawnRequest /\ boundary' = s.boundary
  /\ prepared' = s.prepared /\ service' = s.service /\ entities' = s.entities
  /\ queued' = s.queued /\ answers' = s.answers
  /\ despawnAnswers' = s.despawnAnswers /\ instanceOf' = s.instanceOf
  /\ cancelled' = s.cancelled

Init ==
  /\ life = [scene \in Scene |-> "None"]
  /\ slots = [scene \in Scene |-> DormantSlots]
  /\ controllers = {} /\ m_commands = <<>> /\ draining = <<>> /\ m_nextCommandId = 1
  /\ m_lifecycle = "Inactive" /\ m_generation = 0 /\ m_spawner = NoScene
  /\ m_instances = <<>> /\ m_nextSpawnRequest = 1 /\ m_nextDespawnRequest = 1
  /\ boundary = [r \in Requests |-> "Cancelable"]
  /\ prepared = [r \in Requests |-> "no"]
  /\ service = [r \in Requests |-> <<>>]
  /\ entities = {} /\ queued = <<>>
  /\ answers = [r \in Requests |-> <<>>]
  /\ despawnAnswers = [d \in 1 .. MaxDespawns |-> <<>>]
  /\ instanceOf = [r \in Requests |-> NoInstance]
  /\ cancelled = {}

-----------------------------------------------------------------------------
(* Records                                                                 *)

FindRequest(s, request) ==
  request.generation = s.m_generation /\ request.value \in DOMAIN s.m_instances
HoldersOf(s, instance) ==
  {r \in DOMAIN s.m_instances :
     s.m_instances[r].instance = instance /\ instance.generation = s.m_generation}
Awaiting(s, c) ==
  {r \in DOMAIN s.m_instances : s.m_instances[r].pending = [id |-> c.id, type |-> c.type]}

Enqueued(s, function) == [s EXCEPT !.queued = Append(@, function)]
QueueSpawnFailure(s, r) == Enqueued(s, [kind |-> "SpawnFailed", answers |-> r])
QueueDespawnFailure(s, d) == Enqueued(s, [kind |-> "DespawnFailed", answers |-> d])
OnSpawnSucceeded(s, r) ==
  [s EXCEPT !.answers[r] = Append(@, "Succeeded"),
            !.instanceOf[r] = s.m_instances[r].instance]
OnDespawnSucceeded(s, d) == [s EXCEPT !.despawnAnswers[d] = Append(@, "Succeeded")]

(* Submit a result-bearing command and wait for it in the given state.     *)
Await(s, r, state, type) ==
  [Submit(s, type, s.m_instances[r].instance, r, TRUE) EXCEPT
     !.m_instances[r] = [@ EXCEPT !.state = state,
                                  !.pending = [id |-> s.m_nextCommandId, type |-> type]]]

Accepted(s, r) == AcceptsCommands(s, s.m_instances[r].instance.slot.scene)

(* A cleanup step that was refused or failed: the request's final answer   *)
(* carries it.                                                             *)
CleanupFailed(s, r) ==
  IF s.m_instances[r].terminal THEN s ELSE [s EXCEPT !.m_instances[r].failed = TRUE]

-----------------------------------------------------------------------------
(* Cleanup, last step first: release, reset, entity despawn, unbind,       *)
(* detach                                                                  *)

Erase(f, r) == [x \in DOMAIN f \ {r} |-> f[x]]

FinishRelease(s, r, result) ==
  LET record == s.m_instances[r]
      erased == [s EXCEPT !.m_instances = Erase(@, r)]
  IN  CASE record.terminal -> QueueSpawnFailure(erased, r)
        [] ~record.terminal /\ (record.failed \/ result # "Success") ->
             QueueDespawnFailure(erased, record.despawn)
        [] OTHER -> OnDespawnSucceeded(erased, record.despawn)

SubmitRelease(s, r) ==
  IF Accepted(s, r) THEN Await(s, r, "Releasing", "Release")
  ELSE FinishRelease(s, r, "SceneNotFound")

SubmitCleanupReset(s, r) ==
  IF Accepted(s, r) THEN Await(s, r, "CleanupResetting", "Reset")
  ELSE SubmitRelease(CleanupFailed(s, r), r)

(* The slot cleanup goes on and the entities are forgotten.                *)
BeginEntityDespawnDetached(s, r) == SubmitCleanupReset(s, r)
BeginEntityDespawn(s, r) ==
  IF ~s.m_instances[r].ticket THEN SubmitCleanupReset(s, r)
  ELSE [s EXCEPT !.m_instances[r].state = "DespawningEntities",
                 !.service[r] = Append(@, [op |-> "Despawn", generation |-> s.m_generation])]

(* Entities removed first, the slot still bound to them.                   *)
SubmitUnbindSkipped(s, r) == BeginEntityDespawn(s, r)

SubmitUnbind(s, r) ==
  IF Accepted(s, r) THEN Await(s, r, "Unbinding", "Unbind")
  ELSE BeginEntityDespawn(CleanupFailed(s, r), r)

SubmitDetachControllers(s, r, closes) ==
  LET instance == s.m_instances[r].instance IN
  IF AcceptsDetach(s, instance, closes)
  THEN Await(s, r, "DetachingControllers", "Detach")
  ELSE SubmitUnbind([DestroyControllersImmediately(s, instance) EXCEPT
                       !.m_instances[r] = [@ EXCEPT !.attached = FALSE, !.failed = TRUE]], r)

(* The failure of a spawn that is answered as if it were a despawn.        *)
BeginSpawnFailureUnmarked(s, r) == SubmitUnbind(s, r)

BeginSpawnFailure(s, r) ==
  IF s.m_instances[r].terminal THEN s
  ELSE SubmitUnbind([s EXCEPT !.m_instances[r].terminal = TRUE], r)

-----------------------------------------------------------------------------
(* Spawning, last step first                                               *)

SubmitAttachControllers(s, r) ==
  IF Accepted(s, r) THEN Await(s, r, "AttachingControllers", "Attach")
  ELSE BeginSpawnFailure(s, r)

SubmitBind(s, r) ==
  IF Accepted(s, r) THEN Await(s, r, "Binding", "Bind") ELSE BeginSpawnFailure(s, r)

(* The ticket is constructed and, when valid, handed to the service.       *)
BeginEntitySpawn(s, r, ticketValid) ==
  IF s.boundary[r] = "Cancelled" \/ ~ticketValid THEN BeginSpawnFailure(s, r)
  ELSE [s EXCEPT !.m_instances[r] = [@ EXCEPT !.ticket = TRUE, !.state = "Spawning"],
                 !.service[r] = Append(@, [op |-> "Spawn", generation |-> s.m_generation])]

(* Entities spawned into a slot that was never placed.                     *)
SubmitPlaceSkipped(s, r) == BeginEntitySpawn(s, r, TRUE)

SubmitPlace(s, r) ==
  IF Accepted(s, r) THEN Await(s, r, "Placing", "Place") ELSE BeginSpawnFailure(s, r)

SubmitReset(s, r) ==
  IF Accepted(s, r) THEN Await(s, r, "Resetting", "Reset") ELSE BeginSpawnFailure(s, r)

NewRecord(s, slot) ==
  [instance |-> [slot |-> slot, generation |-> s.m_generation],
   state |-> "Resetting", pending |-> Idle, ticket |-> FALSE, terminal |-> FALSE,
   attached |-> FALSE, declares |-> FALSE, despawn |-> 0, failed |-> FALSE]

Emplace(f, r, record) == [x \in DOMAIN f \union {r} |-> IF x = r THEN record ELSE f[x]]

BeginSpawn(s, r, finite) ==
  LET scene == s.m_spawner IN
  IF ~finite \/ ~FindScene(s, scene) \/ FreeSlots(s, scene) = {}
  THEN QueueSpawnFailure(s, r)
  ELSE SubmitReset([ReserveSlot(s, scene) EXCEPT
                      !.m_instances = Emplace(@, r, NewRecord(s, ReservedHandle(s, scene)))], r)

AllocateSpawnRequest(s) == [s EXCEPT !.m_nextSpawnRequest = @ + 1]
AllocateDespawnRequest(s) == [s EXCEPT !.m_nextDespawnRequest = @ + 1]

-----------------------------------------------------------------------------
(* Completions and callbacks                                               *)

MarkActive(s, r) == OnSpawnSucceeded([s EXCEPT !.m_instances[r].state = "Active"], r)

(* What the record that waited for a command does next.                    *)
Resume(s, r, result, ticketValid) ==
  LET record == s.m_instances[r]
      state == record.state
      failed == result # "Success"
  IN CASE state \in {"Resetting", "Placing", "Binding", "AttachingControllers"} /\ failed ->
            BeginSpawnFailure(s, r)
       [] state \in {"Resetting", "Placing"} /\ ~failed /\ s.boundary[r] = "Cancelled" ->
            BeginSpawnFailure(s, r)
       [] state = "Resetting" /\ ~failed /\ s.boundary[r] # "Cancelled" -> SubmitPlace(s, r)
       [] state = "Placing" /\ ~failed /\ s.boundary[r] # "Cancelled" ->
            BeginEntitySpawn(s, r, ticketValid)
       [] state = "Binding" /\ ~failed ->
            IF record.declares THEN SubmitAttachControllers(s, r) ELSE MarkActive(s, r)
       [] state = "AttachingControllers" /\ ~failed ->
            [MarkActive(s, r) EXCEPT !.m_instances[r].attached = TRUE]
       [] state = "DetachingControllers" ->
            SubmitUnbind([s EXCEPT !.m_instances[r] =
                            [record EXCEPT !.attached = FALSE,
                                           !.failed = record.failed \/ failed]], r)
       [] state = "Unbinding" ->
            BeginEntityDespawn(IF failed THEN CleanupFailed(s, r) ELSE s, r)
       [] state = "CleanupResetting" ->
            SubmitRelease(IF failed THEN CleanupFailed(s, r) ELSE s, r)
       [] state = "Releasing" -> FinishRelease(s, r, result)
       [] OTHER -> s

(* One completed command.  The record it belongs to is found by the        *)
(* command's id and type; completions nobody waits for are dropped.        *)
Completed(s, r, result, ticketValid) ==
  Resume([s EXCEPT !.m_instances[r].pending = Idle], r, result, ticketValid)

OnScenePolytreeCommandCompleted(s, c, result, ticketValid) ==
  IF Awaiting(s, c) = {} THEN s
  ELSE Completed(s, CHOOSE r \in Awaiting(s, c) : TRUE, result, ticketValid)

OnScenePolytreeSpawnCompleted(s, f) ==
  LET r == f.request.value IN
  IF ~FindRequest(s, f.request) THEN s
  ELSE IF s.m_instances[r].state # "Spawning" \/ ~s.m_instances[r].ticket THEN s
  ELSE IF f.error THEN BeginSpawnFailure(s, r)
  ELSE SubmitBind([s EXCEPT !.m_instances[r].declares = f.declares], r)

OnScenePolytreeDespawnCompleted(s, f) ==
  LET r == f.request.value IN
  IF ~FindRequest(s, f.request) THEN s
  ELSE IF s.m_instances[r].state # "DespawningEntities" \/ ~s.m_instances[r].ticket THEN s
  ELSE SubmitCleanupReset([s EXCEPT !.m_instances[r].ticket = FALSE], r)

-----------------------------------------------------------------------------
(* The spawner's requests                                                  *)

Spawn(finite) ==
  LET s == AllocateSpawnRequest(Now) IN
  /\ m_nextSpawnRequest + (IF m_lifecycle = "Registering" THEN InitialSpawnCount ELSE 0)
       <= MaxSpawns
  /\ Become(IF m_lifecycle = "Ready" /\ TriggerMode # "OnReady"
            THEN BeginSpawn(s, m_nextSpawnRequest, finite)
            ELSE QueueSpawnFailure(s, m_nextSpawnRequest))

(* The Active test of Despawn.                                             *)
MayDespawn(record) == record.state = "Active"

Despawn(instance, closes) ==
  LET s == AllocateDespawnRequest(Now)
      d == m_nextDespawnRequest
  IN /\ d <= MaxDespawns
     /\ Become(
          IF m_lifecycle # "Ready" \/ HoldersOf(s, instance) = {}
          THEN QueueDespawnFailure(s, d)
          ELSE LET r == CHOOSE x \in HoldersOf(s, instance) : TRUE
                   t == [s EXCEPT !.m_instances[r] = [@ EXCEPT !.terminal = FALSE,
                                                               !.despawn = d]]
               IN IF ~MayDespawn(m_instances[r]) THEN QueueDespawnFailure(s, d)
                  ELSE IF m_instances[r].attached THEN SubmitDetachControllers(t, r, closes)
                  ELSE SubmitUnbind(t, r))

(* Cancellation wins only against a boundary that is still open.           *)
CancelSpawn(r) ==
  /\ FindRequest(Now, [value |-> r, generation |-> m_generation])
  /\ m_instances[r].state # "Active" /\ ~m_instances[r].terminal
  /\ boundary[r] = "Cancelable"
  /\ boundary' = [boundary EXCEPT ![r] = "Cancelled"]
  /\ cancelled' = cancelled \union {r}
  /\ UNCHANGED <<life, slots, controllers, m_commands, draining, m_nextCommandId,
                 m_lifecycle, m_generation, m_spawner, m_instances, m_nextSpawnRequest,
                 m_nextDespawnRequest, prepared, service, entities, queued,
                 answers, despawnAnswers, instanceOf>>

-----------------------------------------------------------------------------
(* Lifecycle of the component                                              *)

(* A new generation starts without the records of the last one.            *)
NewGeneration(s, lifecycle) ==
  [s EXCEPT !.m_generation = NextGeneration(s.m_generation), !.m_spawner = NoScene,
            !.m_instances = <<>>, !.m_lifecycle = lifecycle]

(* RegisterPrefab succeeds while a level collects registrations, before    *)
(* its scene exists; an invalid configuration or a closed collection fails *)
(* the component.                                                          *)
Activate(registered) ==
  /\ m_lifecycle = "Inactive" /\ m_generation < 2 * MaxActivations
  /\ m_nextSpawnRequest + InitialSpawnCount <= MaxSpawns + 1
  /\ registered => \A scene \in Scene : life[scene] \notin {"Pending", "Alive"}
  /\ Become(NewGeneration(Now, IF registered THEN "Registering" ELSE "Failed"))

(* The level builds the scene of the collected registrations and destroys  *)
(* it when it ends (external: ScenePolytreeComponent).                     *)
LevelBuilds(scene) ==
  /\ m_lifecycle = "Registering" /\ scene = SceneOf(m_generation)
  /\ life[scene] = "None"
  /\ Become(CreateScene(Now, scene))

OnScenePolytreeRegistrationFailed(s, scene) ==
  IF s.m_lifecycle # "Registering" \/ scene # SceneOf(s.m_generation) THEN s
  ELSE [s EXCEPT !.m_lifecycle = "Failed"]

LevelDestroys(scene) ==
  /\ life[scene] \in {"Pending", "Alive"}
  /\ Become(DestroyScene(Now, scene))

(* The level cannot build its scene (FailBuild).                           *)
LevelFails(scene) ==
  /\ m_lifecycle = "Registering" /\ scene = SceneOf(m_generation)
  /\ life[scene] = "None"
  /\ Become(OnScenePolytreeRegistrationFailed(Now, scene))

(* The configured number of spawns, one after the other.                   *)
BeginInitialSpawns(s) ==
  LET count == IF TriggerMode = "ExternalRequestsOnly" THEN 0 ELSE InitialSpawnCount
      begun[i \in 0 .. count] ==
        IF i = 0 THEN s
        ELSE LET t == begun[i - 1]
             IN  BeginSpawn(AllocateSpawnRequest(t), t.m_nextSpawnRequest, TRUE)
  IN  begun[count]

(* usable: the prefab asset is loaded and its topology is valid.           *)
OnScenePolytreeRegistrationReady(s, scene, usable) ==
  IF s.m_lifecycle # "Registering" \/ scene # SceneOf(s.m_generation) THEN s
  ELSE IF ~usable THEN [s EXCEPT !.m_lifecycle = "Failed"]
  ELSE BeginInitialSpawns([s EXCEPT !.m_lifecycle = "Ready", !.m_spawner = scene])

DestroyAttached(s, r) ==
  IF s.m_instances[r].attached
  THEN DestroyControllersImmediately(s, s.m_instances[r].instance) ELSE s
(* A loop that forgets the last of the three slot commands.                *)
TeardownUnreleased(s, r) ==
  LET record == s.m_instances[r]
      submit(t, type) == IF Accepted(s, r)
                         THEN Submit(t, type, record.instance, r, FALSE) ELSE t
  IN  [submit(submit(DestroyAttached(s, r), "Unbind"), "Reset") EXCEPT
         !.boundary[r] = IF @ = "Cancelable" THEN "Cancelled" ELSE @,
         !.service[r] = IF record.ticket
                        THEN Append(@, [op |-> "Drop", generation |-> s.m_generation]) ELSE @]

(* One record of Deactivate's loop: an open boundary is cancelled,         *)
(* attached controllers go at once, slot cleanup is queued without a       *)
(* completion, and the ticket is despawned and dropped.                    *)
Teardown(s, r) ==
  LET record == s.m_instances[r]
      closed == IF s.boundary[r] = "Cancelable"
                THEN [s EXCEPT !.boundary[r] = "Cancelled"] ELSE s
      submit(t, type) == IF Accepted(s, r)
                         THEN Submit(t, type, record.instance, r, FALSE) ELSE t
      cleaned == submit(submit(submit(DestroyAttached(closed, r), "Unbind"), "Reset"), "Release")
  IN  IF record.ticket
      THEN [cleaned EXCEPT !.service[r] = Append(@, [op |-> "Drop", generation |-> s.m_generation])]
      ELSE cleaned

TeardownAll(s, order) ==
  LET torn[i \in 0 .. Len(order)] ==
        IF i = 0 THEN s ELSE Teardown(torn[i - 1], order[i])
  IN  torn[Len(order)]

(* m_instances is an unordered map: its records are met in any order.      *)
Deactivate ==
  /\ m_lifecycle # "Inactive"
  /\ \E order \in SetToSeqs(DOMAIN m_instances) :
       Become(NewGeneration(TeardownAll(Now, order), "Inactive"))

-----------------------------------------------------------------------------
(* The system's tick                                                       *)

OnTick == draining = <<>> /\ m_commands # <<>> /\ Become(SwapCommands(Now))

ProcessSlotCommand(valid, ticketValid) ==
  LET c == NextCommand(Now)
      result == Result(PopCommand(Now), c, valid)
  IN  /\ draining # <<>> /\ c.type \notin {"Create", "Destroy"}
      /\ Become(IF c.id = NoCommand THEN Process(Now, valid)
                ELSE OnScenePolytreeCommandCompleted(Process(Now, valid), c, result, ticketValid))

ProcessSceneCommand(valid, usable) ==
  LET c == NextCommand(Now)
      s == Process(Now, valid)
  IN  /\ draining # <<>> /\ c.type \in {"Create", "Destroy"}
      /\ Become(IF c.type = "Destroy" \/ life[c.scene] # "Pending" THEN s
                ELSE IF s.life[c.scene] = "Alive"
                THEN OnScenePolytreeRegistrationReady(s, c.scene, usable)
                ELSE OnScenePolytreeRegistrationFailed(s, c.scene))

-----------------------------------------------------------------------------
(* The spawn service and the TickBus function queue (external)             *)

(* A commit that stores instead of comparing.                              *)
PrepareBlindly(s, r, valid) ==
  [s EXCEPT !.boundary[r] = "Committed", !.prepared[r] = IF valid THEN "yes" ELSE "error"]

(* PreparePrefabInstance, run before insertion: the boundary is committed  *)
(* unless the spawn was cancelled, then the hierarchy is validated.        *)
Prepare(s, r, valid) ==
  IF s.boundary[r] # "Cancelable" THEN s
  ELSE [s EXCEPT !.boundary[r] = "Committed", !.prepared[r] = IF valid THEN "yes" ELSE "error"]

(* CollectPrefabBindings, run after insertion.                             *)
CollectFails(s, r, valid) ==
  s.boundary[r] = "Cancelled" \/ s.prepared[r] # "yes" \/ ~valid

ServiceOp(r, op) == service[r] # <<>> /\ Head(service[r]).op = op
Asked(r) == [value |-> r, generation |-> Head(service[r]).generation]
Callback(s, r, f) == Enqueued([s EXCEPT !.service[r] = Tail(@)], f)

ServicePrepares(r, valid) ==
  /\ ServiceOp(r, "Spawn")
  /\ Become([Prepare(Now, r, valid) EXCEPT !.service[r][1].op = "Insert"])

ServiceInserts(r, valid, declares) ==
  /\ ServiceOp(r, "Insert")
  /\ Become(Callback([Now EXCEPT !.entities = @ \union {r}], r,
                     [kind |-> "Spawned", request |-> Asked(r),
                      error |-> CollectFails(Now, r, valid), declares |-> declares]))

ServiceDespawns(r) ==
  /\ ServiceOp(r, "Despawn")
  /\ Become(Callback([Now EXCEPT !.entities = @ \ {r}], r,
                     [kind |-> "Despawned", request |-> Asked(r)]))

ServiceDrops(r) ==
  /\ ServiceOp(r, "Drop")
  /\ Become([Now EXCEPT !.entities = @ \ {r}, !.service[r] = Tail(@)])

(* Queued functions run between ticks, in order.                           *)
Deliver ==
  LET f == Head(queued)
      s == [Now EXCEPT !.queued = Tail(@)]
  IN  /\ queued # <<>> /\ draining = <<>>
      /\ Become(CASE f.kind = "Spawned"       -> OnScenePolytreeSpawnCompleted(s, f)
                  [] f.kind = "Despawned"     -> OnScenePolytreeDespawnCompleted(s, f)
                  [] f.kind = "SpawnFailed"   ->
                       [s EXCEPT !.answers[f.answers] = Append(@, "Failed")]
                  [] f.kind = "DespawnFailed" ->
                       [s EXCEPT !.despawnAnswers[f.answers] = Append(@, "Failed")])

-----------------------------------------------------------------------------
Announced == {instanceOf[r] : r \in Requests} \ {NoInstance}

ServiceStep(r) ==
  \/ \E valid \in BOOLEAN :
       \/ ServicePrepares(r, valid)
       \/ \E declares \in Declares : ServiceInserts(r, valid, declares)
  \/ ServiceDespawns(r)
  \/ ServiceDrops(r)
(* What a step of the next command may turn out to be, where a command of  *)
(* the given types is the next one: the others do not ask.                 *)
Outcomes(types) ==
  IF draining # <<>> /\ Head(draining).type \in types THEN BOOLEAN ELSE {TRUE}
TickStep ==
  \/ OnTick
  \/ \E valid \in Outcomes({"Bind", "Attach", "Detach"}), ticketValid \in Outcomes({"Place"}) :
       ProcessSlotCommand(valid, ticketValid)
  \/ \E valid, usable \in Outcomes({"Create"}) : ProcessSceneCommand(valid, usable)

Next ==
  \/ \E finite \in BOOLEAN : Spawn(finite)
  \/ \E instance \in Announced, closes \in BOOLEAN : Despawn(instance, closes)
  \/ \E r \in Requests : CancelSpawn(r)
  \/ \E registered \in BOOLEAN : Activate(registered)
  \/ Deactivate
  \/ \E scene \in Scene : LevelBuilds(scene) \/ LevelFails(scene) \/ LevelDestroys(scene)
  \/ TickStep
  \/ \E r \in Requests : ServiceStep(r)
  \/ Deliver

Spec == Init /\ [][Next]_vars

(* The engine ticks, runs its spawn service and its queued functions every *)
(* frame; nothing is assumed of callers, the level or the entity.          *)
FairSpec ==
  /\ Spec
  /\ WF_vars(TickStep) /\ WF_vars(Deliver)
  /\ \A r \in Requests : WF_vars(ServiceStep(r))

-----------------------------------------------------------------------------
(* Properties                                                              *)

Held(r) == m_instances[r].instance.slot
HeldAlive(r) == FindScene(Now, Held(r).scene)
HeldSlot(r) == slots[Held(r).scene][Held(r).slot]

(* While its scene lives, every record holds a current lease, and no two   *)
(* records hold the same slot: no command, callback or teardown in flight  *)
(* can take a slot from under an instance.                                 *)
LeaseHeld ==
  /\ \A r \in DOMAIN m_instances : HeldAlive(r) => FindSlot(Now, Held(r))
  /\ \A q, r \in DOMAIN m_instances : Held(q) = Held(r) => q = r

(* An active instance of a living scene is what OnSpawnSucceeded promised: *)
(* placed, bound to its own entities, which exist, with its controllers    *)
(* attached if it declares any.                                            *)
ActiveIsComplete ==
  \A r \in DOMAIN m_instances :
    (m_instances[r].state = "Active" /\ HeldAlive(r)) =>
      /\ HeldSlot(r).placed /\ HeldSlot(r).bound = r /\ r \in entities
      /\ m_instances[r].declares <=> m_instances[r].instance \in controllers
      /\ m_instances[r].declares <=> m_instances[r].attached

(* Unbind comes before entity removal: no slot of a record publishes to    *)
(* entities that are gone.                                                 *)
BoundEntitiesExist ==
  \A r \in DOMAIN m_instances :
    (HeldAlive(r) /\ HeldSlot(r).bound # NoEntities) => HeldSlot(r).bound \in entities

(* Entities in the world belong to a record's ticket, or their removal has *)
(* been handed to the service: no path (failure, cancellation, destroyed   *)
(* scene, deactivation) forgets them.                                      *)
EntitiesOwned ==
  \A r \in entities :
    \/ r \in DOMAIN m_instances /\ m_instances[r].ticket
    \/ \E i \in DOMAIN service[r] : service[r][i].op = "Drop"

(* A request is answered at most once; an instance is only ever despawned  *)
(* after its spawn has succeeded; and a spawn whose cancellation was       *)
(* confirmed never succeeds, although the service may be committing it at  *)
(* that very moment.                                                       *)
AnswersCoherent ==
  /\ \A r \in Requests : Len(answers[r]) <= 1
  /\ \A d \in 1 .. MaxDespawns : Len(despawnAnswers[d]) <= 1
  /\ \A r \in DOMAIN m_instances :
       m_instances[r].despawn # 0 => answers[r] = <<"Succeeded">>
  /\ \A r \in cancelled : "Succeeded" \notin ToSet(answers[r])

QueuedRelease(slot) ==
  \E c \in ToSet(m_commands) \union ToSet(draining) : c.type = "Release" /\ c.slot = slot

Orphaned(handle) ==
  ~QueuedRelease(handle) /\ \A r \in DOMAIN m_instances : Held(r) # handle
LeasesOf(scene) ==
  {[scene |-> scene, slot |-> i, generation |-> slots[scene][i].generation] :
     i \in {j \in Slot : slots[scene][j].reserved}}

(* Every lease of a living scene is held by a record or about to be        *)
(* released: deactivation "initiates entity and logical-slot cleanup" that *)
(* takes effect.                                                           *)
NoOrphanSlots ==
  \A scene \in Scene : FindScene(Now, scene) =>
    \A handle \in LeasesOf(scene) : ~Orphaned(handle)

(* The only lease that deactivation, failure or a refused command can      *)
(* strand is one with controllers running on it, attached after Deactivate *)
(* had already queued the slot's cleanup.                                  *)
StrandedOnlyByControllers ==
  \A scene \in Scene : FindScene(Now, scene) =>
    \A handle \in LeasesOf(scene) :
      Orphaned(handle) => \E instance \in controllers : instance.slot = handle

(* Every spawn and every despawn request is answered, unless the component *)
(* is deactivated first: through failing steps, cancellation and the       *)
(* scene's destruction.                                                    *)
RequestsAnswered ==
  /\ \A r \in Requests :
       r < m_nextSpawnRequest ~> (answers[r] # <<>> \/ m_lifecycle = "Inactive")
  /\ \A d \in 1 .. MaxDespawns :
       d < m_nextDespawnRequest ~> (despawnAnswers[d] # <<>> \/ m_lifecycle = "Inactive")
=============================================================================
