------------------------------- MODULE SceneSync -------------------------------
(***************************************************************************)
(* How a SceneInstance keeps the transforms of bound entities up to date:  *)
(* commands queue until the next tick, a tick drains them, takes the fixed *)
(* steps the accumulated time allows, evaluates what is dirty and writes   *)
(* the worlds that changed to the entities; and the tick itself is only    *)
(* connected while RefreshTickConnection finds something for it to do.     *)
(*                                                                         *)
(* The slots of the scene are leased throughout; SceneSlots models leases, *)
(* ControllerRuntime what controllers may write.  Here a controller is     *)
(* whether it is running and the writes it makes.                          *)
(***************************************************************************)
EXTENDS MotionStep, FiniteSetsExt, SequencesExt

CONSTANTS
    Slot, NodesOf,       \* the leased slots and their nodes
    InitialLocal,        \* node -> RuntimeNodeBinding::m_initialLocal
    Entity, NoEntity,    \* entities, and the invalid one
    Offset,              \* entity -> its m_nodeToEntity
    GetInverse(_),          \* AZ::Transform::GetInverse
    FixedStep,           \* m_stepSequence.delta(), in units of time
    MaxCatchUpSteps,     \* m_maxCatchUpSteps
    FrameDeltas,         \* the frame times explored
    EpochWidth,          \* m_evaluatedEpoch is a number mod this
    Commands,            \* the commands clients queue
    Writes,              \* the writes of controllers: none, a local, a motion
    MaxQueue,            \* bound: commands between two ticks
    LastEdit, LastTick   \* bounds: the revision and the fixed step after which no client acts

ASSUME SyncAssumption ==
    /\ NodesOf \in [Slot -> SUBSET Node]
    /\ \A s, r \in Slot : s # r => NodesOf[s] \intersect NodesOf[r] = {}
    /\ InitialLocal \in [Node -> Transform] /\ Offset \in [Entity -> Transform]
    /\ NoEntity \notin Entity
    /\ \A x \in Transform : GetInverse(x) \in Transform
    /\ \A x, y \in Transform : Compose(x, Compose(GetInverse(x), y)) = y
    /\ FixedStep \in Nat \ {0} /\ MaxCatchUpSteps \in Nat \ {0} /\ FrameDeltas \subseteq Nat
    /\ EpochWidth \in Nat /\ EpochWidth > 1

(* What the commands and the writes carry.                                  *)
ASSUME ClientAssumption ==
    /\ \A c \in Commands :
        /\ c.op \in {"place", "bind", "unbind", "reset", "active", "correctLocal", "correctWorld"}
        /\ c.op \in {"place", "bind", "unbind", "reset"} => c.slot \in Slot
        /\ c.op = "bind" => c.binding \in [DOMAIN c.binding -> Entity]
        /\ c.op = "active" => c.active \in BOOLEAN
        /\ c.op \in {"correctLocal", "correctWorld"} => c.node \in Node
        /\ c.op \in {"place", "correctLocal", "correctWorld"} => c.value \in Transform
    /\ \A write \in Writes :
        /\ write.kind \in {"none", "local", "motion"}
        /\ write.kind # "none" => write.node \in Node
        /\ write.kind = "local" => write.value \in Transform
        /\ write.kind = "motion" => write.value \in Motion \union {Still}

VARIABLES
    si,             \* the SceneInstance
    running,        \* HasRunningControllers
    m_commands,     \* the system's command queue
    connected,      \* whether the system is on the tick bus
    shown,          \* entity -> the transform last written to it
    tick            \* the OnTick in progress

vars == <<si, running, m_commands, connected, shown, tick>>

NoTick == [phase |-> "none", commands |-> <<>>, delta |-> 0, steps |-> 0, none |-> TRUE]

Unshown == [e \in Entity |-> NoEntity]
IsRoot(n) == Parent[n] = NoNode

Init ==
    /\ si = [scene |-> FrozenScene(InitialLocal),
             bindings |-> [n \in Node |-> NoEntity], toNode |-> [e \in Entity |-> NoNode],
             active |-> FALSE, accumulator |-> 0,
             changes |-> {}, stamp |-> [n \in Node |-> 0], epoch |-> 1, valid |-> TRUE,
             synced |-> 0]
    /\ running = FALSE
    /\ m_commands = <<>>
    /\ connected = FALSE
    /\ shown = Unshown
    /\ tick = NoTick

--------------------------------------------------------------------------------
(* Evaluation and the batch of evaluated nodes.                             *)

QueueEvaluated(t, changed) ==
    LET fresh == {n \in changed : t.stamp[n] # t.epoch}
    IN  [t EXCEPT !.changes = @ \union fresh,
                  !.stamp = [n \in Node |-> IF n \in fresh THEN t.epoch ELSE @[n]]]

(* What EvaluateDirty and a fixed step do with their result.                *)
TakeResult(t, result) ==
    LET next == [t EXCEPT !.scene = result.scene]
    IN  IF result.error = "none" THEN QueueEvaluated(next, result.changed)
        ELSE [next EXCEPT !.valid = FALSE]

EvaluateDirty(t) == TakeResult(t, evaluate_transforms(t.scene))

(* The epoch wraps and meets the stamps of its last round.                 *)
ResetWithoutRefill(t) ==
    [t EXCEPT !.changes = {}, !.valid = TRUE,
              !.epoch = IF (@ + 1) % EpochWidth = 0 THEN 1 ELSE @ + 1]

ResetEvaluatedBatch(t) ==
    LET wraps == (t.epoch + 1) % EpochWidth = 0
    IN  [t EXCEPT !.changes = {}, !.valid = TRUE,
                  !.epoch = IF wraps THEN 1 ELSE @ + 1,
                  !.stamp = IF wraps THEN [n \in Node |-> 0] ELSE @]

Changed(t) == IF t.valid THEN t.changes
              ELSE {n \in Node : t.scene.world_revision[n] > t.synced}

(* The entities' transforms after the changed nodes are written.            *)
Written(t, old) ==
    [e \in Entity |->
        LET nodes == {n \in Changed(t) : t.bindings[n] = e}
        IN  IF nodes = {} THEN old[e]
            ELSE Compose(t.scene.world[CHOOSE n \in nodes : TRUE], Offset[e])]

Synchronized(t) == ResetEvaluatedBatch([t EXCEPT !.synced = t.scene.revision])

--------------------------------------------------------------------------------
(* Commands.                                                                *)

EditScene(t, result) == [t EXCEPT !.scene = result.scene]

PlaceSlot(t, slot, rootWorld) ==
    LET roots == {n \in NodesOf[slot] : IsRoot(n)}
    IN  EditScene(t, set_locals(t.scene, [n \in roots |-> Compose(rootWorld, InitialLocal[n])]))

(* The entities of a binding are distinct, one for each node, and none is   *)
(* bound in another slot.                                                   *)
BindAccepted(t, slot, binding) ==
    /\ DOMAIN binding = NodesOf[slot]
    /\ IsInjective(binding)
    /\ \A n \in NodesOf[slot], m \in Node :
        t.bindings[m] = binding[n] => m \in NodesOf[slot]

(* A binding that leaves it to the next edit to show the worlds.           *)
BindWithoutMarking(t, slot, binding) ==
    IF ~BindAccepted(t, slot, binding) THEN t
    ELSE [t EXCEPT !.active = TRUE,
                   !.bindings = [n \in Node |-> IF n \in NodesOf[slot] THEN binding[n] ELSE @[n]],
                   !.toNode = [e \in Entity |->
                        IF @[e] = NoNode /\ e \in Range(binding)
                        THEN CHOOSE n \in NodesOf[slot] : binding[n] = e ELSE @[e]]]

(* emplace leaves the node of an entity that the map already knows.         *)
BindSlot(t, slot, binding) ==
    IF ~BindAccepted(t, slot, binding) THEN t
    ELSE [t EXCEPT !.active = TRUE,
                   !.bindings = [n \in Node |-> IF n \in NodesOf[slot] THEN binding[n] ELSE @[n]],
                   !.toNode = [e \in Entity |->
                        IF @[e] = NoNode /\ e \in Range(binding)
                        THEN CHOOSE n \in NodesOf[slot] : binding[n] = e ELSE @[e]],
                   !.scene = mark_each(@, NodesOf[slot])]

(* An unbind that clears the bindings alone.                               *)
UnbindKeepingNodes(t, slot) ==
    [t EXCEPT !.bindings = [n \in Node |-> IF n \in NodesOf[slot] THEN NoEntity ELSE @[n]]]

UnbindSlot(t, slot) ==
    LET bound == {t.bindings[n] : n \in NodesOf[slot]}
    IN  [t EXCEPT !.bindings = [n \in Node |-> IF n \in NodesOf[slot] THEN NoEntity ELSE @[n]],
                  !.toNode = [e \in Entity |-> IF e \in bound THEN NoNode ELSE @[e]]]

(* ClearSlot: unbind, stop and go back to the initial locals.               *)
ResetSlot(t, slot) ==
    LET stopped == [t.scene EXCEPT !.motion = [n \in Node |-> IF n \in NodesOf[slot] THEN Still
                                                              ELSE @[n]]]
    IN  EditScene(UnbindSlot(t, slot),
                  set_locals(stopped, [n \in NodesOf[slot] |-> InitialLocal[n]]))

SetActive(t, active) ==
    [t EXCEPT !.active = active,
              !.accumulator = IF active THEN @ ELSE 0,
              !.scene.motion = IF active THEN @ ELSE [n \in Node |-> Still]]

CorrectLocal(t, n, value) == EditScene(t, set_local(t.scene, n, value))

LocalFor(t, n, world) ==
    IF IsRoot(n) THEN world ELSE Compose(GetInverse(t.scene.world[Parent[n]]), world)

(* A correction from the parent world as it was last evaluated.            *)
CorrectStaleWorld(t, n, world) ==
    EditScene(t, set_local(t.scene, n, LocalFor(t, n, world)))

(* The local is computed from worlds that are brought up to date first.     *)
CorrectWorld(t, n, world) ==
    LET u == IF t.scene.dirty # {} THEN EvaluateDirty(t) ELSE t
    IN  EditScene(u, set_local(u.scene, n, LocalFor(u, n, world)))

Process(t, c) ==
    CASE c.op = "place" -> PlaceSlot(t, c.slot, c.value)
      [] c.op = "bind" -> BindSlot(t, c.slot, c.binding)
      [] c.op = "unbind" -> UnbindSlot(t, c.slot)
      [] c.op = "reset" -> ResetSlot(t, c.slot)
      [] c.op = "active" -> SetActive(t, c.active)
      [] c.op = "correctLocal" -> CorrectLocal(t, c.node, c.value)
      [] c.op = "correctWorld" -> CorrectWorld(t, c.node, c.value)

--------------------------------------------------------------------------------
(* What a controller's callback leaves to apply when it ends.               *)
ApplyWrite(t, write) ==
    CASE write.kind = "none" -> t
      [] write.kind = "local" -> EditScene(t, set_local(t.scene, write.node, write.value))
      [] write.kind = "motion" -> [t EXCEPT !.scene.motion[write.node] = write.value]

Backlog(t, delta) == Min({t.accumulator + delta, FixedStep * MaxCatchUpSteps})

NeedsTick(t, runs) == t.active /\ (runs \/ Active(t.scene) # {} \/ t.scene.dirty # {})

RefreshTickConnection == connected' = (m_commands' # <<>> \/ NeedsTick(si', running'))

--------------------------------------------------------------------------------
(* The clients.                                                             *)

Editable == si.scene.revision <= LastEdit /\ si.scene.next_tick <= LastTick

(* The commands not yet processed, those the tick has taken first.          *)
Queued == tick.commands \o m_commands
Binds(c, slot) == c.op = "bind" /\ c.slot = slot

(* A bind as a client that unbinds a slot before it binds it again asks.    *)
Asked(c) ==
    c.op = "bind" =>
        /\ \A n \in NodesOf[c.slot] : si.bindings[n] = NoEntity
        /\ \A i \in DOMAIN Queued : ~Binds(Queued[i], c.slot)

(* Enqueue: between ticks, or during one by whoever is told of a completion. *)
Submit(c) ==
    /\ Editable /\ tick.phase \in {"none", "drain"} /\ Len(m_commands) < MaxQueue
    /\ Asked(c)
    /\ m_commands' = Append(m_commands, c)
    /\ UNCHANGED <<si, running, shown, tick>>
    /\ RefreshTickConnection

(* Input that does not look at the tick connection.                        *)
InputUnrefreshed(write, runs) ==
    /\ Editable /\ tick.phase = "none"
    /\ si' = ApplyWrite(si, write)
    /\ running' = runs
    /\ UNCHANGED <<m_commands, shown, connected, tick>>

(* Input makes a controller write at once, and may start or stop its run.   *)
SubmitControllerInput(write, runs) ==
    /\ Editable /\ tick.phase = "none"
    /\ si' = ApplyWrite(si, write)
    /\ running' = runs
    /\ UNCHANGED <<m_commands, shown, tick>>
    /\ RefreshTickConnection

--------------------------------------------------------------------------------
(* The tick, which holds the system's mutex from its first step to its last. *)

Worlds(t) == EvaluatedWorlds([t.scene EXCEPT !.dirty = Node])
InSync ==
    \A n \in Node : si.bindings[n] # NoEntity =>
        shown[si.bindings[n]] = Compose(Worlds(si)[n], Offset[si.bindings[n]])

(* Ticks are explored up to the last edit, and beyond it until everything   *)
(* is shown.                                                                *)
TickDue == connected /\ (Editable \/ m_commands # <<>> \/ ~InSync)

(* The tick starts and takes the queue.                                     *)
OnTick(delta) ==
    /\ tick.phase = "none" /\ TickDue
    /\ tick' = [phase |-> "drain", commands |-> m_commands, delta |-> delta, steps |-> 0,
                none |-> TRUE]
    /\ m_commands' = <<>>
    /\ UNCHANGED <<si, running, shown, connected>>

DrainCommands ==
    /\ tick.phase = "drain" /\ tick.commands # <<>>
    /\ si' = Process(si, Head(tick.commands))
    /\ tick' = [tick EXCEPT !.commands = Tail(@)]
    /\ UNCHANGED <<running, shown, m_commands, connected>>

TickEnds == tick' = NoTick /\ RefreshTickConnection

(* Advance has nothing to do while the scene is inactive.                   *)
AdvanceInactive ==
    /\ tick.phase = "drain" /\ tick.commands = <<>> /\ ~si.active
    /\ UNCHANGED <<si, running, shown, m_commands>>
    /\ TickEnds

(* Advance finds out how many steps the time and the limit allow.           *)
Advance ==
    LET accumulated == Backlog(si, tick.delta)
        count == Min({accumulated \div FixedStep, MaxCatchUpSteps})
    IN  /\ tick.phase = "drain" /\ tick.commands = <<>> /\ si.active
        /\ si' = [si EXCEPT !.accumulator = accumulated - FixedStep * count]
        /\ tick' = [tick EXCEPT !.phase = "step", !.steps = count, !.none = (count = 0)]
        /\ UNCHANGED <<running, shown, m_commands, connected>>

(* One fixed step: the running controllers, then advance_motion_scene.      *)
FixedStepTaken(write) ==
    LET ran == IF running THEN ApplyWrite(si, write) ELSE si
    IN  /\ tick.phase = "step" /\ tick.steps > 0
        /\ ~running => write.kind = "none"
        /\ si' = TakeResult(ran, advance_motion_scene(ran.scene))
        /\ tick' = [tick EXCEPT !.steps = @ - 1]
        /\ UNCHANGED <<running, shown, m_commands, connected>>

(* A tick without a step still evaluates edits, and every tick of an active *)
(* scene writes what changed to the entities.                               *)
Synchronize ==
    LET evaluated == IF tick.none /\ si.scene.dirty # {} THEN EvaluateDirty(si) ELSE si
    IN  /\ tick.phase = "step" /\ tick.steps = 0
        /\ si' = Synchronized(evaluated)
        /\ shown' = Written(evaluated, shown)
        /\ UNCHANGED <<running, m_commands>>
        /\ TickEnds

Tick ==
    \/ \E delta \in FrameDeltas : OnTick(delta)
    \/ DrainCommands \/ AdvanceInactive \/ Advance \/ Synchronize
    \/ \E write \in Writes : FixedStepTaken(write)

Next ==
    \/ \E c \in Commands : Submit(c)
    \/ \E write \in Writes, runs \in BOOLEAN : SubmitControllerInput(write, runs)
    \/ Tick

Spec == Init /\ [][Next]_vars

(* The tick bus calls a connected handler again and again, and a call      *)
(* returns.  This is WF_vars(Tick) spelt out, which TLC decides faster: in  *)
(* a tick or when one is due Tick is enabled, and only Tick changes tick.   *)
TickFairness == []<>(tick.phase = "none" /\ ~TickDue) \/ []<><<tick' # tick>>_vars
FairSpec == Spec /\ TickFairness

--------------------------------------------------------------------------------
(* The shortcut Synchronize takes is exact: while the direct batch is valid *)
(* it holds just the nodes changed_transform_nodes_since would find, over   *)
(* corrections, several steps in one tick, times of inactivity, failed      *)
(* evaluations and the wrap of the stamps' epoch.                           *)
DirectBatchExact ==
    si.valid => si.changes = {n \in Node : si.scene.world_revision[n] > si.synced}

(* The scene has no revisions or ticks left for another step or edit.       *)
Exhausted == step_error(si.scene) # "none" \/ ~revision_available(si.scene)

(* Sleeping is safe: when an active scene is off the tick bus, every bound  *)
(* entity shows the composition of all locals above it, unless the scene's  *)
(* revisions or ticks run out.                                               *)
QuiescentShown ==
    ~connected /\ tick.phase = "none" /\ si.active => InSync \/ Exhausted

(* The head room rule refuses a fixed step exactly when some part of it     *)
(* would be refused: neither a step that stops half way nor a step that     *)
(* could still have been taken.                                             *)
HeadRoomExact == head_room(si.scene) <=> admitted_step(si.scene).error = "none"

(* A world correction that is accepted yields that very world at the next   *)
(* evaluation, whatever was dirty above the node when a tick processed it.  *)
WorldCorrectionExact ==
    [][\A c \in Commands :
        /\ c.op = "correctWorld" /\ DrainCommands /\ Head(tick.commands) = c
        /\ c.node \in si'.scene.dirty /\ si'.scene.revision # si.scene.revision
        => EvaluatedWorlds(si'.scene)[c.node] = c.value]_vars

(* The map that resolves authored entities agrees with the binding table.   *)
BindingTableAgrees ==
    \A e \in Entity, n \in Node : si.bindings[n] = e <=> si.toNode[e] = n

(* No write is forgotten: again and again every bound entity of an active   *)
(* scene shows its node, however commands, inputs and slow frames mix, as   *)
(* long as revisions last.                                                  *)
EventuallyShown == []<>(si.active => InSync \/ Exhausted)
================================================================================
