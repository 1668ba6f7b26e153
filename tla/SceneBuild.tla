------------------------------ MODULE SceneBuild ------------------------------
(***************************************************************************)
(* From registration to a ready scene: the collection of the system        *)
(* component, the ScenePolytreeComponents that build one scene each from   *)
(* the registrations they are given, the assets they wait for, and the     *)
(* queue through which scenes are created and destroyed.  Whoever          *)
(* registers a prefab (Spawner models one) waits for one answer.           *)
(*                                                                         *)
(* The asset system is external: QueueLoad makes an asset load, a load     *)
(* ends ready or in error, and connecting to an asset that has ended       *)
(* reports it at once.  Slot commands are in SceneSlots and SceneSync.     *)
(***************************************************************************)
EXTENDS Integers, SequencesExt, FiniteSetsExt

CONSTANTS
    SceneEntity,        \* entities with a ScenePolytreeComponent
    NoEntity,           \* the invalid EntityId: register with the default scene
    Owner, PrefabOf,    \* who registers, numbered as they sort, and what
    Prefab, BadPrefab,  \* prefab assets, and those whose topology is refused
    PermanentNodes,     \* scene entity -> "none", "valid" or "invalid"
    BadConfig,          \* scene entities whose fixed step or catch-up is refused
    NoScene,
    SystemStops,        \* whether the system component may be deactivated
    MaxTokens, MaxScenes, MaxCollections   \* bounds: registrations, activations, collections

ASSUME BuildAssumption ==
    /\ Owner \subseteq Nat /\ PrefabOf \in [Owner -> Prefab] /\ BadPrefab \subseteq Prefab
    /\ PermanentNodes \in [SceneEntity -> {"none", "valid", "invalid"}]
    /\ BadConfig \subseteq SceneEntity /\ NoEntity \notin SceneEntity
    /\ IsFiniteSet(SceneEntity) /\ NoScene \notin Nat /\ MaxTokens \in Nat

VARIABLES
    sys,         \* the system's collection: active, closed, entities, pending
    m_scenes,    \* scene handle -> its life and partitions
    m_commands,  \* the queue: create and destroy
    comp,        \* the ScenePolytreeComponents
    asset,       \* the state of each asset
    registered,  \* owner -> the token it waits on, 0 for none
    answers,     \* token -> the answers sent for it
    dropped,     \* tokens whose scene component or system is gone
    ended,       \* history: the scenes components had been given when the system stopped
    activations, collections   \* counts for the bounds; activations also names scenes

vars == <<sys, m_scenes, m_commands, comp, asset, registered, answers, dropped, ended,
          activations, collections>>
history == <<dropped, ended>>
counters == <<activations, collections>>

Token == 1 .. MaxTokens
Inactive == [life |-> "Inactive", regs |-> {}, scene |-> NoScene, number |-> 0]
NoSystem == [active |-> FALSE, closed |-> FALSE, entities |-> {}, pending |-> {}, next |-> 1]

Init ==
    /\ sys = [NoSystem EXCEPT !.active = TRUE]
    /\ m_scenes = <<>> /\ m_commands = <<>>
    /\ comp = [e \in SceneEntity |-> Inactive]
    /\ asset = [p \in Prefab |-> "unloaded"]
    /\ registered = [o \in Owner |-> 0]
    /\ answers = [t \in Token |-> <<>>] /\ dropped = {} /\ ended = {}
    /\ activations = 0 /\ collections = 0

Answered(tokens, answer) == [t \in Token |-> IF t \in tokens THEN Append(answers[t], answer)
                                             ELSE answers[t]]
TokensOf(regs) == {r.token : r \in regs}

--------------------------------------------------------------------------------
(* The component.                                                           *)

FailBuild(c) == [c EXCEPT !.life = "Failed"]

(* TryBuild, while the component builds and has no scene: it waits for its  *)
(* assets; a topology or a configuration that is refused fails the build,   *)
(* and so does a system that is no longer there to create the scene.        *)
Waits(c, assets) == \E r \in c.regs : assets[PrefabOf[r.owner]] # "ready"

Refused(e, c) ==
    \/ PermanentNodes[e] = "invalid" \/ e \in BadConfig
    \/ \E r \in c.regs : PrefabOf[r.owner] \in BadPrefab
    \/ ~sys.active

(* A build whose scene was refused goes on waiting for it.                  *)
TryBuildUnrefused(e, c, assets) ==
    IF c.life # "Building" \/ c.scene # NoScene \/ Waits(c, assets) \/ Refused(e, c) THEN c
    ELSE [c EXCEPT !.scene = c.number]

TryBuild(e, c, assets) ==
    IF c.life # "Building" \/ c.scene # NoScene \/ Waits(c, assets) THEN c
    ELSE IF Refused(e, c) THEN FailBuild(c)
    ELSE [c EXCEPT !.scene = c.number]

(* BeginBuild connects to and loads one asset after another.  An asset that *)
(* is in error fails the build and ends the loop; the last TryBuild finds   *)
(* what one inside the loop would have found.                               *)
Erring(regs) == {r \in regs : asset[PrefabOf[r.owner]] = "error"}
Loaded(regs) == {PrefabOf[r.owner] : r \in {q \in regs : \A f \in Erring(regs) : q.owner < f.owner}}

BeginBuild(e, c, regs) ==
    IF c.life # "Collecting" THEN FailBuild(c)
    ELSE LET building == [c EXCEPT !.life = "Building", !.regs = regs]
         IN  IF (regs = {} /\ PermanentNodes[e] = "none") \/ Erring(regs) # {}
             THEN FailBuild(building)
             ELSE TryBuild(e, building, asset)

(* What the steps of components do beside their own state: a build that     *)
(* fails answers its registrations, a new scene is queued (in the order in  *)
(* which the components registered, which is the order of their numbers).   *)
Failing(new) == {e \in SceneEntity : new[e].life = "Failed" /\ comp[e].life # "Failed"}
Creating(new) == {e \in SceneEntity : new[e].scene # NoScene /\ comp[e].scene = NoScene}

CreateScenes(new) ==
    LET created == Creating(new)
        scenes == {new[e].scene : e \in created}
    IN  \E order \in Bijection(1 .. Cardinality(created), created) :
        /\ \A i, j \in DOMAIN order : i < j => new[order[i]].number < new[order[j]].number
        /\ m_commands' = m_commands \o
            [i \in 1 .. Cardinality(created) |-> [op |-> "create", scene |-> new[order[i]].scene,
                                                 partitions |-> TokensOf(new[order[i]].regs)]]
        /\ m_scenes' = [h \in DOMAIN m_scenes \union scenes |->
                           IF h \in scenes THEN [life |-> "Pending", partitions |-> {}]
                           ELSE m_scenes[h]]

ComponentsStep(new) ==
    /\ comp' = new
    /\ answers' = Answered(UNION {TokensOf(new[e].regs) : e \in Failing(new)}, "failed")
    /\ CreateScenes(new)

Entities == {entry.entity : entry \in sys.entities}

(* Activate registers the scene entity while the collection is open.        *)
ActivateScene(e, isDefault) ==
    /\ comp[e].life \in {"Inactive", "Destroying"} /\ activations < MaxScenes
    /\ activations' = activations + 1
    /\ LET accepted == sys.active /\ ~sys.closed /\ e \notin Entities
       IN  /\ comp' = [comp EXCEPT ![e] =
                [life |-> IF accepted THEN "Collecting" ELSE "Failed", regs |-> {},
                 scene |-> NoScene, number |-> activations + 1]]
           /\ sys' = IF accepted
                     THEN [sys EXCEPT !.entities = @ \union {[entity |-> e, default |-> isDefault]}]
                     ELSE sys
    /\ UNCHANGED <<m_scenes, m_commands, asset, registered, answers, history, collections>>

(* DestroyScene: at once for the requests, queued for the instance.         *)
DestroyScene(h) ==
    IF h \in DOMAIN m_scenes /\ m_scenes[h].life # "Destroying"
    THEN /\ m_scenes' = [m_scenes EXCEPT ![h].life = "Destroying"]
         /\ m_commands' = Append(m_commands, [op |-> "destroy", scene |-> h])
    ELSE UNCHANGED <<m_scenes, m_commands>>

DeactivateScene(e) ==
    /\ comp[e].life \notin {"Inactive", "Destroying"}
    /\ comp' = [comp EXCEPT ![e].life = "Destroying", ![e].regs = {}, ![e].scene = NoScene]
    /\ sys' = [sys EXCEPT !.entities = {entry \in @ : entry.entity # e}]
    /\ DestroyScene(comp[e].scene)
    /\ dropped' = dropped \union TokensOf(comp[e].regs)
    /\ UNCHANGED <<asset, registered, answers, ended, counters>>

--------------------------------------------------------------------------------
(* Owners of registrations.                                                 *)

RegisterPrefab(o, target) ==
    /\ registered[o] = 0 /\ sys.active /\ ~sys.closed /\ sys.next \in Token
    /\ sys' = [sys EXCEPT !.next = @ + 1,
                          !.pending = @ \union {[token |-> sys.next, owner |-> o, target |-> target]}]
    /\ registered' = [registered EXCEPT ![o] = sys.next]
    /\ UNCHANGED <<m_scenes, m_commands, comp, asset, answers, history, counters>>

UnregisterPrefab(o) ==
    /\ registered[o] # 0
    /\ registered' = [registered EXCEPT ![o] = 0]
    /\ sys' = [sys EXCEPT !.pending = {r \in @ : r.token # registered[o]}]
    /\ UNCHANGED <<m_scenes, m_commands, comp, asset, answers, history, counters>>

--------------------------------------------------------------------------------
(* The end of the collection.                                               *)

Defaults == {entry.entity : entry \in {x \in sys.entities : x.default}}

Targets(r, e) ==
    IF r.target = NoEntity THEN Defaults = {e} ELSE r.target = e

(* Only a missing default is reported.                                      *)
UnresolvedUnlessSeveral(r) == IF r.target = NoEntity THEN Defaults = {}
                              ELSE r.target \notin Entities

Unresolved(r) == IF r.target = NoEntity THEN Cardinality(Defaults) # 1
                 ELSE r.target \notin Entities

CollectionEnds ==
    LET regs(e) == {r \in sys.pending : Targets(r, e)}
        new == [e \in SceneEntity |-> IF e \in Entities THEN BeginBuild(e, comp[e], regs(e))
                                      ELSE comp[e]]
        loads == UNION {Loaded(regs(e)) : e \in {f \in Entities : comp[f].life = "Collecting"}}
        unresolved == TokensOf({r \in sys.pending : Unresolved(r)})
    IN  /\ sys' = [sys EXCEPT !.closed = TRUE]
        /\ comp' = new
        /\ CreateScenes(new)
        /\ asset' = [p \in Prefab |-> IF p \in loads /\ asset[p] = "unloaded" THEN "loading"
                                      ELSE asset[p]]
        /\ answers' = [t \in Token |->
                Answered(UNION {TokensOf(new[e].regs) : e \in {f \in Entities : new[f].life = "Failed"}},
                         "failed")[t] \o (IF t \in unresolved THEN <<"failed">> ELSE <<>>)]
        /\ UNCHANGED <<registered, history, counters>>

(* A root spawnable that is ready is taken for the first every time.        *)
RootSpawnableReadyAgain == sys.active /\ CollectionEnds

OnRootSpawnableReady == sys.active /\ ~sys.closed /\ CollectionEnds

(* A reset that forgets the scenes with the registrations.                  *)
ResetScenesToo ==
    /\ sys.active /\ collections < MaxCollections
    /\ collections' = collections + 1
    /\ sys' = [sys EXCEPT !.closed = FALSE, !.entities = {}, !.pending = {}]
    /\ m_scenes' = <<>> /\ m_commands' = <<>>
    /\ UNCHANGED <<comp, asset, registered, answers, history, activations>>

(* Registrations nobody has resolved are forgotten.                         *)
OnGameEntitiesReset ==
    /\ sys.active /\ collections < MaxCollections
    /\ collections' = collections + 1
    /\ sys' = [sys EXCEPT !.closed = FALSE, !.entities = {}, !.pending = {}]
    /\ UNCHANGED <<m_scenes, m_commands, comp, asset, registered, answers, history, activations>>

--------------------------------------------------------------------------------
(* Assets end loading, and tell the components that wait for them.          *)

Listening(e, p) ==
    /\ comp[e].life = "Building" /\ comp[e].scene = NoScene
    /\ \E r \in comp[e].regs : PrefabOf[r.owner] = p

OnAssetReady(p) ==
    /\ asset[p] = "loading"
    /\ asset' = [asset EXCEPT ![p] = "ready"]
    /\ ComponentsStep([e \in SceneEntity |-> IF Listening(e, p) THEN TryBuild(e, comp[e], asset')
                                             ELSE comp[e]])
    /\ UNCHANGED <<sys, registered, history, counters>>

(* OnAssetError and OnAssetCanceled.                                        *)
OnAssetError(p) ==
    /\ asset[p] = "loading"
    /\ asset' = [asset EXCEPT ![p] = "error"]
    /\ ComponentsStep([e \in SceneEntity |-> IF Listening(e, p) THEN FailBuild(comp[e])
                                             ELSE comp[e]])
    /\ UNCHANGED <<sys, registered, history, counters>>

--------------------------------------------------------------------------------
(* The tick processes the queue; Create may fail for reasons of its own.    *)

Builder(h) == {e \in SceneEntity : comp[e].life = "Building" /\ comp[e].scene = h}

SceneReady(c) ==
    /\ m_scenes' = [m_scenes EXCEPT ![c.scene] = [life |-> "Alive", partitions |-> c.partitions]]
    /\ comp' = [e \in SceneEntity |-> IF e \in Builder(c.scene) THEN [comp[e] EXCEPT !.life = "Ready"]
                                      ELSE comp[e]]
    /\ answers' = Answered(UNION {TokensOf(comp[e].regs) : e \in Builder(c.scene)}, "ready")

SceneFailed(c) ==
    /\ m_scenes' = [h \in DOMAIN m_scenes \ {c.scene} |-> m_scenes[h]]
    /\ comp' = [e \in SceneEntity |-> IF e \in Builder(c.scene) THEN FailBuild(comp[e]) ELSE comp[e]]
    /\ answers' = Answered(UNION {TokensOf(comp[e].regs) : e \in Builder(c.scene)}, "failed")

(* Creation of whatever scene the command names.                            *)
CreateAlways(c) == c.scene \in DOMAIN m_scenes /\ (SceneReady(c) \/ SceneFailed(c))

ProcessCreate(c) ==
    IF c.scene \in DOMAIN m_scenes /\ m_scenes[c.scene].life = "Pending"
    THEN SceneReady(c) \/ SceneFailed(c)
    ELSE UNCHANGED <<m_scenes, comp, answers>>

ProcessDestroy(c) ==
    /\ m_scenes' = [h \in DOMAIN m_scenes \ {c.scene} |-> m_scenes[h]]
    /\ UNCHANGED <<comp, answers>>

Process ==
    /\ sys.active /\ m_commands # <<>>
    /\ m_commands' = Tail(m_commands)
    /\ \/ Head(m_commands).op = "create" /\ ProcessCreate(Head(m_commands))
       \/ Head(m_commands).op = "destroy" /\ ProcessDestroy(Head(m_commands))
    /\ UNCHANGED <<sys, asset, registered, history, counters>>

(* The system component goes, with its scenes and all that is queued.       *)
Deactivate ==
    /\ SystemStops /\ sys.active
    /\ sys' = [NoSystem EXCEPT !.next = sys.next]
    /\ m_scenes' = <<>> /\ m_commands' = <<>>
    /\ dropped' = dropped \union UNION {TokensOf(comp[e].regs) : e \in SceneEntity}
    /\ ended' = ended \union ({comp[e].scene : e \in SceneEntity} \ {NoScene})
    /\ UNCHANGED <<comp, asset, registered, answers, counters>>

Activate ==
    /\ ~sys.active
    /\ sys' = [sys EXCEPT !.active = TRUE]
    /\ UNCHANGED <<m_scenes, m_commands, comp, asset, registered, answers, history, counters>>

AssetEnds == \E p \in Prefab : OnAssetReady(p) \/ OnAssetError(p)

Next ==
    \/ \E e \in SceneEntity : DeactivateScene(e) \/ \E d \in BOOLEAN : ActivateScene(e, d)
    \/ \E o \in Owner : UnregisterPrefab(o) \/ \E t \in SceneEntity \union {NoEntity} : RegisterPrefab(o, t)
    \/ OnRootSpawnableReady \/ OnGameEntitiesReset
    \/ AssetEnds
    \/ Process
    \/ Deactivate \/ Activate

Spec == Init /\ [][Next]_vars

(* Loads end, and a queue that is not empty keeps the system on the tick    *)
(* bus (RefreshTickConnection).                                             *)
FairSpec == Spec /\ WF_vars(AssetEnds) /\ WF_vars(Process)

--------------------------------------------------------------------------------
(* No registration is answered twice, whatever order scenes, assets, resets *)
(* and repeated root spawnables come in.                                    *)
AnsweredOnce == \A t \in Token : Len(answers[t]) <= 1

(* A ready component has its scene, and the whole of it: one partition for  *)
(* each of its registrations, all of whose prefabs had loaded and were      *)
(* accepted ("A failed asset or topology never creates a partial runtime    *)
(* scene"), and every one of which was told so.  Only a stop of the system  *)
(* takes the scene from a component that was not deactivated: whatever the  *)
(* others queue, fail or destroy, and across resets of the collection.      *)
(* Once a stop took it, no later scene comes under its handle.              *)
ReadyIsWhole ==
    \A e \in SceneEntity : comp[e].life = "Ready" =>
        /\ IF comp[e].scene \in ended
           THEN comp[e].scene \notin DOMAIN m_scenes
           ELSE /\ comp[e].scene \in DOMAIN m_scenes
                /\ m_scenes[comp[e].scene] = [life |-> "Alive", partitions |-> TokensOf(comp[e].regs)]
        /\ \A r \in comp[e].regs : /\ answers[r.token] = <<"ready">>
                                   /\ PrefabOf[r.owner] \notin BadPrefab
                                   /\ asset[PrefabOf[r.owner]] = "ready"

(* A scene that is not being destroyed belongs to a component: none is left *)
(* behind by a component that went while its scene was still queued.        *)
ScenesOwned ==
    \A h \in DOMAIN m_scenes : m_scenes[h].life # "Destroying" =>
        \E e \in SceneEntity : comp[e].scene = h /\ comp[e].life \in {"Building", "Ready"}

(* A registration that was resolved and not answered is held by the one     *)
(* component that builds with it, until that component or the system goes.  *)
Collected(t) == sys.closed /\ \E r \in sys.pending : r.token = t
NoneLost ==
    \A t \in Token : Collected(t) /\ answers[t] = <<>> /\ t \notin dropped =>
        \E e \in SceneEntity : comp[e].life = "Building" /\ t \in TokensOf(comp[e].regs)

(* Every build ends, ready or failed, or its component goes; the one        *)
(* exception is a build whose queued scene a stop of the system took.       *)
SceneDropped(e) == comp[e].scene \in ended
BuildsEnd ==
    \A e \in SceneEntity : []<>(comp[e].life # "Building" \/ SceneDropped(e))
================================================================================
