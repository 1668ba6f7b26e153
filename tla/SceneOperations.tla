-------------------------- MODULE SceneOperations --------------------------
(***************************************************************************)
(* The slot side of ScenePolytreeSystemComponent and SceneInstance         *)
(* (integrations/o3de/Code/Source): scene lives, the command queue, slot   *)
(* leases, entity bindings and attached controllers.                       *)
(*                                                                         *)
(* A queued command ends in a callback that may queue more commands, so    *)
(* the calls of one handler nest.  Each call is an operator on the whole   *)
(* state, the record s; SceneSlots and Spawner turn them into actions.     *)
(* One spawner partition per scene.  Node transforms are abstracted to     *)
(* "placed" (the last PlaceSlot stands) and "bound" (the entities a slot   *)
(* publishes to); who holds controllers is kept, what they do is not.      *)
(***************************************************************************)
EXTENDS Integers, SequencesExt

CONSTANTS Scene,              \* scene handles
          Capacity,           \* slots of the partition
          GenerationModulus   \* 2^32 for the 32-bit generations

ASSUME CapacityAssumption == Capacity \in Nat \ {0}
ASSUME GenerationAssumption == GenerationModulus \in Nat /\ GenerationModulus > 2

Slot == 0 .. Capacity - 1
NoEntities == 0
NoCommand == 0

(* ++generation, skipping the value 0 that marks an invalid handle.        *)
NextGeneration(g) == IF g + 1 = GenerationModulus THEN 1 ELSE g + 1

DormantSlot == [reserved |-> FALSE, generation |-> 1, placed |-> FALSE, bound |-> NoEntities]
DormantSlots == [i \in Slot |-> DormantSlot]

-----------------------------------------------------------------------------
(* Lookups                                                                 *)

FindScene(s, scene) == s.life[scene] = "Alive"
AcceptsCommands(s, scene) == s.life[scene] \in {"Pending", "Alive"}

(* Both handles must name the lease that is current.                       *)
FindSlot(s, slot) ==
  /\ s.slots[slot.scene][slot.slot].reserved
  /\ s.slots[slot.scene][slot.slot].generation = slot.generation
HasControllers(s, slot) == \E instance \in s.controllers : instance.slot = slot

-----------------------------------------------------------------------------
(* SceneInstance: what one slot command does                               *)

(* A search that ignores m_reserved.                                       *)
FreeSlotsAll(s, scene) == Slot

(* ReserveSlot takes the first unreserved slot, immediately.               *)
FreeSlots(s, scene) == {i \in Slot : ~s.slots[scene][i].reserved}
FirstFree(s, scene) == CHOOSE i \in FreeSlots(s, scene) :
                         \A j \in FreeSlots(s, scene) : i <= j
ReservedHandle(s, scene) ==
  [scene |-> scene, slot |-> FirstFree(s, scene),
   generation |-> s.slots[scene][FirstFree(s, scene)].generation]
ReserveSlot(s, scene) ==
  [s EXCEPT !.slots[scene][FirstFree(s, scene)].reserved = TRUE]

ClearSlot(slot) == [slot EXCEPT !.bound = NoEntities, !.placed = FALSE]
(* A release that hands the lease back with its old generation.            *)
ReleasedSameGeneration(slot) == [ClearSlot(slot) EXCEPT !.reserved = FALSE]
(* A release that leaves the slot as its last user left it.                *)
ReleasedUncleared(slot) ==
  [slot EXCEPT !.reserved = FALSE, !.generation = NextGeneration(@)]
ReleasedSlot(slot) ==
  [ClearSlot(slot) EXCEPT !.reserved = FALSE, !.generation = NextGeneration(@)]

(* An entity may publish from one slot only.                               *)
Aliased(s, c) ==
  \E i \in Slot : i # c.slot.slot /\ s.slots[c.slot.scene][i].bound = c.entities

(* The guard below, forgotten for Release.                                 *)
BlockedUnlessRelease(s, c) ==
  c.type \in {"Unbind", "Reset"} /\ HasControllers(s, c.slot)
(* Commands that must not pull a slot from under its controllers.          *)
BlockedByControllers(s, c) ==
  c.type \in {"Unbind", "Reset", "Release"} /\ HasControllers(s, c.slot)

Instance(c) == [slot |-> c.slot, generation |-> c.owner]

(* The result of command c.  valid says whether the data it carries        *)
(* (bindings, controller declarations) passes validation, factories,       *)
(* CreateController and DestroyController included.                        *)
Result(s, c, valid) ==
  IF ~FindScene(s, c.slot.scene) THEN "SceneNotFound"
  ELSE IF ~FindSlot(s, c.slot) THEN "StaleHandle"
  ELSE IF BlockedByControllers(s, c) THEN "ControllersActive"
  ELSE IF c.type = "Attach" /\ Instance(c) \in s.controllers THEN "ControllersActive"
  ELSE IF c.type = "Detach" /\ Instance(c) \notin s.controllers THEN "StaleHandle"
  ELSE IF c.type \in {"Bind", "Attach", "Detach"} /\ ~valid THEN "Rejected"
  ELSE IF c.type = "Bind" /\ Aliased(s, c) THEN "Rejected"
  ELSE "Success"

(* DetachControllers removes the instance's controllers whatever           *)
(* CloseControllerInput and DestroyController answered.                    *)
DetachControllers(s, instance) == [s EXCEPT !.controllers = @ \ {instance}]

(* AttachControllers adds an instance's controllers all together or not    *)
(* at all; an empty list of declarations adds none.                        *)
AttachControllers(s, c) ==
  [s EXCEPT !.controllers =
     IF c.entities = NoEntities THEN @ ELSE @ \union {Instance(c)}]

UpdateSlot(s, c) ==
  LET update(slot) ==
        CASE c.type = "Place"   -> [slot EXCEPT !.placed = TRUE]
          [] c.type = "Bind"    -> [slot EXCEPT !.bound = c.entities]
          [] c.type = "Unbind"  -> [slot EXCEPT !.bound = NoEntities]
          [] c.type = "Reset"   -> ClearSlot(slot)
          [] c.type = "Release" -> ReleasedSlot(slot)
  IN  [s EXCEPT !.slots[c.slot.scene][c.slot.slot] = update(@)]

Execute(s, c, valid) ==
  IF c.type = "Detach" THEN
    IF FindScene(s, c.slot.scene) THEN DetachControllers(s, Instance(c)) ELSE s
  ELSE IF Result(s, c, valid) # "Success" THEN s
  ELSE IF c.type = "Attach" THEN AttachControllers(s, c)
  ELSE UpdateSlot(s, c)

-----------------------------------------------------------------------------
(* ScenePolytreeSystemComponent: scene lives and the queue                 *)

Enqueue(s, c) == [s EXCEPT !.m_commands = Append(@, c)]

CreateScene(s, scene) ==
  Enqueue([s EXCEPT !.life[scene] = "Pending"], [type |-> "Create", scene |-> scene])

DestroyScene(s, scene) ==
  Enqueue([s EXCEPT !.life[scene] = "Destroying"], [type |-> "Destroy", scene |-> scene])

(* A command is queued if the scene accepts commands (the caller asks      *)
(* AcceptsCommands), with a fresh id.  notify: a completion entity was     *)
(* given; without one nobody ever looks at the id, which is left out.      *)
(* entities: the entities to bind, or those that declare controllers.      *)
Submit(s, type, instance, entities, notify) ==
  Enqueue([s EXCEPT !.m_nextCommandId = IF notify THEN @ + 1 ELSE @],
          [type |-> type, slot |-> instance.slot, owner |-> instance.generation,
           entities |-> entities, id |-> IF notify THEN s.m_nextCommandId ELSE NoCommand])

(* DetachControllers is queued only once every controller of the instance  *)
(* has closed its input (closes: the batches' answer).                     *)
AcceptsDetach(s, instance, closes) ==
  /\ FindScene(s, instance.slot.scene)
  /\ FindSlot(s, instance.slot)
  /\ instance \in s.controllers
  /\ closes

DestroyControllersImmediately(s, instance) ==
  IF FindScene(s, instance.slot.scene) THEN DetachControllers(s, instance) ELSE s

(* CreateCommand builds the scene or erases the entry.                     *)
ProcessCreate(s, c, valid) ==
  IF s.life[c.scene] # "Pending" THEN s
  ELSE [s EXCEPT !.life[c.scene] = IF valid THEN "Alive" ELSE "Erased"]

ProcessDestroy(s, c) ==
  [s EXCEPT !.life[c.scene] = "Erased", !.slots[c.scene] = DormantSlots,
            !.controllers = {i \in @ : i.slot.scene # c.scene}]

(* DrainCommands swaps the queue out first: what a command's completion    *)
(* enqueues is run by the next tick.                                       *)
SwapCommands(s) == [s EXCEPT !.draining = s.m_commands, !.m_commands = <<>>]
NextCommand(s) == Head(s.draining)
PopCommand(s) == [s EXCEPT !.draining = Tail(@)]

Process(s, valid) ==
  LET c == NextCommand(s) IN
  CASE c.type = "Create"  -> ProcessCreate(PopCommand(s), c, valid)
    [] c.type = "Destroy" -> ProcessDestroy(PopCommand(s), c)
    [] OTHER              -> Execute(PopCommand(s), c, valid)
=============================================================================
