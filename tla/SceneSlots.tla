----------------------------- MODULE SceneSlots -----------------------------
(***************************************************************************)
(* The scene system driven by arbitrary clients: anyone may submit any     *)
(* slot command with any handle ever issued, late, twice or out of order.  *)
(* What the lease protocol promises to the holder of a slot must not rest  *)
(* on the good manners of its previous holders.                            *)
(***************************************************************************)
EXTENDS SceneOperations

CONSTANTS Entities,       \* entity groups a client may bind
          Owners,         \* spawner generations found in instance handles
          MaxQueue,       \* bound on queued commands
          MaxReleases     \* bound on the releases of one slot

VARIABLES life, slots, controllers, m_commands, draining, m_nextCommandId,
          issued,         \* handles handed out, with the lease they stand for
          releases        \* releases of each slot so far

vars == <<life, slots, controllers, m_commands, draining, m_nextCommandId, issued, releases>>

Now == [life |-> life, slots |-> slots, controllers |-> controllers,
        m_commands |-> m_commands, draining |-> draining,
        m_nextCommandId |-> m_nextCommandId]
Become(s) ==
  /\ life' = s.life /\ slots' = s.slots /\ controllers' = s.controllers
  /\ m_commands' = s.m_commands /\ draining' = s.draining
  /\ m_nextCommandId' = s.m_nextCommandId

Init ==
  /\ life = [scene \in Scene |-> "None"]
  /\ slots = [scene \in Scene |-> DormantSlots]
  /\ controllers = {}
  /\ m_commands = <<>> /\ draining = <<>> /\ m_nextCommandId = 1
  /\ issued = {}
  /\ releases = [scene \in Scene |-> [i \in Slot |-> 0]]

QueueHasRoom == Len(m_commands) + Len(draining) < MaxQueue
Handles == {lease.handle : lease \in issued}
Types == {"Place", "Bind", "Unbind", "Reset", "Release", "Attach"}

ClientCreatesScene(scene) ==
  /\ life[scene] = "None" /\ QueueHasRoom
  /\ Become(CreateScene(Now, scene)) /\ UNCHANGED <<issued, releases>>

ClientDestroysScene(scene) ==
  /\ life[scene] \in {"Pending", "Alive"} /\ QueueHasRoom
  /\ Become(DestroyScene(Now, scene)) /\ UNCHANGED <<issued, releases>>

(* The lease ReserveSlot would give out next.                              *)
NextLease(scene) ==
  LET handle == ReservedHandle(Now, scene)
  IN  [handle |-> handle, lease |-> releases[scene][handle.slot]]

ClientReserves(scene) ==
  /\ FindScene(Now, scene) /\ FreeSlots(Now, scene) # {}
  /\ Become(ReserveSlot(Now, scene))
  /\ issued' = issued \union {NextLease(scene)}
  /\ UNCHANGED releases

(* What a command of each type may carry; SubmitBindSlot refuses an empty  *)
(* list, AttachControllers takes one.                                      *)
Carried(type) == CASE type = "Bind"   -> Entities
                   [] type = "Attach" -> Entities \union {NoEntities}
                   [] OTHER           -> {NoEntities}

ClientSubmits(type, handle, owner, entities) ==
  /\ AcceptsCommands(Now, handle.scene) /\ QueueHasRoom
  /\ Become(Submit(Now, type, [slot |-> handle, generation |-> owner], entities, FALSE))
  /\ UNCHANGED <<issued, releases>>

ClientSubmitsDetach(handle, owner, closes) ==
  LET instance == [slot |-> handle, generation |-> owner] IN
  /\ AcceptsDetach(Now, instance, closes) /\ QueueHasRoom
  /\ Become(Submit(Now, "Detach", instance, NoEntities, FALSE))
  /\ UNCHANGED <<issued, releases>>

ClientDestroysControllers(handle, owner) ==
  /\ Become(DestroyControllersImmediately(Now, [slot |-> handle, generation |-> owner]))
  /\ UNCHANGED <<issued, releases>>

OnTick ==
  /\ draining = <<>> /\ m_commands # <<>>
  /\ Become(SwapCommands(Now)) /\ UNCHANGED <<issued, releases>>

ProcessNext(valid) ==
  LET c == NextCommand(Now) IN
  /\ draining # <<>>
  /\ Become(Process(Now, valid))
  /\ releases' =
       IF c.type = "Release" /\ Result(PopCommand(Now), c, valid) = "Success"
       THEN [releases EXCEPT ![c.slot.scene][c.slot.slot] = @ + 1] ELSE releases
  /\ \A scene \in Scene, i \in Slot : releases'[scene][i] <= MaxReleases
  /\ UNCHANGED issued

Next ==
  \/ \E scene \in Scene : \/ ClientCreatesScene(scene)
                          \/ ClientDestroysScene(scene)
                          \/ ClientReserves(scene)
  \/ \E handle \in Handles, owner \in Owners :
       \/ \E type \in Types : \E entities \in Carried(type) :
            ClientSubmits(type, handle, owner, entities)
       \/ \E closes \in BOOLEAN : ClientSubmitsDetach(handle, owner, closes)
       \/ ClientDestroysControllers(handle, owner)
  \/ OnTick
  \/ \E valid \in BOOLEAN : ProcessNext(valid)

Spec == Init /\ [][Next]_vars

-----------------------------------------------------------------------------
(* Properties                                                              *)

SlotHandle == [scene : Scene, slot : Slot, generation : 1 .. GenerationModulus - 1]
InstanceHandle == [slot : SlotHandle, generation : Owners]
Command ==
  [type : {"Create", "Destroy"}, scene : Scene] \union
  [type : Types \union {"Detach"}, slot : SlotHandle, owner : Owners,
   entities : Entities \union {NoEntities}, id : Nat]
RuntimeSlot ==
  [reserved : BOOLEAN, generation : 1 .. GenerationModulus - 1, placed : BOOLEAN,
   bound : Entities \union {NoEntities}]

(* Types: generations are never 0, so no issued handle is an invalid one   *)
(* (the ++m_generation == 0 test of ReleaseSlot).                          *)
TypeOK ==
  /\ life \in [Scene -> {"None", "Pending", "Alive", "Destroying", "Erased"}]
  /\ slots \in [Scene -> [Slot -> RuntimeSlot]]
  /\ controllers \subseteq InstanceHandle
  /\ m_commands \in Seq(Command) /\ draining \in Seq(Command)
  /\ m_nextCommandId \in Nat
  /\ issued \subseteq [handle : SlotHandle, lease : Nat]
  /\ releases \in [Scene -> [Slot -> Nat]]

(* A handle of an ended lease is never valid again while fewer than        *)
(* GenerationModulus - 1 further leases of the slot have ended: late       *)
(* releases, resets and callbacks of earlier holders cannot touch the      *)
(* present one (the generation test of FindSlot).                          *)
EndedLeasesStayEnded ==
  \A lease \in issued :
    LET h == lease.handle
        ended == releases[h.scene][h.slot] - lease.lease
    IN  (ended > 0 /\ ended < GenerationModulus - 1) => ~FindSlot(Now, h)

(* A reservation hands out a lease that nobody has been given before,      *)
(* whatever was queued, released or destroyed since ("callers receive a    *)
(* unique lease").                                                         *)
LeasesUnique ==
  \A scene \in Scene :
    (FindScene(Now, scene) /\ FreeSlots(Now, scene) # {}) => NextLease(scene) \notin issued

(* A slot not on lease publishes to no entity and keeps no placement, so   *)
(* the next holder starts from the prefab's state (ClearSlot in            *)
(* ReleaseSlot, StaleHandle for everything after it).                      *)
DormantSlotsClean ==
  \A scene \in Scene, i \in Slot :
    ~slots[scene][i].reserved =>
      slots[scene][i].bound = NoEntities /\ ~slots[scene][i].placed

(* Attached controllers always hold a current lease of an alive or         *)
(* just-closed scene: no sequence of unbinds, resets, releases and stale   *)
(* attaches leaves controllers writing to somebody else's slot.            *)
ControllersHoldLease == \A instance \in controllers : FindSlot(Now, instance.slot)
=============================================================================
