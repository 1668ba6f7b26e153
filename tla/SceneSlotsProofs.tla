-------------------------- MODULE SceneSlotsProofs --------------------------
(***************************************************************************)
(* The lease protocol of the scene slots, proved for any set of scenes,    *)
(* any capacity, generation width and queue length, and any clients.       *)
(***************************************************************************)
EXTENDS SceneSlots, WellFoundedInduction, TLAPS

-----------------------------------------------------------------------------
(* The inductive invariant                                                 *)

(* Only a scene that has been built and not yet erased has leases.         *)
ReservedInv == \A scene \in Scene :
  life[scene] \in {"None", "Pending", "Erased"} => \A i \in Slot : ~slots[scene][i].reserved

(* No handle is issued before its scene is built.                          *)
UnbuiltInv == \A lease \in issued : life[lease.handle.scene] \notin {"None", "Pending"}

(* A lease stands for one of the releases so far; the one whose release is *)
(* still to come is current.                                               *)
LeaseInv == \A lease \in issued :
  LET h == lease.handle IN
  /\ lease.lease <= releases[h.scene][h.slot]
  /\ (life[h.scene] = "Alive" /\ lease.lease = releases[h.scene][h.slot]) =>
       slots[h.scene][h.slot].reserved

(* After n releases a slot's generation is g: it counts 1, ...,            *)
(* GenerationModulus - 1 and starts again.                                 *)
Round(n, g) == \E k \in Nat : n = k * (GenerationModulus - 1) + (g - 1)
GenerationInv ==
  /\ \A scene \in Scene, i \in Slot :
       life[scene] # "Erased" => Round(releases[scene][i], slots[scene][i].generation)
  /\ \A lease \in issued : Round(lease.lease, lease.handle.generation)

CoreInv == /\ DormantSlotsClean /\ ControllersHoldLease
           /\ ReservedInv /\ UnbuiltInv /\ LeaseInv /\ GenerationInv
IndInv == TypeOK /\ CoreInv

-----------------------------------------------------------------------------
(* Arithmetic of slots and generations                                     *)

(* A nonempty set of numbers has a least element.                          *)
LEMMA Smallest ==
  ASSUME NEW T \in SUBSET Nat, T # {}
  PROVE  \E x \in T : \A y \in T : x <= y
<1> DEFINE R == {p \in Nat \X Nat : p[1] < p[2]}
<1>1. IsWellFoundedOn(R, Nat)
  BY NatLessThanWellFounded DEF OpToRel
<1>2. \A x, y \in Nat : y < x => <<y, x>> \in R
  OBVIOUS
<1> HIDE DEF R
<1>3. PICK x \in T : \A y \in T : ~(<<y, x>> \in R)
  BY <1>1, WFMin
<1>4. \A y \in T : ~(y < x)
  BY <1>2, <1>3
<1> QED
  BY <1>4

(* ReserveSlot's search ends at a free slot.                               *)
LEMMA FirstFreeIsFree ==
  ASSUME NEW scene, FreeSlots(Now, scene) # {}
  PROVE  FirstFree(Now, scene) \in FreeSlots(Now, scene)
<1>1. FreeSlots(Now, scene) \in SUBSET Nat
  BY CapacityAssumption DEF FreeSlots, Slot
<1>2. \E i \in FreeSlots(Now, scene) : \A j \in FreeSlots(Now, scene) : i <= j
  BY <1>1, Smallest
<1> QED
  BY <1>2 DEF FirstFree

(* The generation skips 0 and changes.                                     *)
LEMMA NextGenerationType ==
  ASSUME NEW g \in 1 .. GenerationModulus - 1
  PROVE  NextGeneration(g) \in 1 .. GenerationModulus - 1 /\ NextGeneration(g) # g
BY GenerationAssumption DEF NextGeneration

(* One release moves the round by one.                                     *)
LEMMA RoundAdvances ==
  ASSUME NEW n \in Nat, NEW g \in 1 .. GenerationModulus - 1, Round(n, g)
  PROVE  Round(n + 1, NextGeneration(g))
<1> DEFINE m == GenerationModulus - 1
<1>1. m \in Nat
  BY GenerationAssumption
<1>2. PICK k \in Nat : n = k * m + (g - 1)
  BY DEF Round
<1>3. CASE g = m
  <2>1. NextGeneration(g) = 1
    BY <1>3, GenerationAssumption DEF NextGeneration
  <2>2. (k + 1) * m = k * m + m
    BY <1>1
  <2>3. n + 1 = (k + 1) * m + (1 - 1)
    BY <1>1, <1>2, <1>3, <2>2
  <2> QED
    BY <2>1, <2>3 DEF Round
<1>4. CASE g # m
  <2>1. NextGeneration(g) = g + 1
    BY <1>4, GenerationAssumption DEF NextGeneration
  <2>2. n + 1 = k * m + ((g + 1) - 1)
    BY <1>1, <1>2
  <2> QED
    BY <2>1, <2>2 DEF Round
<1> QED
  BY <1>3, <1>4

(* Two counts of the same generation are a whole number of rounds apart.   *)
LEMMA RoundsApart ==
  ASSUME NEW p \in Nat, NEW n \in Nat, NEW g \in 1 .. GenerationModulus - 1,
         Round(p, g), Round(n, g), p < n
  PROVE  n - p >= GenerationModulus - 1
<1> DEFINE m == GenerationModulus - 1
<1>1. m \in Nat /\ m > 0
  BY GenerationAssumption
<1>2. PICK j \in Nat : p = j * m + (g - 1)
  BY DEF Round
<1>3. PICK k \in Nat : n = k * m + (g - 1)
  BY DEF Round
<1> HIDE DEF m
<1>4. j < k
  <2> SUFFICES ASSUME k <= j PROVE FALSE
    OBVIOUS
  <2>1. k * m <= j * m
    BY <1>1
  <2> QED
    BY <1>1, <1>2, <1>3, <2>1
<1>5. k * m >= (j + 1) * m
  BY <1>1, <1>4
<1>6. (j + 1) * m = j * m + m
  BY <1>1
<1>7. j * m \in Nat /\ k * m \in Nat
  BY <1>1
<1>8. n - p >= m
  BY <1>1, <1>2, <1>3, <1>5, <1>6, <1>7
<1> QED
  BY <1>8 DEF m

-----------------------------------------------------------------------------
(* What the operations do to each variable                                 *)

State == [life : [Scene -> {"None", "Pending", "Alive", "Destroying", "Erased"}],
          slots : [Scene -> [Slot -> RuntimeSlot]],
          controllers : SUBSET InstanceHandle, m_commands : Seq(Command),
          draining : Seq(Command), m_nextCommandId : Nat]

(* The state record of SceneOperations holds the variables.                *)
LEMMA NowState ==
  ASSUME TypeOK
  PROVE  /\ Now \in State
         /\ Now.life = life /\ Now.slots = slots /\ Now.controllers = controllers
         /\ Now.m_commands = m_commands /\ Now.draining = draining
         /\ Now.m_nextCommandId = m_nextCommandId
BY DEF TypeOK, Now, State

(* Queueing a command changes the queue only.                              *)
LEMMA SubmitStep ==
  ASSUME TypeOK, NEW type \in Types \union {"Detach"}, NEW handle \in SlotHandle,
         NEW owner \in Owners, NEW entities \in Entities \union {NoEntities},
         Become(Submit(Now, type, [slot |-> handle, generation |-> owner], entities, FALSE))
  PROVE  /\ life' = life /\ slots' = slots /\ controllers' = controllers
         /\ draining' = draining /\ m_nextCommandId' = m_nextCommandId
         /\ m_commands' \in Seq(Command)
<1> DEFINE c == [type |-> type, slot |-> handle, owner |-> owner,
                 entities |-> entities, id |-> NoCommand]
<1>1. c \in Command
  BY DEF Command, NoCommand
<1>2. Submit(Now, type, [slot |-> handle, generation |-> owner], entities, FALSE)
        = [Now EXCEPT !.m_commands = Append(@, c)]
  BY NowState DEF Submit, Enqueue, State
<1>3. Append(m_commands, c) \in Seq(Command)
  BY <1>1 DEF TypeOK
<1> HIDE DEF c
<1> QED
  BY <1>2, <1>3, NowState DEF Become, State

(* CreateScene makes the scene pending and queues its construction.        *)
LEMMA CreateStep ==
  ASSUME TypeOK, NEW scene \in Scene, Become(CreateScene(Now, scene))
  PROVE  /\ life' = [life EXCEPT ![scene] = "Pending"]
         /\ slots' = slots /\ controllers' = controllers
         /\ draining' = draining /\ m_nextCommandId' = m_nextCommandId
         /\ m_commands' \in Seq(Command)
<1> DEFINE c == [type |-> "Create", scene |-> scene]
<1>1. c \in Command
  BY DEF Command
<1>2. Append(m_commands, c) \in Seq(Command)
  BY <1>1 DEF TypeOK
<1> HIDE DEF c
<1> QED
  BY <1>2, NowState DEF Become, State, CreateScene, Enqueue, c

(* DestroyScene closes the scene at once and queues its destruction.       *)
LEMMA DestroyStep ==
  ASSUME TypeOK, NEW scene \in Scene, Become(DestroyScene(Now, scene))
  PROVE  /\ life' = [life EXCEPT ![scene] = "Destroying"]
         /\ slots' = slots /\ controllers' = controllers
         /\ draining' = draining /\ m_nextCommandId' = m_nextCommandId
         /\ m_commands' \in Seq(Command)
<1> DEFINE c == [type |-> "Destroy", scene |-> scene]
<1>1. c \in Command
  BY DEF Command
<1>2. Append(m_commands, c) \in Seq(Command)
  BY <1>1 DEF TypeOK
<1> HIDE DEF c
<1> QED
  BY <1>2, NowState DEF Become, State, DestroyScene, Enqueue, c

(* ReserveSlot marks a free slot and hands out its present generation.     *)
LEMMA ReserveStep ==
  ASSUME TypeOK, NEW scene \in Scene, ClientReserves(scene)
  PROVE  LET first == FirstFree(Now, scene) IN
         /\ first \in Slot /\ ~slots[scene][first].reserved
         /\ life[scene] = "Alive" /\ life' = life
         /\ slots' = [slots EXCEPT ![scene][first].reserved = TRUE]
         /\ controllers' = controllers /\ releases' = releases
         /\ m_commands' = m_commands /\ draining' = draining
         /\ m_nextCommandId' = m_nextCommandId
         /\ issued' = issued \union
              {[handle |-> [scene |-> scene, slot |-> first,
                            generation |-> slots[scene][first].generation],
                lease |-> releases[scene][first]]}
<1> DEFINE first == FirstFree(Now, scene)
<1>1. first \in Slot /\ ~slots[scene][first].reserved
  BY FirstFreeIsFree, NowState DEF ClientReserves, FreeSlots
<1>2. ReservedHandle(Now, scene) = [scene |-> scene, slot |-> first,
                                    generation |-> slots[scene][first].generation]
  BY NowState DEF ReservedHandle
<1>3. issued' = issued \union
        {[handle |-> ReservedHandle(Now, scene),
          lease |-> releases[scene][ReservedHandle(Now, scene).slot]]}
  BY DEF ClientReserves, NextLease
<1>4. ReservedHandle(Now, scene).slot = first
  BY <1>2
<1>5. /\ life' = life /\ slots' = [slots EXCEPT ![scene][first].reserved = TRUE]
      /\ controllers' = controllers
      /\ m_commands' = m_commands /\ draining' = draining
      /\ m_nextCommandId' = m_nextCommandId
  BY NowState DEF ClientReserves, Become, ReserveSlot, State
<1>6. life[scene] = "Alive" /\ releases' = releases
  BY NowState DEF ClientReserves, FindScene
<1> QED
  BY <1>1, <1>2, <1>3, <1>4, <1>5, <1>6

(* The command a tick executes next, and the queue without it.             *)
LEMMA PopStep ==
  ASSUME TypeOK, draining # <<>>
  PROVE  /\ NextCommand(Now) \in Command
         /\ PopCommand(Now) \in State
         /\ PopCommand(Now).life = life /\ PopCommand(Now).slots = slots
         /\ PopCommand(Now).controllers = controllers
         /\ PopCommand(Now).m_commands = m_commands
         /\ PopCommand(Now).draining = Tail(draining)
         /\ PopCommand(Now).m_nextCommandId = m_nextCommandId
<1>1. Head(draining) \in Command /\ Tail(draining) \in Seq(Command)
  BY DEF TypeOK
<1> QED
  BY <1>1, NowState DEF NextCommand, PopCommand, State

SlotCommand == [type : Types \union {"Detach"}, slot : SlotHandle, owner : Owners,
                entities : Entities \union {NoEntities}, id : Nat]

(* A command succeeds only on a current lease of a living scene, and       *)
(* releases one only when no controllers hold it.                          *)
LEMMA SuccessMeansLease ==
  ASSUME NEW s, NEW c, NEW valid, Result(s, c, valid) = "Success"
  PROVE  /\ FindScene(s, c.slot.scene) /\ FindSlot(s, c.slot)
         /\ c.type = "Release" => ~HasControllers(s, c.slot)
BY DEF Result, BlockedByControllers

(* The four kinds of effect of a slot command: none but on controllers'    *)
(* removal, attachment to a current lease, an update within a current      *)
(* lease, and its release.                                                 *)
Keeps(s, t) == /\ t.life = s.life /\ t.m_commands = s.m_commands
               /\ t.draining = s.draining /\ t.m_nextCommandId = s.m_nextCommandId
Removes(s, t) == t.slots = s.slots /\ t.controllers \subseteq s.controllers
Attaches(s, t, c) == /\ FindSlot(s, c.slot) /\ t.slots = s.slots
                     /\ t.controllers \subseteq s.controllers \union {Instance(c)}
Updates(s, t, c) ==
  /\ FindSlot(s, c.slot) /\ t.controllers = s.controllers
  /\ \E slot \in RuntimeSlot :
       /\ slot.reserved /\ slot.generation = c.slot.generation
       /\ t.slots = [s.slots EXCEPT ![c.slot.scene][c.slot.slot] = slot]
Releases(s, t, c) ==
  /\ FindScene(s, c.slot.scene) /\ FindSlot(s, c.slot)
  /\ ~HasControllers(s, c.slot) /\ t.controllers = s.controllers
  /\ \E slot \in RuntimeSlot :
       /\ ~slot.reserved /\ slot.generation = NextGeneration(c.slot.generation)
       /\ ~slot.placed /\ slot.bound = NoEntities
       /\ t.slots = [s.slots EXCEPT ![c.slot.scene][c.slot.slot] = slot]

(* Every slot command has one of these effects.                            *)
LEMMA ExecuteEffect ==
  ASSUME NEW s \in State, NEW c \in SlotCommand, NEW valid \in BOOLEAN
  PROVE  LET t == Execute(s, c, valid)
             released == c.type = "Release" /\ Result(s, c, valid) = "Success"
         IN  /\ Keeps(s, t)
             /\ IF released THEN Releases(s, t, c)
                ELSE Removes(s, t) \/ Attaches(s, t, c) \/ Updates(s, t, c)
<1> DEFINE t == Execute(s, c, valid)
<1>0. c.slot.scene \in Scene /\ c.slot.slot \in Slot
  BY DEF SlotCommand, SlotHandle
<1>1. CASE c.type = "Detach"
  <2>1. t = IF FindScene(s, c.slot.scene) THEN DetachControllers(s, Instance(c)) ELSE s
    BY <1>1 DEF Execute
  <2>2. Keeps(s, t) /\ Removes(s, t)
    BY <2>1 DEF DetachControllers, Keeps, Removes, State
  <2> QED
    BY <1>1, <2>2
<1>2. CASE c.type # "Detach" /\ Result(s, c, valid) # "Success"
  <2>1. t = s
    BY <1>2 DEF Execute
  <2> QED
    BY <1>2, <2>1 DEF Keeps, Removes
<1>3. CASE c.type = "Attach" /\ Result(s, c, valid) = "Success"
  <2>1. t = AttachControllers(s, c)
    BY <1>3 DEF Execute
  <2>2. FindSlot(s, c.slot)
    BY <1>3, SuccessMeansLease
  <2>3. Keeps(s, t) /\ Attaches(s, t, c)
    BY <2>1, <2>2 DEF AttachControllers, Keeps, Attaches, State
  <2> QED
    BY <1>3, <2>3
<1>4. CASE c.type \notin {"Detach", "Attach"} /\ Result(s, c, valid) = "Success"
  <2>1. t = UpdateSlot(s, c)
    BY <1>4 DEF Execute
  <2>2. FindScene(s, c.slot.scene) /\ FindSlot(s, c.slot)
    BY <1>4, SuccessMeansLease
  <2> DEFINE old == s.slots[c.slot.scene][c.slot.slot]
  <2>3. old \in RuntimeSlot /\ old.reserved /\ old.generation = c.slot.generation
    BY <1>0, <2>2 DEF FindSlot, State
  <2>4. CASE c.type = "Release"
    <3> DEFINE new == ReleasedSlot(old)
    <3>1. t = [s EXCEPT !.slots[c.slot.scene][c.slot.slot] = new]
      BY <2>1, <2>4 DEF UpdateSlot
    <3>2. /\ new \in RuntimeSlot
          /\ ~new.reserved /\ new.generation = NextGeneration(c.slot.generation)
          /\ ~new.placed /\ new.bound = NoEntities
      <4>1. /\ ClearSlot(old) \in RuntimeSlot
            /\ ClearSlot(old).generation = c.slot.generation
            /\ ~ClearSlot(old).placed /\ ClearSlot(old).bound = NoEntities
        BY <2>3 DEF ClearSlot, RuntimeSlot
      <4>2. NextGeneration(c.slot.generation) \in 1 .. GenerationModulus - 1
        BY NextGenerationType DEF SlotCommand, SlotHandle
      <4> QED
        BY <4>1, <4>2 DEF ReleasedSlot, RuntimeSlot
    <3> HIDE DEF new
    <3>3. t.slots = [s.slots EXCEPT ![c.slot.scene][c.slot.slot] = new]
      BY <3>1 DEF State
    <3>4. Keeps(s, t) /\ t.controllers = s.controllers
      BY <3>1 DEF Keeps, State
    <3>5. ~HasControllers(s, c.slot)
      BY <1>4, <2>4, SuccessMeansLease
    <3> QED
      BY <1>4, <2>2, <2>4, <3>2, <3>3, <3>4, <3>5 DEF Releases
  <2>5. CASE c.type # "Release"
    <3>1. c.type \in {"Place", "Bind", "Unbind", "Reset"}
      BY <1>4, <2>5 DEF SlotCommand, Types
    <3>2. PICK new \in RuntimeSlot :
            /\ new.reserved /\ new.generation = c.slot.generation
            /\ t = [s EXCEPT !.slots[c.slot.scene][c.slot.slot] = new]
      <4>1. CASE c.type = "Place"
        <5>1. t = [s EXCEPT !.slots[c.slot.scene][c.slot.slot] = [old EXCEPT !.placed = TRUE]]
          BY <2>1, <4>1 DEF UpdateSlot
        <5> QED
          BY <2>3, <5>1 DEF RuntimeSlot
      <4>2. CASE c.type = "Bind"
        <5>1. t = [s EXCEPT !.slots[c.slot.scene][c.slot.slot] = [old EXCEPT !.bound = c.entities]]
          BY <2>1, <4>2 DEF UpdateSlot
        <5> QED
          BY <2>3, <5>1 DEF RuntimeSlot, SlotCommand
      <4>3. CASE c.type = "Unbind"
        <5>1. t = [s EXCEPT !.slots[c.slot.scene][c.slot.slot] = [old EXCEPT !.bound = NoEntities]]
          BY <2>1, <4>3 DEF UpdateSlot
        <5> QED
          BY <2>3, <5>1 DEF RuntimeSlot
      <4>4. CASE c.type = "Reset"
        <5>1. t = [s EXCEPT !.slots[c.slot.scene][c.slot.slot] = ClearSlot(old)]
          BY <2>1, <4>4 DEF UpdateSlot
        <5> QED
          BY <2>3, <5>1 DEF RuntimeSlot, ClearSlot
      <4> QED
        BY <3>1, <4>1, <4>2, <4>3, <4>4
    <3>3. t.slots = [s.slots EXCEPT ![c.slot.scene][c.slot.slot] = new]
      BY <3>2 DEF State
    <3>4. Keeps(s, t) /\ t.controllers = s.controllers
      BY <3>2 DEF Keeps, State
    <3>5. Updates(s, t, c)
      BY <2>2, <3>2, <3>3, <3>4 DEF Updates
    <3> QED
      BY <2>5, <3>4, <3>5
  <2> QED
    BY <2>4, <2>5
<1> QED
  BY <1>1, <1>2, <1>3, <1>4

-----------------------------------------------------------------------------
(* Each kind of effect keeps the invariant                                 *)

(* Nothing changes but controllers being removed.                          *)
LEMMA QuietKeeps ==
  ASSUME IndInv, life' = life, slots' = slots, controllers' \subseteq controllers,
         issued' = issued, releases' = releases
  PROVE  CoreInv'
<1> USE DEF IndInv, CoreInv
<1>1. DormantSlotsClean' /\ ReservedInv' /\ UnbuiltInv'
  BY DEF DormantSlotsClean, ReservedInv, UnbuiltInv
<1>2. ControllersHoldLease'
  BY DEF ControllersHoldLease, FindSlot, Now
<1>3. LeaseInv' /\ GenerationInv'
  BY DEF LeaseInv, GenerationInv
<1> QED
  BY <1>1, <1>2, <1>3

(* A scene moves along its life without losing its slots.                  *)
LEMMA LifeKeeps ==
  ASSUME IndInv, NEW scene \in Scene, NEW new,
         life' = [life EXCEPT ![scene] = new],
         \/ life[scene] = "None" /\ new = "Pending"
         \/ life[scene] \in {"Pending", "Alive"} /\ new = "Destroying"
         \/ life[scene] = "Pending" /\ new \in {"Alive", "Erased"},
         slots' = slots, controllers' = controllers, issued' = issued,
         releases' = releases
  PROVE  CoreInv'
<1> USE DEF IndInv, CoreInv
<1>0. life \in [Scene -> {"None", "Pending", "Alive", "Destroying", "Erased"}]
  BY DEF TypeOK
<1>1. \A lease \in issued : lease.handle.scene \in Scene
  BY DEF TypeOK, SlotHandle
<1>2. DormantSlotsClean'
  BY DEF DormantSlotsClean
<1>3. ControllersHoldLease'
  BY DEF ControllersHoldLease, FindSlot, Now
<1>4. ReservedInv'
  BY <1>0 DEF ReservedInv
<1>5. UnbuiltInv'
  BY <1>0, <1>1 DEF UnbuiltInv
<1>6. LeaseInv'
  BY <1>0, <1>1 DEF LeaseInv, UnbuiltInv
<1>7. GenerationInv'
  BY <1>0 DEF GenerationInv
<1> QED
  BY <1>2, <1>3, <1>4, <1>5, <1>6, <1>7

(* A scene is erased with all it held.                                     *)
LEMMA EraseKeeps ==
  ASSUME IndInv, NEW scene \in Scene,
         life' = [life EXCEPT ![scene] = "Erased"],
         slots' = [slots EXCEPT ![scene] = DormantSlots],
         controllers' = {i \in controllers : i.slot.scene # scene},
         issued' = issued, releases' = releases
  PROVE  CoreInv'
<1> USE DEF IndInv, CoreInv
<1>0. /\ life \in [Scene -> {"None", "Pending", "Alive", "Destroying", "Erased"}]
      /\ slots \in [Scene -> [Slot -> RuntimeSlot]]
      /\ \A lease \in issued : lease.handle.scene \in Scene
      /\ \A i \in controllers : i.slot.scene \in Scene
  BY DEF TypeOK, SlotHandle, InstanceHandle
<1>1. \A i \in Slot : /\ ~slots'[scene][i].reserved
                      /\ slots'[scene][i].bound = NoEntities
                      /\ ~slots'[scene][i].placed
  BY <1>0 DEF DormantSlots, DormantSlot
<1>2. \A other \in Scene : other # scene =>
        slots'[other] = slots[other] /\ life'[other] = life[other]
  BY <1>0
<1>3. life'[scene] = "Erased"
  BY <1>0
<1>4. DormantSlotsClean'
  BY <1>1, <1>2 DEF DormantSlotsClean
<1>5. ControllersHoldLease'
  BY <1>0, <1>2 DEF ControllersHoldLease, FindSlot, Now
<1>6. ReservedInv'
  BY <1>1, <1>2 DEF ReservedInv
<1>7. UnbuiltInv'
  BY <1>0, <1>2, <1>3 DEF UnbuiltInv
<1>8. LeaseInv'
  BY <1>0, <1>2, <1>3 DEF LeaseInv
<1>9. GenerationInv'
  BY <1>2, <1>3 DEF GenerationInv
<1> QED
  BY <1>4, <1>5, <1>6, <1>7, <1>8, <1>9

(* Controllers are attached to a current lease.                            *)
LEMMA AttachKeeps ==
  ASSUME IndInv, NEW instance, FindSlot(Now, instance.slot),
         controllers' \subseteq controllers \union {instance},
         life' = life, slots' = slots, issued' = issued, releases' = releases
  PROVE  CoreInv'
<1> USE DEF IndInv, CoreInv
<1>1. DormantSlotsClean' /\ ReservedInv' /\ UnbuiltInv'
  BY DEF DormantSlotsClean, ReservedInv, UnbuiltInv
<1>2. ControllersHoldLease'
  BY DEF ControllersHoldLease, FindSlot, Now
<1>3. LeaseInv' /\ GenerationInv'
  BY DEF LeaseInv, GenerationInv
<1> QED
  BY <1>1, <1>2, <1>3

(* A slot is updated within its lease.                                     *)
LEMMA UpdateKeeps ==
  ASSUME IndInv, NEW h \in SlotHandle, FindSlot(Now, h), NEW new \in RuntimeSlot,
         new.reserved, new.generation = h.generation,
         slots' = [slots EXCEPT ![h.scene][h.slot] = new],
         life' = life, controllers' = controllers, issued' = issued, releases' = releases
  PROVE  CoreInv'
<1> USE DEF IndInv, CoreInv
<1>0. /\ slots \in [Scene -> [Slot -> RuntimeSlot]]
      /\ h.scene \in Scene /\ h.slot \in Slot
  BY DEF TypeOK, SlotHandle
<1>1. slots[h.scene][h.slot].reserved /\ slots[h.scene][h.slot].generation = h.generation
  BY DEF FindSlot, Now
<1>2. /\ slots'[h.scene][h.slot] = new
      /\ \A scene \in Scene, i \in Slot :
           (scene # h.scene \/ i # h.slot) => slots'[scene][i] = slots[scene][i]
  BY <1>0
<1>3. \A scene \in Scene, i \in Slot :
        /\ slots'[scene][i].reserved = slots[scene][i].reserved
        /\ slots'[scene][i].generation = slots[scene][i].generation
  <2> TAKE scene \in Scene, i \in Slot
  <2>1. CASE scene = h.scene /\ i = h.slot
    <3>1. slots[scene][i].reserved = TRUE /\ new.reserved = TRUE
      BY <1>0, <1>1, <2>1 DEF RuntimeSlot
    <3> QED
      BY <1>1, <1>2, <2>1, <3>1
  <2>2. CASE ~(scene = h.scene /\ i = h.slot)
    BY <1>2, <2>2
  <2> QED
    BY <2>1, <2>2
<1>4. DormantSlotsClean'
  BY <1>0, <1>2 DEF DormantSlotsClean
<1>5. ControllersHoldLease'
  <2>1. \A instance \in controllers :
          instance.slot.scene \in Scene /\ instance.slot.slot \in Slot
    BY DEF TypeOK, SlotHandle, InstanceHandle
  <2> QED
    BY <1>3, <2>1 DEF ControllersHoldLease, FindSlot, Now
<1>6. ReservedInv'
  BY <1>3 DEF ReservedInv
<1>7. UnbuiltInv'
  BY DEF UnbuiltInv
<1>8. LeaseInv'
  <2>1. \A lease \in issued : lease.handle.scene \in Scene /\ lease.handle.slot \in Slot
    BY DEF TypeOK, SlotHandle
  <2> QED
    BY <1>3, <2>1 DEF LeaseInv
<1>9. GenerationInv'
  BY <1>3 DEF GenerationInv
<1> QED
  BY <1>4, <1>5, <1>6, <1>7, <1>8, <1>9

(* A slot that no controllers hold is released: its handle dies with it,   *)
(* because the generation moves on.                                        *)
LEMMA ReleaseKeeps ==
  ASSUME IndInv, NEW h \in SlotHandle, FindScene(Now, h.scene), FindSlot(Now, h),
         ~HasControllers(Now, h), NEW new \in RuntimeSlot, ~new.reserved,
         new.generation = NextGeneration(h.generation),
         ~new.placed, new.bound = NoEntities,
         slots' = [slots EXCEPT ![h.scene][h.slot] = new],
         releases' = [releases EXCEPT ![h.scene][h.slot] = @ + 1],
         life' = life, controllers' = controllers, issued' = issued
  PROVE  CoreInv'
<1> USE DEF IndInv, CoreInv
<1>0. /\ slots \in [Scene -> [Slot -> RuntimeSlot]]
      /\ releases \in [Scene -> [Slot -> Nat]]
      /\ h.scene \in Scene /\ h.slot \in Slot /\ h.generation \in 1 .. GenerationModulus - 1
  BY DEF TypeOK, SlotHandle
<1>1. /\ slots[h.scene][h.slot].reserved /\ slots[h.scene][h.slot].generation = h.generation
      /\ life[h.scene] = "Alive"
  BY DEF FindSlot, FindScene, Now
<1>2. /\ slots'[h.scene][h.slot] = new
      /\ \A scene \in Scene, i \in Slot :
           (scene # h.scene \/ i # h.slot) => slots'[scene][i] = slots[scene][i]
  BY <1>0
<1>3. /\ releases'[h.scene][h.slot] = releases[h.scene][h.slot] + 1
      /\ \A scene \in Scene, i \in Slot :
           (scene # h.scene \/ i # h.slot) => releases'[scene][i] = releases[scene][i]
  BY <1>0
<1>4. DormantSlotsClean'
  BY <1>2 DEF DormantSlotsClean
<1>5. ControllersHoldLease'
  <2> SUFFICES ASSUME NEW instance \in controllers
               PROVE  /\ slots'[instance.slot.scene][instance.slot.slot].reserved
                      /\ slots'[instance.slot.scene][instance.slot.slot].generation
                           = instance.slot.generation
    BY DEF ControllersHoldLease, FindSlot, Now
  <2>1. instance.slot \in SlotHandle /\ instance.slot # h
    BY DEF TypeOK, InstanceHandle, HasControllers, Now
  <2>2. /\ slots[instance.slot.scene][instance.slot.slot].reserved
        /\ slots[instance.slot.scene][instance.slot.slot].generation
             = instance.slot.generation
    BY DEF ControllersHoldLease, FindSlot, Now
  <2>3. instance.slot.scene # h.scene \/ instance.slot.slot # h.slot
    BY <1>1, <2>1, <2>2 DEF SlotHandle
  <2> QED
    BY <1>2, <2>1, <2>2, <2>3 DEF SlotHandle
<1>6. ReservedInv'
  BY <1>0, <1>1, <1>2 DEF ReservedInv
<1>7. UnbuiltInv'
  BY DEF UnbuiltInv
<1>8. LeaseInv'
  <2> SUFFICES ASSUME NEW lease \in issued
               PROVE  LET g == lease.handle IN
                      /\ lease.lease <= releases'[g.scene][g.slot]
                      /\ (life[g.scene] = "Alive" /\ lease.lease = releases'[g.scene][g.slot])
                           => slots'[g.scene][g.slot].reserved
    BY DEF LeaseInv
  <2>1. lease.handle.scene \in Scene /\ lease.handle.slot \in Slot /\ lease.lease \in Nat
    BY DEF TypeOK, SlotHandle
  <2>2. LET g == lease.handle IN
        /\ lease.lease <= releases[g.scene][g.slot]
        /\ (life[g.scene] = "Alive" /\ lease.lease = releases[g.scene][g.slot])
             => slots[g.scene][g.slot].reserved
    BY DEF LeaseInv
  <2>3. CASE lease.handle.scene = h.scene /\ lease.handle.slot = h.slot
    BY <1>0, <1>3, <2>1, <2>2, <2>3
  <2>4. CASE ~(lease.handle.scene = h.scene /\ lease.handle.slot = h.slot)
    BY <1>2, <1>3, <2>1, <2>2, <2>4
  <2> QED
    BY <2>3, <2>4
<1>9. GenerationInv'
  <2>1. Round(releases[h.scene][h.slot], h.generation)
    BY <1>0, <1>1 DEF GenerationInv
  <2>2. Round(releases[h.scene][h.slot] + 1, NextGeneration(h.generation))
    BY <1>0, <2>1, RoundAdvances
  <2> QED
    BY <1>2, <1>3, <2>2 DEF GenerationInv
<1> QED
  BY <1>4, <1>5, <1>6, <1>7, <1>8, <1>9

(* A new lease is given out.                                               *)
LEMMA ReserveKeeps ==
  ASSUME IndInv, NEW scene \in Scene, ClientReserves(scene)
  PROVE  CoreInv'
<1> USE DEF IndInv, CoreInv
<1> DEFINE first == FirstFree(Now, scene)
           handle == [scene |-> scene, slot |-> first,
                      generation |-> slots[scene][first].generation]
           fresh == [handle |-> handle, lease |-> releases[scene][first]]
<1>1. /\ first \in Slot /\ ~slots[scene][first].reserved
      /\ life[scene] = "Alive" /\ life' = life
      /\ slots' = [slots EXCEPT ![scene][first].reserved = TRUE]
      /\ controllers' = controllers /\ releases' = releases
      /\ issued' = issued \union {fresh}
  BY ReserveStep
<1> HIDE DEF first
<1>0. /\ slots \in [Scene -> [Slot -> RuntimeSlot]]
      /\ releases \in [Scene -> [Slot -> Nat]]
      /\ \A lease \in issued : lease.handle.scene \in Scene /\ lease.handle.slot \in Slot
      /\ \A instance \in controllers :
           instance.slot.scene \in Scene /\ instance.slot.slot \in Slot
  BY DEF TypeOK, SlotHandle, InstanceHandle
<1>2. /\ slots'[scene][first].reserved
      /\ slots'[scene][first].generation = slots[scene][first].generation
      /\ \A other \in Scene, i \in Slot :
           (other # scene \/ i # first) => slots'[other][i] = slots[other][i]
  BY <1>0, <1>1 DEF RuntimeSlot
<1>5. DormantSlotsClean'
  BY <1>2 DEF DormantSlotsClean
<1>6. ControllersHoldLease'
  <2> SUFFICES ASSUME NEW instance \in controllers
               PROVE  /\ slots'[instance.slot.scene][instance.slot.slot].reserved
                      /\ slots'[instance.slot.scene][instance.slot.slot].generation
                           = instance.slot.generation
    BY <1>1 DEF ControllersHoldLease, FindSlot, Now
  <2>1. /\ slots[instance.slot.scene][instance.slot.slot].reserved
        /\ slots[instance.slot.scene][instance.slot.slot].generation
             = instance.slot.generation
    BY DEF ControllersHoldLease, FindSlot, Now
  <2>2. instance.slot.scene # scene \/ instance.slot.slot # first
    BY <1>1, <2>1
  <2> QED
    BY <1>0, <1>2, <2>1, <2>2
<1>7. ReservedInv'
  BY <1>1, <1>2 DEF ReservedInv
<1>8. UnbuiltInv'
  BY <1>1 DEF UnbuiltInv
<1>9. LeaseInv'
  <2>1. \A lease \in issued :
          LET g == lease.handle IN
          /\ lease.lease <= releases[g.scene][g.slot]
          /\ (life[g.scene] = "Alive" /\ lease.lease = releases[g.scene][g.slot])
               => slots'[g.scene][g.slot].reserved
    BY <1>0, <1>2 DEF LeaseInv
  <2>2. /\ fresh.lease <= releases[scene][first]
        /\ slots'[scene][first].reserved
    BY <1>0, <1>1, <1>2
  <2> QED
    BY <1>1, <2>1, <2>2 DEF LeaseInv
<1>10. GenerationInv'
  <2>1. Round(releases[scene][first], slots[scene][first].generation)
    BY <1>1 DEF GenerationInv
  <2>2. \A lease \in issued' : Round(lease.lease, lease.handle.generation)
    BY <1>1, <2>1 DEF GenerationInv
  <2>3. \A other \in Scene, i \in Slot :
          life[other] # "Erased" => Round(releases[other][i], slots'[other][i].generation)
    BY <1>2 DEF GenerationInv
  <2> QED
    BY <1>1, <2>2, <2>3 DEF GenerationInv
<1> QED
  BY <1>5, <1>6, <1>7, <1>8, <1>9, <1>10

-----------------------------------------------------------------------------
(* One command of a tick keeps the invariant.                              *)
LEMMA ProcessKeeps ==
  ASSUME IndInv, NEW valid \in BOOLEAN, ProcessNext(valid)
  PROVE  IndInv'
<1> DEFINE c == NextCommand(Now)
           s == PopCommand(Now)
           t == Process(Now, valid)
<1>a. TypeOK
  BY DEF IndInv
<1>1. /\ c \in Command /\ s \in State
      /\ s.life = life /\ s.slots = slots /\ s.controllers = controllers
      /\ s.m_commands = m_commands /\ s.draining = Tail(draining)
      /\ s.m_nextCommandId = m_nextCommandId
  BY <1>a, PopStep DEF ProcessNext
<1>2. Tail(draining) \in Seq(Command)
  BY <1>a DEF TypeOK, ProcessNext
<1>3. /\ life' = t.life /\ slots' = t.slots /\ controllers' = t.controllers
      /\ m_commands' = t.m_commands /\ draining' = t.draining
      /\ m_nextCommandId' = t.m_nextCommandId /\ issued' = issued
  BY DEF ProcessNext, Become
<1>4. releases' = IF c.type = "Release" /\ Result(s, c, valid) = "Success"
                  THEN [releases EXCEPT ![c.slot.scene][c.slot.slot] = @ + 1]
                  ELSE releases
  BY DEF ProcessNext
<1> HIDE DEF c, s, t
<1>5. CASE c.type = "Create"
  <2>0. c.scene \in Scene
    BY <1>1, <1>5 DEF Command, Types
  <2>1. t = ProcessCreate(s, c, valid)
    BY <1>5 DEF t, c, s, Process
  <2>2. CASE s.life[c.scene] # "Pending"
    <3>1. t = s
      BY <2>1, <2>2 DEF ProcessCreate
    <3>2. CoreInv'
      BY <1>1, <1>3, <1>4, <1>5, <3>1, QuietKeeps
    <3> QED
      BY <1>a, <1>1, <1>2, <1>3, <1>4, <1>5, <3>1, <3>2 DEF IndInv, TypeOK
  <2>3. CASE s.life[c.scene] = "Pending"
    <3> DEFINE new == IF valid THEN "Alive" ELSE "Erased"
    <3>1. t = [s EXCEPT !.life[c.scene] = new]
      BY <2>1, <2>3 DEF ProcessCreate
    <3>2. /\ t.life = [life EXCEPT ![c.scene] = new]
          /\ t.slots = slots /\ t.controllers = controllers
          /\ t.m_commands = m_commands /\ t.draining = Tail(draining)
          /\ t.m_nextCommandId = m_nextCommandId
      BY <1>1, <3>1 DEF State
    <3>3. new \in {"Alive", "Erased"}
      OBVIOUS
    <3> HIDE DEF new
    <3>4. CoreInv'
      BY <1>1, <1>3, <1>4, <1>5, <2>0, <2>3, <3>2, <3>3, LifeKeeps
    <3> QED
      BY <1>a, <1>2, <1>3, <1>4, <1>5, <2>0, <3>2, <3>3, <3>4 DEF IndInv, TypeOK
  <2> QED
    BY <2>2, <2>3
<1>6. CASE c.type = "Destroy"
  <2>0. c.scene \in Scene
    BY <1>1, <1>6 DEF Command, Types
  <2>1. t = ProcessDestroy(s, c)
    BY <1>6 DEF t, c, s, Process
  <2>2. /\ t.life = [life EXCEPT ![c.scene] = "Erased"]
        /\ t.slots = [slots EXCEPT ![c.scene] = DormantSlots]
        /\ t.controllers = {i \in controllers : i.slot.scene # c.scene}
        /\ t.m_commands = m_commands /\ t.draining = Tail(draining)
        /\ t.m_nextCommandId = m_nextCommandId
    BY <1>1, <2>1 DEF ProcessDestroy, State
  <2>3. CoreInv'
    BY <1>3, <1>4, <1>6, <2>0, <2>2, EraseKeeps
  <2>4. DormantSlots \in [Slot -> RuntimeSlot]
    BY GenerationAssumption DEF DormantSlots, DormantSlot, RuntimeSlot
  <2> QED
    BY <1>a, <1>2, <1>3, <1>4, <1>6, <2>0, <2>2, <2>3, <2>4 DEF IndInv, TypeOK
<1>7. CASE c.type \notin {"Create", "Destroy"}
  <2>0. c \in SlotCommand /\ c.slot \in SlotHandle
    BY <1>1, <1>7 DEF Command, SlotCommand
  <2>1. t = Execute(s, c, valid)
    BY <1>7 DEF t, c, s, Process
  <2>2. /\ Keeps(s, t)
        /\ IF c.type = "Release" /\ Result(s, c, valid) = "Success" THEN Releases(s, t, c)
           ELSE Removes(s, t) \/ Attaches(s, t, c) \/ Updates(s, t, c)
    BY <1>1, <2>0, <2>1, ExecuteEffect
  <2>3. /\ life' = life /\ m_commands' = m_commands /\ draining' = Tail(draining)
        /\ m_nextCommandId' = m_nextCommandId
    BY <1>1, <1>3, <2>2 DEF Keeps
  <2>4. /\ FindSlot(s, c.slot) <=> FindSlot(Now, c.slot)
        /\ FindScene(s, c.slot.scene) <=> FindScene(Now, c.slot.scene)
        /\ HasControllers(s, c.slot) <=> HasControllers(Now, c.slot)
    BY <1>a, <1>1, NowState DEF FindSlot, FindScene, HasControllers
  <2>5. c.slot.scene \in Scene /\ c.slot.slot \in Slot
    BY <2>0 DEF SlotHandle
  <2>6. CASE c.type = "Release" /\ Result(s, c, valid) = "Success"
    <3>1. Releases(s, t, c)
      BY <2>2, <2>6
    <3>2. releases' = [releases EXCEPT ![c.slot.scene][c.slot.slot] = @ + 1]
      BY <1>4, <2>6
    <3>3. PICK new \in RuntimeSlot :
            /\ ~new.reserved /\ new.generation = NextGeneration(c.slot.generation)
            /\ ~new.placed /\ new.bound = NoEntities
            /\ slots' = [slots EXCEPT ![c.slot.scene][c.slot.slot] = new]
      BY <1>1, <1>3, <3>1 DEF Releases
    <3>4. controllers' = controllers
      BY <1>1, <1>3, <3>1 DEF Releases
    <3>5. CoreInv'
      BY <1>3, <2>0, <2>3, <2>4, <3>1, <3>2, <3>3, <3>4, ReleaseKeeps DEF Releases
    <3>6. releases' \in [Scene -> [Slot -> Nat]]
      BY <1>a, <2>5, <3>2 DEF TypeOK
    <3>7. slots' \in [Scene -> [Slot -> RuntimeSlot]]
      BY <1>a, <2>5, <3>3 DEF TypeOK
    <3> QED
      BY <1>a, <1>2, <1>3, <2>3, <3>4, <3>5, <3>6, <3>7 DEF IndInv, TypeOK
  <2>7. CASE ~(c.type = "Release" /\ Result(s, c, valid) = "Success")
    <3>1. releases' = releases
      BY <1>4, <2>7
    <3>2. CASE Removes(s, t)
      <4>1. slots' = slots /\ controllers' \subseteq controllers
        BY <1>1, <1>3, <3>2 DEF Removes
      <4>2. CoreInv'
        BY <1>3, <2>3, <3>1, <4>1, QuietKeeps
      <4> QED
        BY <1>a, <1>2, <1>3, <2>3, <3>1, <4>1, <4>2 DEF IndInv, TypeOK
    <3>3. CASE Attaches(s, t, c)
      <4>1. slots' = slots /\ controllers' \subseteq controllers \union {Instance(c)}
        BY <1>1, <1>3, <3>3 DEF Attaches
      <4>2. Instance(c) \in InstanceHandle /\ Instance(c).slot = c.slot
        BY <2>0 DEF Instance, InstanceHandle, SlotCommand
      <4>3. FindSlot(Now, Instance(c).slot)
        BY <2>4, <3>3, <4>2 DEF Attaches
      <4>4. CoreInv'
        BY <1>3, <2>3, <3>1, <4>1, <4>3, AttachKeeps
      <4> QED
        BY <1>a, <1>2, <1>3, <2>3, <3>1, <4>1, <4>2, <4>4 DEF IndInv, TypeOK
    <3>4. CASE Updates(s, t, c)
      <4>1. PICK new \in RuntimeSlot :
              /\ new.reserved /\ new.generation = c.slot.generation
              /\ slots' = [slots EXCEPT ![c.slot.scene][c.slot.slot] = new]
        BY <1>1, <1>3, <3>4 DEF Updates
      <4>2. controllers' = controllers
        BY <1>1, <1>3, <3>4 DEF Updates
      <4>3. CoreInv'
        BY <1>3, <2>0, <2>3, <2>4, <3>1, <3>4, <4>1, <4>2, UpdateKeeps DEF Updates
      <4>4. slots' \in [Scene -> [Slot -> RuntimeSlot]]
        BY <1>a, <2>5, <4>1 DEF TypeOK
      <4> QED
        BY <1>a, <1>2, <1>3, <2>3, <3>1, <4>2, <4>3, <4>4 DEF IndInv, TypeOK
    <3> QED
      BY <2>2, <2>7, <3>2, <3>3, <3>4
  <2> QED
    BY <2>6, <2>7
<1> QED
  BY <1>5, <1>6, <1>7

(* Nothing exists yet.                                                     *)
LEMMA InitInv == Init => IndInv
<1> SUFFICES ASSUME Init PROVE IndInv
  OBVIOUS
<1>1. DormantSlot \in RuntimeSlot
  BY GenerationAssumption DEF DormantSlot, RuntimeSlot
<1>2. <<>> \in Seq(Command)
  OBVIOUS
<1>3. TypeOK
  BY <1>1, <1>2 DEF Init, TypeOK, DormantSlots
<1>4. \A scene \in Scene, i \in Slot : slots[scene][i] = DormantSlot
  BY DEF Init, DormantSlots
<1>5. DormantSlotsClean /\ ReservedInv
  BY <1>4 DEF DormantSlotsClean, ReservedInv, DormantSlot
<1>6. ControllersHoldLease /\ UnbuiltInv /\ LeaseInv
  BY DEF Init, ControllersHoldLease, UnbuiltInv, LeaseInv
<1>7. Round(0, 1)
  <2>1. 0 = 0 * (GenerationModulus - 1) + (1 - 1)
    BY GenerationAssumption
  <2> QED
    BY <2>1 DEF Round
<1>8. GenerationInv
  BY <1>4, <1>7 DEF Init, GenerationInv, DormantSlot
<1> QED
  BY <1>3, <1>5, <1>6, <1>8 DEF IndInv, CoreInv

(* Every step keeps the invariant.                                         *)
LEMMA StepInv == IndInv /\ [Next]_vars => IndInv'
<1> SUFFICES ASSUME IndInv, [Next]_vars PROVE IndInv'
  OBVIOUS
<1>a. TypeOK
  BY DEF IndInv
<1>b. Handles \in SUBSET SlotHandle
  BY <1>a DEF Handles, TypeOK
<1>1. ASSUME NEW scene \in Scene, ClientCreatesScene(scene) PROVE IndInv'
  <2>1. /\ life[scene] = "None" /\ issued' = issued /\ releases' = releases
        /\ Become(CreateScene(Now, scene))
    BY <1>1 DEF ClientCreatesScene
  <2>2. /\ life' = [life EXCEPT ![scene] = "Pending"]
        /\ slots' = slots /\ controllers' = controllers
        /\ draining' = draining /\ m_nextCommandId' = m_nextCommandId
        /\ m_commands' \in Seq(Command)
    BY <1>a, <2>1, CreateStep
  <2>3. CoreInv'
    BY <2>1, <2>2, LifeKeeps
  <2> QED
    BY <1>a, <2>1, <2>2, <2>3 DEF IndInv, TypeOK
<1>2. ASSUME NEW scene \in Scene, ClientDestroysScene(scene) PROVE IndInv'
  <2>1. /\ life[scene] \in {"Pending", "Alive"} /\ issued' = issued /\ releases' = releases
        /\ Become(DestroyScene(Now, scene))
    BY <1>2 DEF ClientDestroysScene
  <2>2. /\ life' = [life EXCEPT ![scene] = "Destroying"]
        /\ slots' = slots /\ controllers' = controllers
        /\ draining' = draining /\ m_nextCommandId' = m_nextCommandId
        /\ m_commands' \in Seq(Command)
    BY <1>a, <2>1, DestroyStep
  <2>3. CoreInv'
    BY <2>1, <2>2, LifeKeeps
  <2> QED
    BY <1>a, <2>1, <2>2, <2>3 DEF IndInv, TypeOK
<1>3. ASSUME NEW scene \in Scene, ClientReserves(scene) PROVE IndInv'
  <2>1. CoreInv'
    BY <1>3, ReserveKeeps
  <2> DEFINE first == FirstFree(Now, scene)
             handle == [scene |-> scene, slot |-> first,
                        generation |-> slots[scene][first].generation]
  <2>2. /\ first \in Slot /\ life' = life
        /\ slots' = [slots EXCEPT ![scene][first].reserved = TRUE]
        /\ controllers' = controllers /\ releases' = releases
        /\ m_commands' = m_commands /\ draining' = draining
        /\ m_nextCommandId' = m_nextCommandId
        /\ issued' = issued \union {[handle |-> handle, lease |-> releases[scene][first]]}
    BY <1>a, <1>3, ReserveStep
  <2> HIDE DEF first
  <2>3. slots' \in [Scene -> [Slot -> RuntimeSlot]]
    <3>1. slots[scene][first] \in RuntimeSlot
      BY <1>a, <2>2 DEF TypeOK
    <3>2. [slots[scene][first] EXCEPT !.reserved = TRUE] \in RuntimeSlot
      BY <3>1 DEF RuntimeSlot
    <3> QED
      BY <1>a, <2>2, <3>2 DEF TypeOK
  <2>4. handle \in SlotHandle /\ releases[scene][first] \in Nat
    BY <1>a, <2>2 DEF TypeOK, RuntimeSlot, SlotHandle
  <2> HIDE DEF handle
  <2> QED
    BY <1>a, <2>1, <2>2, <2>3, <2>4 DEF IndInv, TypeOK
<1>4. ASSUME NEW handle \in Handles, NEW owner \in Owners, NEW type \in Types,
             NEW entities \in Carried(type), ClientSubmits(type, handle, owner, entities)
      PROVE  IndInv'
  <2>1. entities \in Entities \union {NoEntities}
    BY <1>4 DEF Carried
  <2>2. /\ Become(Submit(Now, type, [slot |-> handle, generation |-> owner], entities, FALSE))
        /\ issued' = issued /\ releases' = releases
    BY <1>4 DEF ClientSubmits
  <2>3. /\ life' = life /\ slots' = slots /\ controllers' = controllers
        /\ draining' = draining /\ m_nextCommandId' = m_nextCommandId
        /\ m_commands' \in Seq(Command)
    BY <1>a, <1>b, <2>1, <2>2, SubmitStep
  <2>4. CoreInv'
    BY <2>2, <2>3, QuietKeeps
  <2> QED
    BY <1>a, <2>2, <2>3, <2>4 DEF IndInv, TypeOK
<1>5. ASSUME NEW handle \in Handles, NEW owner \in Owners, NEW closes \in BOOLEAN,
             ClientSubmitsDetach(handle, owner, closes)
      PROVE  IndInv'
  <2>1. /\ Become(Submit(Now, "Detach", [slot |-> handle, generation |-> owner],
                         NoEntities, FALSE))
        /\ issued' = issued /\ releases' = releases
    BY <1>5 DEF ClientSubmitsDetach
  <2>2. /\ life' = life /\ slots' = slots /\ controllers' = controllers
        /\ draining' = draining /\ m_nextCommandId' = m_nextCommandId
        /\ m_commands' \in Seq(Command)
    BY <1>a, <1>b, <2>1, SubmitStep
  <2>3. CoreInv'
    BY <2>1, <2>2, QuietKeeps
  <2> QED
    BY <1>a, <2>1, <2>2, <2>3 DEF IndInv, TypeOK
<1>6. ASSUME NEW handle \in Handles, NEW owner \in Owners,
             ClientDestroysControllers(handle, owner)
      PROVE  IndInv'
  <2>1. /\ life' = life /\ slots' = slots /\ controllers' \subseteq controllers
        /\ m_commands' = m_commands /\ draining' = draining
        /\ m_nextCommandId' = m_nextCommandId /\ issued' = issued /\ releases' = releases
    BY <1>a, <1>6, NowState DEF ClientDestroysControllers, Become, State,
       DestroyControllersImmediately, DetachControllers
  <2>2. CoreInv'
    BY <2>1, QuietKeeps
  <2> QED
    BY <1>a, <2>1, <2>2 DEF IndInv, TypeOK
<1>7. ASSUME OnTick PROVE IndInv'
  <2>1. /\ life' = life /\ slots' = slots /\ controllers' = controllers
        /\ m_commands' = <<>> /\ draining' = m_commands
        /\ m_nextCommandId' = m_nextCommandId /\ issued' = issued /\ releases' = releases
    BY <1>a, <1>7, NowState DEF OnTick, Become, SwapCommands, State
  <2>2. CoreInv'
    BY <2>1, QuietKeeps
  <2>3. <<>> \in Seq(Command)
    OBVIOUS
  <2> QED
    BY <1>a, <2>1, <2>2, <2>3 DEF IndInv, TypeOK
<1>8. ASSUME NEW valid \in BOOLEAN, ProcessNext(valid) PROVE IndInv'
  BY <1>8, ProcessKeeps
<1>9. CASE UNCHANGED vars
  <2>1. CoreInv'
    BY <1>9, QuietKeeps DEF vars
  <2> QED
    BY <1>a, <1>9, <2>1 DEF vars, IndInv, TypeOK
<1> QED
  BY <1>1, <1>2, <1>3, <1>4, <1>5, <1>6, <1>7, <1>8, <1>9 DEF Next

(* The lease invariant holds for arbitrary clients: what a slot's previous *)
(* holders queue, repeat or keep never matters to the present one.         *)
THEOREM SlotInvariant == Spec => []IndInv
<1>1. Init => IndInv
  BY InitInv
<1>2. IndInv /\ [Next]_vars => IndInv'
  BY StepInv
<1> QED
  BY <1>1, <1>2, PTL DEF Spec

(* Types; no generation is ever 0 (ReleaseSlot).                           *)
THEOREM SlotTypes == Spec => []TypeOK
<1>1. IndInv => TypeOK
  BY DEF IndInv
<1> QED
  BY <1>1, SlotInvariant, PTL

(* Slots not on lease are clean, for any capacity (ClearSlot).             *)
THEOREM DormantSlotsStayClean == Spec => []DormantSlotsClean
<1>1. IndInv => DormantSlotsClean
  BY DEF IndInv, CoreInv
<1> QED
  BY <1>1, SlotInvariant, PTL

(* Controllers never outlive the lease they were attached under            *)
(* (HasControllers in UnbindSlot, ResetSlot and ReleaseSlot).              *)
THEOREM ControllersNeverOutliveLease == Spec => []ControllersHoldLease
<1>1. IndInv => ControllersHoldLease
  BY DEF IndInv, CoreInv
<1> QED
  BY <1>1, SlotInvariant, PTL

(* A handle of an ended lease stays refused until the slot's generation    *)
(* has gone all the way round (FindSlot), for any generation width.        *)
THEOREM EndedLeasesRefused == Spec => []EndedLeasesStayEnded
<1>1. IndInv => EndedLeasesStayEnded
  <2> SUFFICES ASSUME IndInv, NEW lease \in issued,
                      releases[lease.handle.scene][lease.handle.slot] - lease.lease > 0,
                      FindSlot(Now, lease.handle)
               PROVE  ~(releases[lease.handle.scene][lease.handle.slot] - lease.lease
                          < GenerationModulus - 1)
    BY DEF EndedLeasesStayEnded
  <2> DEFINE h == lease.handle
             n == releases[h.scene][h.slot]
  <2>1. /\ h.scene \in Scene /\ h.slot \in Slot /\ lease.lease \in Nat
        /\ h.generation \in 1 .. GenerationModulus - 1 /\ n \in Nat
    BY DEF IndInv, TypeOK, SlotHandle
  <2>2. slots[h.scene][h.slot].reserved /\ slots[h.scene][h.slot].generation = h.generation
    BY DEF FindSlot, Now
  <2>3. Round(n, h.generation)
    BY <2>1, <2>2 DEF IndInv, CoreInv, ReservedInv, GenerationInv
  <2>4. Round(lease.lease, h.generation)
    BY DEF IndInv, CoreInv, GenerationInv
  <2>5. lease.lease < n
    BY <2>1
  <2>6. n - lease.lease >= GenerationModulus - 1
    BY <2>1, <2>3, <2>4, <2>5, RoundsApart
  <2> QED
    BY <2>1, <2>6, GenerationAssumption
<1> QED
  BY <1>1, SlotInvariant, PTL

(* A reservation is a lease nobody has been given before (ReserveSlot).    *)
THEOREM LeasesAreUnique == Spec => []LeasesUnique
<1>1. IndInv => LeasesUnique
  <2> SUFFICES ASSUME IndInv, NEW scene \in Scene, FindScene(Now, scene),
                      FreeSlots(Now, scene) # {}, NextLease(scene) \in issued
               PROVE  FALSE
    BY DEF LeasesUnique
  <2> DEFINE first == FirstFree(Now, scene)
             next == NextLease(scene)
  <2>1. first \in Slot /\ ~slots[scene][first].reserved /\ life[scene] = "Alive"
    BY FirstFreeIsFree, NowState DEF FreeSlots, FindScene, IndInv
  <2>2. /\ next.handle.scene = scene /\ next.handle.slot = first
        /\ next.lease = releases[scene][first]
    BY DEF NextLease, ReservedHandle
  <2> QED
    BY <2>1, <2>2 DEF IndInv, CoreInv, LeaseInv
<1> QED
  BY <1>1, SlotInvariant, PTL
=============================================================================
