--------------------------- MODULE ControllerRuntime ---------------------------
(***************************************************************************)
(* The controllers of one SceneInstance: declarations attached to a leased *)
(* slot (each in a partition of its own), target tokens into a recycled    *)
(* table, the batches that run the controllers, and the command sinks      *)
(* handed to their callbacks.                                              *)
(*                                                                         *)
(* While a callback (CreateController, SubmitInput, FixedStepBatch) runs,  *)
(* its controllers may issue commands through its sink; they do not submit *)
(* input themselves.  Attaching and detaching go through the command queue *)
(* and find no callback in progress.  A sink is copyable: a copy kept      *)
(* after the callback still carries the runtime and the epoch.             *)
(***************************************************************************)
EXTENDS Integers, FiniteSetsExt, SequencesExt

CONSTANTS
    Slot,               \* the slots of the scene
    Node,               \* the runtime nodes
    NodesOf,            \* slot -> its nodes
    Type,               \* controller types
    Declarations,       \* slot -> the declaration sequences attached to it
    Kind,               \* what a command sets: the local transform, the motion
    Value,              \* the values commands set; 0 is the initial one
    None,               \* no value
    HandleWidth,        \* m_nextControllerHandle is a number mod this
    MaxLease,           \* bound: slot -> its leases
    MaxEpoch,           \* bound: callbacks explored
    MaxCommands         \* bound: commands issued in one callback

(* A declaration sequence is one the sort of AttachControllers leaves as it *)
(* is; a declaration names its type and the nodes it reads and writes.     *)
Declaration == [type : Type, targets : Seq([node : Node, access : {"ReadOnly", "ReadWrite"}])]

ASSUME ControllerAssumption ==
    /\ NodesOf \in [Slot -> SUBSET Node]
    /\ \A s, t \in Slot : s # t => NodesOf[s] \intersect NodesOf[t] = {}
    /\ \A s \in Slot : Declarations[s] \subseteq Seq(Declaration)
    /\ 0 \in Value /\ None \notin Value /\ HandleWidth \in Nat \ {0, 1}
    /\ 0 \notin Node   \* INVALID_NODE

VARIABLES
    slots,          \* slot -> [reserved, generation]
    rt,             \* the controller fields of SceneInstance, and the nodes' values
    frame,          \* the callback in progress, if any
    m_controllerFactories,
    issued,         \* tokens ever handed out, with the node each was for
    retired,        \* handles of destroyed controllers
    inexact         \* the kinds of callbacks that did not apply just what they were granted

vars == <<slots, rt, frame, m_controllerFactories, issued, retired, inexact>>

INVALID == 0        \* INVALID_NODE, and no write owner

NoWrites == [k \in Kind |-> [n \in Node |-> None]]
Frame(kind, epoch) == [kind |-> kind, epoch |-> epoch, writes |-> NoWrites, commands |-> 0,
                       instance |-> None, todo |-> <<>>, tokens |-> <<>>]
NoFrame == Frame("none", 0)

Init ==
    /\ slots = [s \in Slot |-> [reserved |-> FALSE, generation |-> 1]]
    /\ rt = [targets |-> <<>>, free |-> <<>>, owners |-> [n \in Node |-> INVALID],
             controllers |-> {}, batches |-> {}, touched |-> [k \in Kind |-> <<>>],
             epoch |-> 1, nextHandle |-> 1, handleGeneration |-> 1,
             value |-> [k \in Kind |-> [n \in Node |-> 0]]]
    /\ frame = NoFrame
    /\ m_controllerFactories = {}
    /\ issued = {} /\ retired = {} /\ inexact = {}

--------------------------------------------------------------------------------
(* Finding things.                                                          *)

Instance(slot) == [slot |-> slot, generation |-> slots[slot].generation]
ControllersOf(r, instance) == {c \in r.controllers : c.instance = instance}
HasControllers(slot) == \E c \in rt.controllers : c.instance.slot = slot

FindSlot(instance) ==
    slots[instance.slot].reserved /\ slots[instance.slot].generation = instance.generation

(* The token still fits the target it was given for.                        *)
Current(r, token) ==
    /\ token.index \in DOMAIN r.targets
    /\ r.targets[token.index].active
    /\ r.targets[token.index].generation = token.generation

FindControllerTarget(r, token, epoch) == epoch = r.epoch /\ Current(r, token)

--------------------------------------------------------------------------------
(* Targets.                                                                 *)

(* The index the next target gets.                                         *)
NextTarget(r) == IF r.free = <<>> THEN Len(r.targets) + 1 ELSE Last(r.free)

(* Each of the two takes the runtime and gives it back changed.             *)
AllocateControllerTarget(r, target) ==
    LET fresh == r.free = <<>>
        index == NextTarget(r)
        generation == IF fresh THEN 1 ELSE r.targets[index].generation
        record == [node |-> target.node, access |-> target.access, active |-> TRUE,
                   generation |-> generation,
                   pending |-> [k \in Kind |-> 0], pendingEpoch |-> [k \in Kind |-> 0]]
    IN  [r EXCEPT !.targets = IF fresh THEN Append(@, record) ELSE [@ EXCEPT ![index] = record],
                  !.free = IF fresh THEN @ ELSE Front(@),
                  !.owners[target.node] = IF target.access = "ReadWrite" THEN index ELSE @]

(* A released target: its generation moves on, so that no token fits it.   *)
Released(record) == [record EXCEPT !.active = FALSE, !.node = INVALID, !.generation = @ + 1]

(* A release that leaves the write owner of the node.                      *)
ReleaseKeepingOwner(r, token) ==
    IF Current(r, token)
    THEN [r EXCEPT !.targets[token.index] = Released(@), !.free = Append(@, token.index)]
    ELSE r

(* A release after which old tokens fit the recycled target.               *)
ReleaseSameGeneration(r, token) ==
    LET record == r.targets[token.index]
    IN  IF Current(r, token)
        THEN [r EXCEPT !.owners = IF record.access = "ReadWrite"
                                  THEN [@ EXCEPT ![record.node] = INVALID] ELSE @,
                       !.targets[token.index] = [@ EXCEPT !.active = FALSE, !.node = INVALID],
                       !.free = Append(@, token.index)]
        ELSE r

ReleaseControllerTarget(r, token) ==
    LET record == r.targets[token.index]
    IN  IF Current(r, token)
        THEN [r EXCEPT !.owners = IF record.access = "ReadWrite" /\ @[record.node] = token.index
                                  THEN [@ EXCEPT ![record.node] = INVALID] ELSE @,
                       !.targets[token.index] = Released(@),
                       !.free = Append(@, token.index)]
        ELSE r

(* The targets of one declaration in their order, and the tokens they are   *)
(* given.                                                                   *)
AllocateAll(r, targets) ==
    LET allocated[i \in 0 .. Len(targets)] ==
          IF i = 0 THEN [rt |-> r, tokens |-> <<>>]
          ELSE LET a == allocated[i - 1]
                   index == NextTarget(a.rt)
                   next == AllocateControllerTarget(a.rt, targets[i])
               IN  [rt |-> next,
                    tokens |-> Append(a.tokens,
                                 [index |-> index, generation |-> next.targets[index].generation])]
    IN  allocated[Len(targets)]

(* The tokens of one controller, released in their order.                   *)
ReleaseAll(r, tokens) ==
    LET released[i \in 0 .. Len(tokens)] ==
          IF i = 0 THEN r ELSE ReleaseControllerTarget(released[i - 1], tokens[i])
    IN  released[Len(tokens)]

--------------------------------------------------------------------------------
(* Command epochs.                                                          *)

(* A new epoch that keeps what an earlier callback left.                   *)
BeginKeepingCommands(r) == [r EXCEPT !.epoch = @ + 1]

BeginControllerCommands(r) ==
    [r EXCEPT !.touched = [k \in Kind |-> <<>>], !.epoch = @ + 1]

(* The values after the touched targets are applied: a local one by one,    *)
(* the motions as one batch that an invalid node makes void.                *)
AppliedValues(r) ==
    [k \in Kind |->
        LET nodes == {r.targets[r.touched[k][i]].node : i \in DOMAIN r.touched[k]}
            written(n) == {i \in DOMAIN r.touched[k] : r.targets[r.touched[k][i]].node = n}
        IN  IF k = "motion" /\ INVALID \in nodes THEN r.value[k]
            ELSE [n \in Node |->
                    IF written(n) = {} THEN r.value[k][n]
                    ELSE r.targets[r.touched[k][Max(written(n))]].pending[k]]]

EndControllerCommands(r, apply) ==
    [r EXCEPT !.value = IF apply THEN AppliedValues(r) ELSE @,
              !.touched = [k \in Kind |-> <<>>]]

(* SetControllerLocal and SetControllerVelocity; a command is granted when  *)
(* the token is current and writable.                                       *)
Granted(token, epoch) ==
    /\ FindControllerTarget(rt, token, epoch)
    /\ rt.targets[token.index].access = "ReadWrite"

Commanded(record, epoch, k, value) ==
    [record EXCEPT !.pending[k] = value, !.pendingEpoch[k] = epoch]

SetController(r, token, epoch, k, value) ==
    LET first == r.targets[token.index].pendingEpoch[k] # epoch
    IN  [r EXCEPT !.targets[token.index] = Commanded(@, epoch, k, value),
                  !.touched[k] = IF first THEN Append(@, token.index) ELSE @]

--------------------------------------------------------------------------------
(* Detaching destroys the states, frees the targets and drops the batches   *)
(* that no controller uses any more, whatever the batches answer.           *)
DetachControllersIn(r, instance) ==
    LET gone == ControllersOf(r, instance)
        order == SetToSeq(gone)
        released[i \in 0 .. Len(order)] ==
          IF i = 0 THEN r ELSE ReleaseAll(released[i - 1], order[i].targets)
    IN  [released[Len(order)] EXCEPT
            !.controllers = @ \ gone,
            !.batches = {b \in @ : \E c \in r.controllers \ gone : c.type = b}]

(* The public handle of a new controller, and the counters after it.        *)
NextHandle(r) == [value |-> r.nextHandle, generation |-> r.handleGeneration]

(* A wrap that starts the same handles again.                              *)
AdvanceSameGeneration(r) ==
    [r EXCEPT !.nextHandle = IF (@ + 1) % HandleWidth = 0 THEN 1 ELSE @ + 1]

AdvanceHandle(r) ==
    LET wraps == (r.nextHandle + 1) % HandleWidth = 0
    IN  [r EXCEPT !.nextHandle = IF wraps THEN 1 ELSE @ + 1,
                  !.handleGeneration = IF wraps THEN @ + 1 ELSE @]

(* The checks AttachControllers makes before it changes anything: factories *)
(* registered, every node in the slot and named once by its declaration,    *)
(* and no node written by two controllers.                                  *)
Prepared(slot, declarations) ==
    /\ \A d \in Range(declarations) :
        /\ d.type \in m_controllerFactories
        /\ d.targets # <<>>
        /\ \A i \in DOMAIN d.targets : d.targets[i].node \in NodesOf[slot]
        /\ \A i, j \in DOMAIN d.targets : i # j => d.targets[i].node # d.targets[j].node
    /\ \A i \in DOMAIN declarations : \A t \in Range(declarations[i].targets) :
        t.access = "ReadWrite" =>
            /\ rt.owners[t.node] = INVALID
            /\ \A j \in 1 .. i - 1 : \A u \in Range(declarations[j].targets) :
                u.access = "ReadWrite" => u.node # t.node

--------------------------------------------------------------------------------
Idle == frame.kind = "none"
Bounded == rt.epoch < MaxEpoch

(* What the callback was granted, laid over the present values.            *)
Expected ==
    [k \in Kind |-> [n \in Node |-> IF frame.writes[k][n] = None THEN rt.value[k][n]
                                    ELSE frame.writes[k][n]]]

RegisterControllerFactory(type) ==
    /\ Idle /\ type \notin m_controllerFactories
    /\ m_controllerFactories' = m_controllerFactories \union {type}
    /\ UNCHANGED <<slots, rt, frame, issued, retired, inexact>>

UnregisterControllerFactory(type) ==
    /\ Idle /\ type \in m_controllerFactories
    /\ \A c \in rt.controllers : c.type # type
    /\ m_controllerFactories' = m_controllerFactories \ {type}
    /\ UNCHANGED <<slots, rt, frame, issued, retired, inexact>>

ReserveSlot(slot) ==
    /\ Idle /\ ~slots[slot].reserved
    /\ slots[slot].generation <= MaxLease[slot]
    /\ slots' = [slots EXCEPT ![slot].reserved = TRUE]
    /\ UNCHANGED <<rt, frame, m_controllerFactories, issued, retired, inexact>>

(* ClearSlot: the nodes go back to their initial values and stop.           *)
Cleared(slot) ==
    [rt EXCEPT !.value = [k \in Kind |-> [n \in Node |-> IF n \in NodesOf[slot] THEN 0
                                                         ELSE @[k][n]]]]

(* A release that does not ask for controllers.                            *)
ReleaseSlotUnchecked(slot) ==
    /\ Idle /\ slots[slot].reserved
    /\ rt' = Cleared(slot)
    /\ slots' = [slots EXCEPT ![slot] = [reserved |-> FALSE, generation |-> @.generation + 1]]
    /\ UNCHANGED <<frame, m_controllerFactories, issued, retired, inexact>>

ReleaseSlot(slot) ==
    /\ Idle /\ slots[slot].reserved
    /\ ~HasControllers(slot)
    /\ rt' = Cleared(slot)
    /\ slots' = [slots EXCEPT ![slot] = [reserved |-> FALSE, generation |-> @.generation + 1]]
    /\ UNCHANGED <<frame, m_controllerFactories, issued, retired, inexact>>

(* AttachControllers up to its first callback.                              *)
AttachControllers(slot, declarations) ==
    LET begun == BeginControllerCommands(rt)
    IN  /\ Idle /\ Bounded
        /\ FindSlot(Instance(slot)) /\ ControllersOf(rt, Instance(slot)) = {}
        /\ declarations # <<>> /\ Prepared(slot, declarations)
        /\ rt' = begun
        /\ frame' = [Frame("attach", begun.epoch) EXCEPT !.instance = Instance(slot),
                                                         !.todo = declarations]
        /\ UNCHANGED <<slots, m_controllerFactories, issued, retired, inexact>>

(* The transaction is over: start commands and controllers are dropped.     *)
AbortAttach(r) ==
    /\ rt' = DetachControllersIn(EndControllerCommands(r, FALSE), frame.instance)
    /\ retired' = retired \union {c.handle : c \in ControllersOf(r, frame.instance)}
    /\ frame' = NoFrame
    /\ UNCHANGED <<slots, m_controllerFactories, issued, inexact>>

Attaching == frame.kind = "attach"

(* The next declaration gets its batch and its targets, and its             *)
(* CreateController starts; or the factory makes no batch.                  *)
BeginConstruction ==
    LET declaration == Head(frame.todo)
        batched == [rt EXCEPT !.batches = @ \union {declaration.type}]
        allocated == AllocateAll(batched, declaration.targets)
        given == {[token |-> allocated.tokens[i], node |-> declaration.targets[i].node] :
                     i \in DOMAIN allocated.tokens}
    IN  /\ Attaching /\ frame.tokens = <<>>
        /\ rt' = allocated.rt
        /\ issued' = issued \union given
        /\ frame' = [frame EXCEPT !.tokens = allocated.tokens]
        /\ UNCHANGED <<slots, m_controllerFactories, retired, inexact>>

NoBatch ==
    /\ Attaching /\ frame.tokens = <<>>
    /\ Head(frame.todo).type \notin rt.batches
    /\ AbortAttach(rt)

ConstructionFails ==
    /\ Attaching /\ frame.tokens # <<>>
    /\ AbortAttach(ReleaseAll(rt, frame.tokens))

(* CreateController succeeds: the controller is recorded under a public     *)
(* handle; after the last one the start commands are applied.               *)
ConstructionSucceeds ==
    LET declaration == Head(frame.todo)
        record == [instance |-> frame.instance, type |-> declaration.type,
                   handle |-> NextHandle(rt), targets |-> frame.tokens, inputClosed |-> FALSE]
        added == [AdvanceHandle(rt) EXCEPT !.controllers = @ \union {record}]
        done == Len(frame.todo) = 1
    IN  /\ Attaching /\ frame.tokens # <<>>
        /\ rt' = IF done THEN EndControllerCommands(added, TRUE) ELSE added
        /\ inexact' = IF done /\ rt'.value # Expected THEN inexact \union {"attach"} ELSE inexact
        /\ frame' = IF done THEN NoFrame
                    ELSE [frame EXCEPT !.todo = Tail(@), !.tokens = <<>>]
        /\ UNCHANGED <<slots, m_controllerFactories, issued, retired>>

(* CloseControllerInput: each batch closes its controller's input or fails  *)
(* to, in which case a later call asks again.                               *)
CloseControllerInput(slot) ==
    LET open == {c \in ControllersOf(rt, Instance(slot)) : ~c.inputClosed}
    IN  \E closed \in SUBSET open :
        /\ Idle /\ open # {}
        /\ rt' = [rt EXCEPT !.controllers =
                    {[c EXCEPT !.inputClosed = @ \/ c \in closed] : c \in rt.controllers}]
        /\ UNCHANGED <<slots, frame, m_controllerFactories, issued, retired, inexact>>

DetachControllers(slot) ==
    /\ Idle /\ HasControllers(slot)
    /\ rt' = DetachControllersIn(rt, Instance(slot))
    /\ retired' = retired \union {c.handle : c \in ControllersOf(rt, Instance(slot))}
    /\ UNCHANGED <<slots, frame, m_controllerFactories, issued, inexact>>

(* A callback of a controller, inside which it issues commands.            *)
InCallback == ~Idle /\ (frame.kind = "attach" => frame.tokens # <<>>)

Callback(kind) ==
    LET begun == BeginControllerCommands(rt)
    IN  /\ Bounded
        /\ rt.controllers # {}
        /\ rt' = begun
        /\ frame' = Frame(kind, begun.epoch)
        /\ UNCHANGED <<slots, m_controllerFactories, issued, retired, inexact>>

(* Input for some controller.  The batch, not the runtime, looks whether    *)
(* the input is closed.  Callbacks do not submit input themselves.          *)
SubmitControllerInput == Idle /\ Callback("input")

(* A fixed step calls the batches that have running controllers.            *)
RunControllers == Idle /\ Callback("step")

(* The callback returns; only a failed input drops its commands.            *)
CallbackReturns(apply) ==
    /\ frame.kind \in {"input", "step"}
    /\ frame.kind = "step" => apply
    /\ rt' = EndControllerCommands(rt, apply)
    /\ inexact' = IF rt'.value # (IF apply THEN Expected ELSE rt.value)
                 THEN inexact \union {frame.kind} ELSE inexact
    /\ frame' = NoFrame
    /\ UNCHANGED <<slots, m_controllerFactories, issued, retired>>

(* A callback issues a command through its sink and is granted it; any      *)
(* token it ever saw will do.                                               *)
Command(token, k, value) ==
    /\ InCallback /\ frame.commands < MaxCommands
    /\ Granted(token, frame.epoch)
    /\ rt' = SetController(rt, token, frame.epoch, k, value)
    /\ frame' = [frame EXCEPT !.commands = @ + 1,
                              !.writes[k][rt.targets[token.index].node] = value]
    /\ UNCHANGED <<slots, m_controllerFactories, issued, retired, inexact>>

(* A command through a copy of the last sink, after its callback returned.  *)
LateCommand(token, k, value) ==
    /\ Idle /\ rt.epoch > 1
    /\ Granted(token, rt.epoch)
    /\ rt.touched[k] = <<>>
    /\ rt' = SetController(rt, token, rt.epoch, k, value)
    /\ UNCHANGED <<slots, frame, m_controllerFactories, issued, retired, inexact>>

Next ==
    \/ \E type \in Type : RegisterControllerFactory(type) \/ UnregisterControllerFactory(type)
    \/ \E slot \in Slot :
        \/ ReserveSlot(slot) \/ ReleaseSlot(slot)
        \/ \E declarations \in Declarations[slot] : AttachControllers(slot, declarations)
        \/ CloseControllerInput(slot) \/ DetachControllers(slot)
    \/ BeginConstruction \/ NoBatch \/ ConstructionFails \/ ConstructionSucceeds
    \/ SubmitControllerInput \/ RunControllers
    \/ \E apply \in BOOLEAN : CallbackReturns(apply)
    \/ \E i \in issued, k \in Kind, value \in Value :
        Command(i.token, k, value) \/ LateCommand(i.token, k, value)

Spec == Init /\ [][Next]_vars

--------------------------------------------------------------------------------
(* The target table is exact between callbacks: the free list holds just    *)
(* the inactive targets, every active one belongs to one controller of a    *)
(* leased slot and to a node of that slot, and a node's write owner is the  *)
(* one active target that may write it; and there is a batch for each type  *)
(* in use, its factory still registered, and none else.  A failed           *)
(* attachment rolls all of it back.                                         *)
TargetsExact ==
    Idle =>
        /\ Range(rt.free) = {i \in DOMAIN rt.targets : ~rt.targets[i].active}
        /\ \A i \in DOMAIN rt.targets : rt.targets[i].active =>
            \E c \in rt.controllers :
                /\ [index |-> i, generation |-> rt.targets[i].generation] \in Range(c.targets)
                /\ FindSlot(c.instance)
                /\ rt.targets[i].node \in NodesOf[c.instance.slot]
                /\ \A d \in rt.controllers \ {c} :
                    i \notin {t.index : t \in Range(d.targets)}
        /\ \A n \in Node :
            {i \in DOMAIN rt.targets : /\ rt.targets[i].active /\ rt.targets[i].node = n
                                       /\ rt.targets[i].access = "ReadWrite"}
            = {rt.owners[n]} \ {INVALID}
        /\ rt.batches = {c.type : c \in rt.controllers}
        /\ rt.batches \subseteq m_controllerFactories

(* A token never reaches another node: as long as the table is recycled,    *)
(* a token kept from a destroyed controller finds nothing, and a current    *)
(* one finds the node it was issued for.                                    *)
TokensFaithful ==
    \A i \in issued :
        FindControllerTarget(rt, i.token, rt.epoch) => rt.targets[i.token.index].node = i.node

(* A public handle dies with its controller: recycled batch states and a    *)
(* wrapping counter never make an earlier handle name a new controller      *)
(* (README: destroying and recreating a batch cannot make an earlier handle *)
(* valid again).                                                            *)
HandlesNeverRevive ==
    /\ \A c \in rt.controllers : c.handle \notin retired
    /\ \A c, d \in rt.controllers : c # d => c.handle # d.handle

(* Nothing writes a slot that is not leased: from its release to its next   *)
(* lease its nodes keep the initial values, whatever old tokens, sinks and  *)
(* controllers are still around.                                            *)
FreeSlotsStill ==
    \A s \in Slot : ~slots[s].reserved =>
        \A n \in NodesOf[s], k \in Kind : rt.value[k][n] = 0

(* Each callback applies exactly the commands it was granted, the last for  *)
(* each node and kind, or none when it fails: nothing of an earlier         *)
(* callback, of a late copy of a sink or of an aborted attachment.          *)
CallbacksApplyExactly == inexact = {}
================================================================================
