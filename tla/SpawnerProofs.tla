--------------------------- MODULE SpawnerProofs ---------------------------
(***************************************************************************)
(* The spawner proved for any configuration, capacity and generation       *)
(* width, any number of requests and activations.                          *)
(*                                                                         *)
(* A handler is a chain of calls on the state record, so the invariant is  *)
(* stated of a record s, and each call is shown to keep it.  While a       *)
(* handler moves record r from one state to another, what is said of r     *)
(* alone is suspended: Inv(s, {r}) says all of Inv(s, {}) except that.     *)
(***************************************************************************)
EXTENDS Spawner, FiniteSetTheorems, WellFoundedInduction, SequenceTheorems, TLAPS

-----------------------------------------------------------------------------
(* Types                                                                   *)

Lives == {"None", "Pending", "Alive", "Destroying", "Erased"}
SlotTypes == {"Reset", "Place", "Bind", "Attach", "Detach", "Unbind", "Release"}
Generations == 1 .. GenerationModulus - 1
Starting == {"Resetting", "Placing", "Spawning", "Binding", "AttachingControllers"}
Cleaning == {"DetachingControllers", "Unbinding", "DespawningEntities",
             "CleanupResetting", "Releasing"}
RecordStates == Starting \union {"Active"} \union Cleaning
Answers == {<<>>, <<"Succeeded">>, <<"Failed">>}
DespawnRequests == 1 .. MaxDespawns

RuntimeSlot == [reserved : BOOLEAN, generation : Generations, placed : BOOLEAN, bound : Nat]
SlotHandle == [scene : Scene, slot : Slot, generation : Generations]
InstanceHandle == [slot : SlotHandle, generation : Nat]
SlotCommand == [type : SlotTypes, slot : SlotHandle, owner : Nat, entities : Nat, id : Nat]
SceneCommand == [type : {"Create", "Destroy"}, scene : Scene]
Command == SlotCommand \union SceneCommand
InstanceRecord ==
  [instance : InstanceHandle, state : RecordStates, pending : [id : Nat, type : SlotTypes],
   ticket : BOOLEAN, terminal : BOOLEAN, attached : BOOLEAN, declares : BOOLEAN,
   despawn : Nat, failed : BOOLEAN]
Instances == UNION {[D -> InstanceRecord] : D \in SUBSET Requests}
ServiceRequest == [op : {"Spawn", "Insert", "Despawn", "Drop"}, generation : Nat]
RequestHandle == [value : Requests, generation : Nat]
SpawnedFunction == [kind : {"Spawned"}, request : RequestHandle, error : BOOLEAN,
                    declares : BOOLEAN]
DespawnedFunction == [kind : {"Despawned"}, request : RequestHandle]
SpawnFailedFunction == [kind : {"SpawnFailed"}, answers : Requests]
DespawnFailedFunction == [kind : {"DespawnFailed"}, answers : DespawnRequests]
Function == SpawnedFunction \union DespawnedFunction
              \union SpawnFailedFunction \union DespawnFailedFunction

State ==
  [life : [Scene -> Lives], slots : [Scene -> [Slot -> RuntimeSlot]],
   controllers : SUBSET InstanceHandle, m_commands : Seq(Command),
   draining : Seq(Command), m_nextCommandId : Nat,
   m_lifecycle : {"Inactive", "Registering", "Ready", "Failed"}, m_generation : Nat,
   m_spawner : Scene \union {NoScene}, m_instances : Instances,
   m_nextSpawnRequest : Nat, m_nextDespawnRequest : Nat,
   boundary : [Requests -> {"Cancelable", "Cancelled", "Committed"}],
   prepared : [Requests -> {"no", "yes", "error"}],
   service : [Requests -> Seq(ServiceRequest)], entities : SUBSET Requests,
   queued : Seq(Function), answers : [Requests -> Answers],
   despawnAnswers : [DespawnRequests -> Answers],
   instanceOf : [Requests -> InstanceHandle \union {NoInstance}],
   cancelled : SUBSET Requests]

-----------------------------------------------------------------------------
(* The invariant                                                           *)

Recs(s) == DOMAIN s.m_instances
HandleOf(s, r) == s.m_instances[r].instance.slot
IsIdle(s, r) == s.m_instances[r].pending.id = NoCommand
Unbuilt == {"None", "Pending"}
Living(s) == s.m_spawner \in Scene /\ s.life[s.m_spawner] = "Alive"

(* Only a ready component has records, all of its own scene and            *)
(* generation, for requests that were allocated.                           *)
Lifecycle(s) ==
  /\ s.m_lifecycle # "Ready" => Recs(s) = {} /\ s.m_spawner = NoScene
  /\ s.m_lifecycle = "Ready" => s.m_spawner \in Scene /\ s.life[s.m_spawner] \notin Unbuilt
  /\ s.m_nextSpawnRequest \in 1 .. MaxSpawns + 1
  /\ s.m_nextDespawnRequest \in 1 .. MaxDespawns + 1
  /\ s.m_lifecycle = "Registering" => s.m_nextSpawnRequest + InitialSpawnCount <= MaxSpawns + 1
  /\ \A r \in Recs(s) :
       /\ r < s.m_nextSpawnRequest
       /\ HandleOf(s, r).scene = s.m_spawner
       /\ s.m_instances[r].instance.generation = s.m_generation

(* What a queued function answers: a request, or the record of a ticket.   *)
IsCallback(f) == f.kind \in {"Spawned", "Despawned"}
Purpose(f) == IF IsCallback(f) THEN <<"Ticket", f.request.value>> ELSE <<f.kind, f.answers>>

(* A request has one answer at most, given, queued or owed by a record.    *)
Answering(s) ==
  /\ \A i, j \in 1 .. Len(s.queued) : Purpose(s.queued[i]) = Purpose(s.queued[j]) => i = j
  /\ \A i \in 1 .. Len(s.queued) :
       LET f == s.queued[i] IN
       /\ f.kind = "SpawnFailed" =>
            f.answers < s.m_nextSpawnRequest /\ s.answers[f.answers] = <<>> /\ f.answers \notin Recs(s)
       /\ f.kind = "DespawnFailed" =>
            /\ f.answers < s.m_nextDespawnRequest /\ s.despawnAnswers[f.answers] = <<>>
            /\ \A r \in Recs(s) : s.m_instances[r].despawn # f.answers
  /\ \A r \in Requests : r >= s.m_nextSpawnRequest => s.answers[r] = <<>>
  /\ \A d \in DespawnRequests : d >= s.m_nextDespawnRequest => s.despawnAnswers[d] = <<>>
  /\ \A r \in Recs(s) : s.m_instances[r].despawn # 0 =>
       /\ s.m_instances[r].despawn < s.m_nextDespawnRequest
       /\ s.despawnAnswers[s.m_instances[r].despawn] = <<>>
       /\ s.answers[r] = <<"Succeeded">>
       /\ \A q \in Recs(s) : s.m_instances[q].despawn = s.m_instances[r].despawn => q = r

(* A committed spawn cannot be cancelled, and only a committed one         *)
(* succeeds.                                                               *)
Boundaries(s) ==
  /\ \A r \in s.cancelled : s.boundary[r] = "Cancelled"
  /\ \A r \in Requests :
       (s.answers[r] = <<"Succeeded">> \/ s.prepared[r] = "yes") => s.boundary[r] = "Committed"
  /\ \A i \in 1 .. Len(s.queued) : s.queued[i].kind = "Spawned" =>
       (~s.queued[i].error => s.boundary[s.queued[i].request.value] = "Committed")

(* A ticket's service queue holds one request, then possibly the ticket's  *)
(* removal, which whoever lost the ticket's record has asked for.          *)
Tickets(s) ==
  /\ \A r \in Requests :
       LET v == s.service[r] IN
       /\ Len(v) <= 2
       /\ Len(v) = 2 => v[2].op = "Drop" /\ v[1].op # "Drop"
       /\ (r \notin Recs(s) /\ (r \in s.entities \/ v # <<>>)) =>
            v # <<>> /\ v[Len(v)].op = "Drop"
       /\ r >= s.m_nextSpawnRequest => v = <<>> /\ r \notin s.entities
  /\ \A i \in 1 .. Len(s.queued) : IsCallback(s.queued[i]) =>
       LET r == s.queued[i].request.value IN
       /\ r < s.m_nextSpawnRequest
       /\ s.service[r] # <<>> => s.service[r][1].op = "Drop"

(* Commands queued, the oldest first.                                      *)
Pipeline(s) == s.draining \o s.m_commands
Slotted(c) == c.type \in SlotTypes
CommandOf(s, r) ==
  [type |-> s.m_instances[r].pending.type, slot |-> HandleOf(s, r),
   owner |-> s.m_instances[r].instance.generation, entities |-> r,
   id |-> s.m_instances[r].pending.id]
(* The command each state waits for.                                       *)
Steps == {<<"Resetting", "Reset">>, <<"Placing", "Place">>, <<"Binding", "Bind">>,
          <<"AttachingControllers", "Attach">>, <<"DetachingControllers", "Detach">>,
          <<"Unbinding", "Unbind">>, <<"CleanupResetting", "Reset">>, <<"Releasing", "Release">>}

(* Every command of the present scene is the one its record waits for.     *)
Queue(s) ==
  LET p == Pipeline(s) IN
  /\ s.m_nextCommandId > 0
  /\ \A i \in 1 .. Len(p) : Slotted(p[i]) =>
       /\ s.life[p[i].slot.scene] \notin Unbuilt
       /\ p[i].id < s.m_nextCommandId
       /\ p[i].slot.scene = s.m_spawner =>
            p[i].id # NoCommand /\ \E r \in Recs(s) : s.m_instances[r].pending.id = p[i].id
       /\ p[i].id # NoCommand => \A r \in Recs(s) :
            s.m_instances[r].pending.id = p[i].id => p[i] = CommandOf(s, r)
       /\ p[i].id # NoCommand => \A j \in 1 .. Len(p) :
            (Slotted(p[j]) /\ p[j].id = p[i].id) => j = i
  /\ \A r \in Recs(s) : ~IsIdle(s, r) =>
       /\ s.m_instances[r].pending.id < s.m_nextCommandId
       /\ <<s.m_instances[r].state, s.m_instances[r].pending.type>> \in Steps
       /\ \A q \in Recs(s) : s.m_instances[q].pending.id = s.m_instances[r].pending.id => q = r

(* Slots nobody reserved are clean, no two records share one, and the      *)
(* controllers of the present scene belong to records.                     *)
Leases(s) ==
  /\ \A scene \in Scene, i \in Slot : ~s.slots[scene][i].reserved =>
       s.slots[scene][i].bound = NoEntities
  /\ \A scene \in Scene : s.life[scene] \in Unbuilt =>
       \A i \in Slot : ~s.slots[scene][i].reserved
  /\ \A instance \in s.controllers : s.life[instance.slot.scene] \notin Unbuilt
  /\ \A q, r \in Recs(s) : HandleOf(s, q).slot = HandleOf(s, r).slot => q = r
  /\ Living(s) => \A instance \in s.controllers : instance.slot.scene = s.m_spawner =>
       \E r \in Recs(s) : s.m_instances[r].instance = instance

ReleaseOf(c, handle) == c.type = "Release" /\ c.slot = handle
Holds(s, handle) == \E r \in Recs(s) : HandleOf(s, r) = handle
(* A lease without a record is about to be released, or kept by            *)
(* controllers that no queued command will detach.                         *)
Stranding(s) ==
  LET p == Pipeline(s) IN
  /\ \A scene \in Scene, i \in Slot :
       (s.life[scene] = "Alive" /\ s.slots[scene][i].reserved) =>
         LET handle == [scene |-> scene, slot |-> i, generation |-> s.slots[scene][i].generation]
         IN  \/ Holds(s, handle) \/ HasControllers(s, handle)
             \/ \E k \in 1 .. Len(p) : ReleaseOf(p[k], handle)
  /\ \A k \in 1 .. Len(p) :
       (p[k].type = "Detach" /\ s.life[p[k].slot.scene] = "Alive" /\ ~Holds(s, p[k].slot)) =>
         \E m \in 1 .. Len(p) : m > k /\ ReleaseOf(p[m], p[k].slot)

Shared(s) == /\ s \in State /\ Lifecycle(s) /\ Answering(s) /\ Boundaries(s) /\ Tickets(s)
             /\ Queue(s) /\ Leases(s) /\ Stranding(s)

-----------------------------------------------------------------------------
(* What a record in a state may count on                                   *)

(* The answer it owes.                                                     *)
Owes(s, r, state) ==
  /\ state \in Starting => s.answers[r] = <<>> /\ ~s.m_instances[r].terminal
  /\ state = "Active" => s.answers[r] = <<"Succeeded">>
  /\ state \in Cleaning =>
       IF s.m_instances[r].terminal THEN s.answers[r] = <<>> ELSE s.m_instances[r].despawn # 0
  /\ state \in {"Binding", "AttachingControllers"} => s.boundary[r] = "Committed"

(* Its ticket, the request the service has for it and its entities.        *)
TicketIn(s, r, state) ==
  LET v == s.service[r] IN
  /\ s.m_instances[r].ticket => state \notin {"Resetting", "Placing", "CleanupResetting", "Releasing"}
  /\ r \in s.entities => s.m_instances[r].ticket
  /\ state \notin {"Spawning", "DespawningEntities"} =>
       v = <<>> /\ (s.m_instances[r].ticket => r \in s.entities)
  /\ state \in {"Binding", "AttachingControllers", "Active", "DetachingControllers"} =>
       s.m_instances[r].ticket
  /\ state = "Spawning" =>
       /\ s.m_instances[r].ticket /\ Len(v) <= 1
       /\ IF v = <<>> THEN r \in s.entities
          ELSE v[1].op \in {"Spawn", "Insert"} /\ r \notin s.entities
  /\ state = "DespawningEntities" =>
       /\ Len(v) <= 1
       /\ IF v = <<>> THEN r \notin s.entities
          ELSE v[1].op = "Despawn" /\ s.m_instances[r].ticket
  /\ \A i \in 1 .. Len(s.queued) :
       (IsCallback(s.queued[i]) /\ s.queued[i].request.value = r) =>
         <<state, s.queued[i].kind>> \in
            {<<"Spawning", "Spawned">>, <<"DespawningEntities", "Despawned">>}

(* Its slot, as long as the scene lives.                                   *)
SlotIn(s, r, state) ==
  LET handle == HandleOf(s, r)
      slot == s.slots[handle.scene][handle.slot]
      record == s.m_instances[r]
  IN
  /\ state \in Starting => ~record.attached
  /\ state = "AttachingControllers" => record.declares
  /\ Living(s) =>
       /\ FindSlot(s, handle)
       /\ slot.bound # NoEntities => slot.bound = r /\ r \in s.entities
       /\ state \in {"Resetting", "Placing", "Spawning", "DespawningEntities",
                     "CleanupResetting", "Releasing"} => slot.bound = NoEntities
       /\ state \in {"Spawning", "Binding", "AttachingControllers", "Active"} => slot.placed
       /\ state \in {"AttachingControllers", "Active"} => slot.bound = r
       /\ state \notin {"Active", "DetachingControllers"} => record.instance \notin s.controllers
       /\ state = "Active" => /\ record.declares <=> record.attached
                              /\ record.declares <=> record.instance \in s.controllers

Fits(s, r, state) == Owes(s, r, state) /\ TicketIn(s, r, state) /\ SlotIn(s, r, state)

Inv(s, R) == Shared(s) /\ \A r \in Recs(s) \ R : Fits(s, r, s.m_instances[r].state)

-----------------------------------------------------------------------------
(* Sequences and records                                                   *)

(* What Append and Tail do to the members of a sequence.                   *)
LEMMA Appended ==
  ASSUME NEW S, NEW q \in Seq(S), NEW e \in S
  PROVE  /\ Append(q, e) \in Seq(S) /\ Len(Append(q, e)) = Len(q) + 1
         /\ Len(q) \in Nat
         /\ \A i \in 1 .. Len(q) + 1 :
              Append(q, e)[i] = IF i = Len(q) + 1 THEN e ELSE q[i]
         /\ \A i \in 1 .. Len(q) : Append(q, e)[i] = q[i]
OBVIOUS

(* The first member and the others.                                        *)
LEMMA Shifted ==
  ASSUME NEW S, NEW q \in Seq(S), q # <<>>
  PROVE  /\ Tail(q) \in Seq(S) /\ Len(Tail(q)) = Len(q) - 1 /\ Len(q) \in Nat \ {0}
         /\ Head(q) = q[1] /\ q[1] \in S /\ 1 \in 1 .. Len(q)
         /\ \A i \in 1 .. Len(q) - 1 : Tail(q)[i] = q[i + 1] /\ i + 1 \in 1 .. Len(q)
OBVIOUS

(* Popping the oldest command.                                             *)
LEMMA PipeTail ==
  ASSUME NEW S, NEW p \in Seq(S), NEW q \in Seq(S), p # <<>>
  PROVE  /\ Tail(p) \o q = Tail(p \o q) /\ Head(p) = (p \o q)[1]
         /\ p \o q # <<>> /\ p \o q \in Seq(S)
<1>1. p \o q \in Seq(S) /\ Len(p \o q) = Len(p) + Len(q) /\ Len(p) \in Nat \ {0} /\ Len(q) \in Nat
  BY ConcatProperties
<1>2. \A i \in 1 .. Len(p) + Len(q) : (p \o q)[i] = IF i <= Len(p) THEN p[i] ELSE q[i - Len(p)]
  BY ConcatProperties
<1>3. p \o q # <<>> BY <1>1
<1>4. /\ Tail(p) \in Seq(S) /\ Len(Tail(p)) = Len(p) - 1
      /\ \A i \in 1 .. Len(p) - 1 : Tail(p)[i] = p[i + 1]
  BY Shifted
<1>5. /\ Tail(p) \o q \in Seq(S) /\ Len(Tail(p) \o q) = Len(p) - 1 + Len(q)
      /\ \A i \in 1 .. Len(p) - 1 + Len(q) :
           (Tail(p) \o q)[i] = IF i <= Len(p) - 1 THEN Tail(p)[i] ELSE q[i - (Len(p) - 1)]
  BY <1>4, ConcatProperties
<1>6. /\ Tail(p \o q) \in Seq(S) /\ Len(Tail(p \o q)) = Len(p) + Len(q) - 1
      /\ \A i \in 1 .. Len(p) + Len(q) - 1 : Tail(p \o q)[i] = (p \o q)[i + 1]
  BY <1>1, <1>3, Shifted
<1>7. ASSUME NEW i \in 1 .. Len(p) + Len(q) - 1 PROVE Tail(p \o q)[i] = (Tail(p) \o q)[i]
  <2>1. Tail(p \o q)[i] = (p \o q)[i + 1] BY <1>6
  <2>2. CASE i <= Len(p) - 1
    <3>1. (p \o q)[i + 1] = p[i + 1] BY <1>1, <1>2, <2>2
    <3>2. (Tail(p) \o q)[i] = p[i + 1] BY <1>1, <1>4, <1>5, <2>2
    <3> QED BY <2>1, <3>1, <3>2
  <2>3. CASE i > Len(p) - 1
    <3>1. (p \o q)[i + 1] = q[i + 1 - Len(p)] BY <1>1, <1>2, <2>3
    <3>2. (Tail(p) \o q)[i] = q[i - (Len(p) - 1)] BY <1>1, <1>5, <2>3
    <3>3. i + 1 - Len(p) = i - (Len(p) - 1) BY <1>1
    <3> QED BY <2>1, <3>1, <3>2, <3>3
  <2> QED BY <1>1, <2>2, <2>3
<1>8. Tail(p \o q) = Tail(p) \o q
  BY <1>1, <1>5, <1>6, <1>7, SeqEqual
<1>9. Head(p) = (p \o q)[1]
  BY <1>1, <1>2
<1> QED BY <1>1, <1>3, <1>8, <1>9

(* The map of records, and what changing one of them leaves.               *)
LEMMA RecordsTyped ==
  ASSUME NEW I \in Instances
  PROVE  /\ DOMAIN I \subseteq Requests
         /\ \A r \in DOMAIN I : I[r] \in InstanceRecord
         /\ I \in [DOMAIN I -> InstanceRecord]
BY DEF Instances

(* One record is changed.                                                  *)
LEMMA RecordPut ==
  ASSUME NEW I \in Instances, NEW r \in DOMAIN I, NEW record \in InstanceRecord
  PROVE  LET J == [I EXCEPT ![r] = record] IN
         /\ J \in Instances /\ DOMAIN J = DOMAIN I /\ J[r] = record
         /\ \A q \in DOMAIN I : q # r => J[q] = I[q]
<1>1. DOMAIN I \in SUBSET Requests /\ I \in [DOMAIN I -> InstanceRecord]
  BY RecordsTyped
<1>2. [I EXCEPT ![r] = record] \in [DOMAIN I -> InstanceRecord]
  BY <1>1
<1>3. [I EXCEPT ![r] = record] \in Instances
  BY <1>1, <1>2 DEF Instances
<1> QED BY <1>1, <1>3

(* One record is erased.                                                   *)
LEMMA RecordErased ==
  ASSUME NEW I \in Instances, NEW r
  PROVE  LET J == Erase(I, r) IN
         /\ J \in Instances /\ DOMAIN J = DOMAIN I \ {r}
         /\ \A q \in DOMAIN I \ {r} : J[q] = I[q]
<1>1. DOMAIN I \in SUBSET Requests /\ I \in [DOMAIN I -> InstanceRecord]
  BY RecordsTyped
<1>2. Erase(I, r) \in [DOMAIN I \ {r} -> InstanceRecord]
  BY <1>1 DEF Erase
<1>3. DOMAIN I \ {r} \in SUBSET Requests
  BY <1>1
<1>4. Erase(I, r) \in Instances
  BY <1>2, <1>3 DEF Instances
<1> QED BY <1>1, <1>4 DEF Erase

(* One record is added.                                                    *)
LEMMA RecordAdded ==
  ASSUME NEW I \in Instances, NEW r \in Requests, NEW record \in InstanceRecord
  PROVE  LET J == Emplace(I, r, record) IN
         /\ J \in Instances /\ DOMAIN J = DOMAIN I \union {r} /\ J[r] = record
         /\ \A q \in DOMAIN I : q # r => J[q] = I[q]
<1>1. DOMAIN I \in SUBSET Requests /\ I \in [DOMAIN I -> InstanceRecord]
  BY RecordsTyped
<1>2. Emplace(I, r, record) \in [DOMAIN I \union {r} -> InstanceRecord]
  BY <1>1 DEF Emplace
<1>3. DOMAIN I \union {r} \in SUBSET Requests
  BY <1>1
<1>4. Emplace(I, r, record) \in Instances
  BY <1>2, <1>3 DEF Instances
<1> QED BY <1>1, <1>4 DEF Emplace

-----------------------------------------------------------------------------
(* What the parts of the invariant depend on                               *)

SameScenes(s, t) == t.life = s.life /\ t.slots = s.slots /\ t.controllers = s.controllers
SamePipe(s, t) == /\ t.draining = s.draining /\ t.m_commands = s.m_commands
                  /\ t.m_nextCommandId = s.m_nextCommandId
SameComponent(s, t) ==
  /\ t.m_lifecycle = s.m_lifecycle /\ t.m_generation = s.m_generation
  /\ t.m_spawner = s.m_spawner /\ t.m_nextSpawnRequest = s.m_nextSpawnRequest
  /\ t.m_nextDespawnRequest = s.m_nextDespawnRequest
SameTickets(s, t) == t.service = s.service /\ t.entities = s.entities
SameBoundaries(s, t) == /\ t.boundary = s.boundary /\ t.prepared = s.prepared
                        /\ t.cancelled = s.cancelled
SameAnswers(s, t) == /\ t.queued = s.queued /\ t.answers = s.answers
                     /\ t.despawnAnswers = s.despawnAnswers
SameHandles(s, t) ==
  /\ Recs(t) = Recs(s)
  /\ \A r \in Recs(s) : t.m_instances[r].instance = s.m_instances[r].instance
(* No scene is unbuilt again, or comes to life.                            *)
NoNewLife(s, t) == \A scene \in Scene :
  /\ t.life[scene] = "Alive" => s.life[scene] = "Alive"
  /\ t.life[scene] \in Unbuilt <=> s.life[scene] \in Unbuilt

(* The records' scene and requests.                                        *)
LEMMA LifecycleKept ==
  ASSUME NEW s, NEW t, Lifecycle(s), SameComponent(s, t), SameHandles(s, t), NoNewLife(s, t)
  PROVE  Lifecycle(t)
BY DEF Lifecycle, SameComponent, SameHandles, NoNewLife, HandleOf

(* The answers, as long as no record is added or given a despawn request.  *)
LEMMA AnsweringKept ==
  ASSUME NEW s, NEW t, Answering(s), SameComponent(s, t), SameAnswers(s, t),
         Recs(t) \subseteq Recs(s),
         \A r \in Recs(t) : t.m_instances[r].despawn = s.m_instances[r].despawn
  PROVE  Answering(t)
BY DEF Answering, SameComponent, SameAnswers

(* The boundaries.                                                         *)
LEMMA BoundariesKept ==
  ASSUME NEW s, NEW t, Boundaries(s), SameBoundaries(s, t), SameAnswers(s, t)
  PROVE  Boundaries(t)
BY DEF Boundaries, SameBoundaries, SameAnswers

(* The tickets.                                                            *)
LEMMA TicketsKept ==
  ASSUME NEW s, NEW t, Tickets(s), SameTickets(s, t), t.queued = s.queued,
         t.m_nextSpawnRequest = s.m_nextSpawnRequest, Recs(t) = Recs(s)
  PROVE  Tickets(t)
BY DEF Tickets, SameTickets

(* The pipeline, as long as every record waits for the same command.       *)
LEMMA QueueKept ==
  ASSUME NEW s, NEW t, s \in State, Queue(s), Pipeline(t) = Pipeline(s),
         t.m_nextCommandId = s.m_nextCommandId, t.m_spawner = s.m_spawner,
         NoNewLife(s, t), SameHandles(s, t),
         \A r \in Recs(s) : /\ t.m_instances[r].pending = s.m_instances[r].pending
                            /\ ~IsIdle(s, r) => t.m_instances[r].state = s.m_instances[r].state
  PROVE  Queue(t)
<1>1. \A r \in Recs(s) : CommandOf(t, r) = CommandOf(s, r)
  BY DEF CommandOf, SameHandles, HandleOf
<1>2. \A r \in Recs(s) : IsIdle(t, r) <=> IsIdle(s, r)
  BY DEF IsIdle
<1>3. \A i \in 1 .. Len(Pipeline(s)) : Slotted(Pipeline(s)[i]) => Pipeline(s)[i].slot.scene \in Scene
  <2>1. Pipeline(s) \in Seq(Command)
    BY ConcatProperties DEF Pipeline, State
  <2>2. \A i \in 1 .. Len(Pipeline(s)) : Pipeline(s)[i] \in Command
    BY <2>1
  <2> QED BY <2>2 DEF Command, SlotCommand, SceneCommand, SlotTypes, Slotted, SlotHandle
<1> QED BY <1>1, <1>2, <1>3 DEF Queue, NoNewLife, SameHandles

(* The leases.                                                             *)
LEMMA LeasesKept ==
  ASSUME NEW s, NEW t, s \in State, Leases(s), t.slots = s.slots, t.controllers = s.controllers,
         t.m_spawner = s.m_spawner, NoNewLife(s, t), SameHandles(s, t)
  PROVE  Leases(t)
<1>1. \A instance \in s.controllers : instance.slot.scene \in Scene
  BY DEF State, InstanceHandle, SlotHandle
<1>2. Living(t) => Living(s)
  BY DEF Living, NoNewLife
<1>3. \A q \in Recs(s) : HandleOf(t, q) = HandleOf(s, q)
  BY DEF HandleOf, SameHandles
<1> QED BY <1>1, <1>2, <1>3 DEF Leases, NoNewLife, SameHandles

(* The leases without a record.                                            *)
LEMMA StrandingKept ==
  ASSUME NEW s, NEW t, s \in State, Stranding(s), Pipeline(t) = Pipeline(s),
         t.slots = s.slots, t.controllers = s.controllers, NoNewLife(s, t), SameHandles(s, t)
  PROVE  Stranding(t)
<1>1. \A h : Holds(t, h) <=> Holds(s, h)
  BY DEF Holds, HandleOf, SameHandles
<1>2. \A h : HasControllers(t, h) <=> HasControllers(s, h)
  BY DEF HasControllers
<1>3. \A i \in 1 .. Len(Pipeline(s)) : Pipeline(s)[i].type = "Detach" => Pipeline(s)[i].slot.scene \in Scene
  <2>1. Pipeline(s) \in Seq(Command)
    BY ConcatProperties DEF Pipeline, State
  <2>2. \A i \in 1 .. Len(Pipeline(s)) : Pipeline(s)[i] \in Command
    BY <2>1
  <2> QED BY <2>2 DEF Command, SlotCommand, SceneCommand, SlotTypes, Slotted, SlotHandle
<1> QED BY <1>1, <1>2, <1>3 DEF Stranding, NoNewLife

(* What a record counts on, where nothing that concerns it changes.        *)
Undisturbed(s, t, r) ==
  /\ r \in Recs(s) /\ r \in Recs(t) /\ t.m_spawner = s.m_spawner
  /\ t.m_instances[r].instance = s.m_instances[r].instance
  /\ t.answers[r] = s.answers[r] /\ t.boundary[r] = s.boundary[r]
  /\ t.service[r] = s.service[r] /\ (r \in t.entities <=> r \in s.entities)
  /\ \A i \in 1 .. Len(t.queued) :
       (IsCallback(t.queued[i]) /\ t.queued[i].request.value = r) =>
         \E j \in 1 .. Len(s.queued) : s.queued[j] = t.queued[i]
  /\ Living(t) => Living(s)
  /\ LET h == HandleOf(s, r) IN t.slots[h.scene][h.slot] = s.slots[h.scene][h.slot]
  /\ s.m_instances[r].instance \in t.controllers <=> s.m_instances[r].instance \in s.controllers

(* A record nothing happened to.                                           *)
LEMMA OwesKept ==
  ASSUME NEW s, NEW t, NEW r, NEW state, Undisturbed(s, t, r), Owes(s, r, state),
         t.m_instances[r].terminal = s.m_instances[r].terminal,
         t.m_instances[r].despawn = s.m_instances[r].despawn
  PROVE  Owes(t, r, state)
BY DEF Undisturbed, Owes

(* Its ticket.                                                             *)
LEMMA TicketInKept ==
  ASSUME NEW s, NEW t, NEW r, NEW state, Undisturbed(s, t, r), TicketIn(s, r, state),
         t.m_instances[r].ticket = s.m_instances[r].ticket
  PROVE  TicketIn(t, r, state)
<1>1. \A i \in 1 .. Len(t.queued) :
       (IsCallback(t.queued[i]) /\ t.queued[i].request.value = r) =>
         <<state, t.queued[i].kind>> \in
            {<<"Spawning", "Spawned">>, <<"DespawningEntities", "Despawned">>}
  BY DEF Undisturbed, TicketIn
<1>2. t.service[r] = s.service[r] /\ (r \in t.entities <=> r \in s.entities)
  BY DEF Undisturbed
<1> QED BY <1>1, <1>2 DEF TicketIn

(* Its slot.                                                               *)
LEMMA SlotInKept ==
  ASSUME NEW s, NEW t, NEW r, NEW state, Undisturbed(s, t, r), SlotIn(s, r, state),
         t.m_instances[r].attached = s.m_instances[r].attached,
         t.m_instances[r].declares = s.m_instances[r].declares
  PROVE  SlotIn(t, r, state)
<1>1. HandleOf(t, r) = HandleOf(s, r)
  BY DEF Undisturbed, HandleOf
<1>2. FindSlot(s, HandleOf(s, r)) => FindSlot(t, HandleOf(t, r))
  BY <1>1 DEF FindSlot, Undisturbed
<1>3. LET h == HandleOf(s, r) IN t.slots[h.scene][h.slot] = s.slots[h.scene][h.slot]
  BY DEF Undisturbed
<1>4. /\ Living(t) => Living(s)
      /\ r \in t.entities <=> r \in s.entities
      /\ t.m_instances[r].instance = s.m_instances[r].instance
      /\ s.m_instances[r].instance \in t.controllers <=> s.m_instances[r].instance \in s.controllers
  BY DEF Undisturbed
<1> QED BY <1>1, <1>2, <1>3, <1>4 DEF SlotIn

-----------------------------------------------------------------------------
(* Changing one record                                                     *)

Loose(s, r) == Inv(s, {r}) /\ r \in Recs(s) /\ IsIdle(s, r)

(* The facts of a state record's type that the proofs use.                 *)
LEMMA Typed ==
  ASSUME NEW s \in State
  PROVE  /\ s.life \in [Scene -> Lives] /\ s.slots \in [Scene -> [Slot -> RuntimeSlot]]
         /\ s.controllers \subseteq InstanceHandle /\ s.m_commands \in Seq(Command)
         /\ s.draining \in Seq(Command) /\ s.m_nextCommandId \in Nat
         /\ s.m_generation \in Nat /\ s.m_spawner \in Scene \union {NoScene}
         /\ s.m_instances \in Instances
         /\ s.m_nextSpawnRequest \in Nat /\ s.m_nextDespawnRequest \in Nat
         /\ s.boundary \in [Requests -> {"Cancelable", "Cancelled", "Committed"}]
         /\ s.prepared \in [Requests -> {"no", "yes", "error"}]
         /\ s.service \in [Requests -> Seq(ServiceRequest)] /\ s.entities \subseteq Requests
         /\ s.queued \in Seq(Function) /\ s.answers \in [Requests -> Answers]
         /\ s.despawnAnswers \in [DespawnRequests -> Answers]
         /\ s.instanceOf \in [Requests -> InstanceHandle \union {NoInstance}]
         /\ s.cancelled \subseteq Requests
BY DEF State

(* Requests and scenes are numbers from 1.                                 *)
LEMMA Numbers ==
  /\ \A r \in Requests : r \in Nat /\ r # 0 /\ r <= MaxSpawns
  /\ \A d \in DespawnRequests : d \in Nat /\ d # 0 /\ d <= MaxDespawns
  /\ NoScene \notin Scene
  /\ MaxSpawns \in Nat /\ MaxDespawns \in Nat /\ NoCommand = 0 /\ NoEntities = 0
BY BoundsAssumption, ConfigurationAssumption DEF Requests, DespawnRequests, NoScene, NoCommand, NoEntities

(* A record and its handle.                                                *)
LEMMA RecordTyped ==
  ASSUME NEW s \in State, NEW r \in Recs(s)
  PROVE  /\ r \in Requests /\ s.m_instances[r] \in InstanceRecord
         /\ s.m_instances[r].instance \in InstanceHandle
         /\ HandleOf(s, r) \in SlotHandle
         /\ HandleOf(s, r).scene \in Scene /\ HandleOf(s, r).slot \in Slot
         /\ s.m_instances[r].despawn \in Nat
         /\ s.m_instances[r].pending \in [id : Nat, type : SlotTypes]
<1>1. r \in Requests /\ s.m_instances[r] \in InstanceRecord
  BY Typed, RecordsTyped DEF Recs
<1>2. s.m_instances[r].instance \in InstanceHandle /\ s.m_instances[r].despawn \in Nat
      /\ s.m_instances[r].pending \in [id : Nat, type : SlotTypes]
  BY <1>1 DEF InstanceRecord
<1>3. HandleOf(s, r) \in SlotHandle
  BY <1>2 DEF HandleOf, InstanceHandle
<1> QED BY <1>1, <1>2, <1>3 DEF SlotHandle

(* The scene of every record is the component's.                           *)
LEMMA SceneOfRecord ==
  ASSUME NEW s, Lifecycle(s), NEW r \in Recs(s)
  PROVE  /\ HandleOf(s, r).scene = s.m_spawner /\ s.m_spawner \in Scene
         /\ s.life[s.m_spawner] \notin Unbuilt
         /\ s.m_lifecycle = "Ready"
         /\ Accepted(s, r) <=> s.life[s.m_spawner] \in {"Pending", "Alive"}
         /\ Accepted(s, r) <=> Living(s)
         /\ FindScene(s, s.m_spawner) <=> Living(s)
BY DEF Lifecycle, Accepted, AcceptsCommands, Living, Unbuilt, HandleOf, FindScene

SameButRecords(s, t) ==
  /\ SameScenes(s, t) /\ SamePipe(s, t) /\ SameComponent(s, t)
  /\ SameTickets(s, t) /\ SameBoundaries(s, t) /\ SameAnswers(s, t)
OtherRecords(s, t, r) ==
  /\ Recs(t) = Recs(s)
  /\ \A q \in Recs(s) : q # r => t.m_instances[q] = s.m_instances[q]
  /\ t.m_instances[r].instance = s.m_instances[r].instance
Rewrites(s, t, r) == t \in State /\ SameButRecords(s, t) /\ OtherRecords(s, t, r)

(* Writing a record.                                                       *)
LEMMA RecordWritten ==
  ASSUME NEW s \in State, NEW r \in Recs(s), NEW record \in InstanceRecord,
         record.instance = s.m_instances[r].instance
  PROVE  LET t == [s EXCEPT !.m_instances[r] = record] IN
         Rewrites(s, t, r) /\ t.m_instances[r] = record
<1> DEFINE J == [s.m_instances EXCEPT ![r] = record]
           t == [s EXCEPT !.m_instances = J]
<1>1. s.m_instances \in Instances BY Typed
<1>2. /\ J \in Instances /\ DOMAIN J = Recs(s) /\ J[r] = record
      /\ \A q \in Recs(s) : q # r => J[q] = s.m_instances[q]
  BY <1>1, RecordPut DEF Recs
<1>3. t = [s EXCEPT !.m_instances[r] = record]
  BY DEF State
<1> HIDE DEF J
<1>4. t \in State /\ t.m_instances = J
  BY <1>2 DEF State
<1>5. SameButRecords(s, t)
  BY DEF State, SameButRecords, SameScenes, SamePipe, SameComponent, SameTickets,
         SameBoundaries, SameAnswers
<1>6. OtherRecords(s, t, r) /\ t.m_instances[r] = record
  BY <1>2, <1>4 DEF OtherRecords, Recs
<1> QED BY <1>3, <1>4, <1>5, <1>6 DEF Rewrites

(* Nothing else is disturbed.                                              *)
LEMMA RewriteUndisturbed ==
  ASSUME NEW s, NEW t, NEW r, Rewrites(s, t, r), NEW q \in Recs(s)
  PROVE  Undisturbed(s, t, q)
<1>1. t.m_instances[q].instance = s.m_instances[q].instance /\ q \in Recs(t)
  BY DEF Rewrites, OtherRecords
<1>2. Living(t) <=> Living(s)
  BY DEF Rewrites, SameButRecords, SameScenes, SameComponent, Living
<1> QED BY <1>1, <1>2
    DEF Undisturbed, Rewrites, SameButRecords, SameScenes, SamePipe, SameComponent,
        SameTickets, SameBoundaries, SameAnswers

(* The other records fit their states as before.                           *)
LEMMA OthersFit ==
  ASSUME NEW s, NEW t, NEW q \in Recs(s), Undisturbed(s, t, q), NEW state, Fits(s, q, state),
         t.m_instances[q] = s.m_instances[q]
  PROVE  Fits(t, q, state)
BY OwesKept, TicketInKept, SlotInKept DEF Fits

(* A record may be rewritten where its command is not touched and the      *)
(* answers it owes are right.                                              *)
LEMMA RewrittenAnswering ==
  ASSUME NEW s, NEW t, NEW r \in Recs(s), Inv(s, {r}), Rewrites(s, t, r),
         t.m_instances[r].pending = s.m_instances[r].pending,
         ~IsIdle(s, r) => t.m_instances[r].state = s.m_instances[r].state,
         Answering(t)
  PROVE  Inv(t, {r}) /\ Undisturbed(s, t, r) /\ Recs(t) = Recs(s)
<1>0. s \in State /\ t \in State
  BY DEF Inv, Shared, Rewrites
<1>1. /\ SameScenes(s, t) /\ SamePipe(s, t) /\ SameComponent(s, t)
      /\ SameTickets(s, t) /\ SameBoundaries(s, t) /\ SameAnswers(s, t)
  BY DEF Rewrites, SameButRecords
<1>2. SameHandles(s, t) /\ NoNewLife(s, t) /\ Recs(t) = Recs(s)
  BY <1>1 DEF SameHandles, NoNewLife, Rewrites, OtherRecords, SameScenes
<1>3. Pipeline(t) = Pipeline(s)
  BY <1>1 DEF Pipeline, SamePipe
<1>4. \A q \in Recs(s) : /\ t.m_instances[q].pending = s.m_instances[q].pending
                         /\ ~IsIdle(s, q) => t.m_instances[q].state = s.m_instances[q].state
  BY DEF Rewrites, OtherRecords
<1>5. Lifecycle(t) BY <1>1, <1>2, LifecycleKept DEF Inv, Shared
<1>7. Boundaries(t) BY <1>1, BoundariesKept DEF Inv, Shared
<1>8. Tickets(t) BY <1>1, <1>2, TicketsKept DEF Inv, Shared, SameAnswers, SameComponent
<1>9. Queue(t) BY <1>0, <1>1, <1>2, <1>3, <1>4, QueueKept DEF Inv, Shared, SamePipe, SameComponent
<1>10. Leases(t) BY <1>0, <1>1, <1>2, LeasesKept DEF Inv, Shared, SameScenes, SameComponent
<1>11. Stranding(t) BY <1>0, <1>1, <1>2, <1>3, StrandingKept DEF Inv, Shared, SameScenes
<1>12. \A q \in Recs(s) : Undisturbed(s, t, q)
  BY RewriteUndisturbed
<1>13. ASSUME NEW q \in Recs(t) \ {r} PROVE Fits(t, q, t.m_instances[q].state)
  <2>1. q \in Recs(s) /\ t.m_instances[q] = s.m_instances[q]
    BY <1>2 DEF Rewrites, OtherRecords
  <2>2. Fits(s, q, s.m_instances[q].state)
    BY <2>1 DEF Inv
  <2>3. Undisturbed(s, t, q)
    BY <2>1, <1>12
  <2> QED BY ONLY <2>1, <2>2, <2>3, OthersFit
<1> QED BY <1>0, <1>2, <1>5, <1>7, <1>8, <1>9, <1>10, <1>11, <1>12, <1>13 DEF Inv, Shared

(* Or where neither its command nor its despawn request is touched.        *)
LEMMA Rewritten ==
  ASSUME NEW s, NEW t, NEW r \in Recs(s), Inv(s, {r}), Rewrites(s, t, r),
         t.m_instances[r].pending = s.m_instances[r].pending,
         ~IsIdle(s, r) => t.m_instances[r].state = s.m_instances[r].state,
         t.m_instances[r].despawn = s.m_instances[r].despawn
  PROVE  Inv(t, {r}) /\ Undisturbed(s, t, r) /\ Recs(t) = Recs(s)
<1>1. SameComponent(s, t) /\ SameAnswers(s, t) /\ Recs(t) = Recs(s)
  BY DEF Rewrites, SameButRecords, OtherRecords
<1>2. \A q \in Recs(s) : t.m_instances[q].despawn = s.m_instances[q].despawn
  BY DEF Rewrites, OtherRecords
<1>3. Answering(t) BY <1>1, <1>2, AnsweringKept DEF Inv, Shared
<1> QED BY <1>3, RewrittenAnswering

(* A rewritten record still fits a state, if what the state is about is    *)
(* the same.                                                               *)
LEMMA StillFits ==
  ASSUME NEW s, NEW t, NEW r, NEW state, Undisturbed(s, t, r), Fits(s, r, state),
         LET new == t.m_instances[r]
             old == s.m_instances[r]
         IN  /\ new.terminal = old.terminal /\ new.despawn = old.despawn
             /\ new.ticket = old.ticket /\ new.attached = old.attached
             /\ new.declares = old.declares
  PROVE  Fits(t, r, state)
BY OwesKept, TicketInKept, SlotInKept DEF Fits

-----------------------------------------------------------------------------
(* Waiting for a command                                                   *)

(* The members of the pipeline.                                            *)
LEMMA PipelineTyped ==
  ASSUME NEW s \in State
  PROVE  /\ Pipeline(s) \in Seq(Command) /\ Len(Pipeline(s)) \in Nat
         /\ \A i \in 1 .. Len(Pipeline(s)) : Pipeline(s)[i] \in Command
         /\ \A i \in 1 .. Len(Pipeline(s)) : Slotted(Pipeline(s)[i]) =>
              Pipeline(s)[i] \in SlotCommand /\ Pipeline(s)[i].slot.scene \in Scene
                /\ Pipeline(s)[i].slot.slot \in Slot /\ Pipeline(s)[i].id \in Nat
<1>1. Pipeline(s) \in Seq(Command)
  BY Typed, ConcatProperties DEF Pipeline
<1>2. \A i \in 1 .. Len(Pipeline(s)) : Pipeline(s)[i] \in Command
  BY <1>1
<1>3. \A c \in Command : Slotted(c) => c \in SlotCommand
  BY DEF Command, SceneCommand, SlotTypes, Slotted
<1>4. \A c \in SlotCommand : c.slot.scene \in Scene /\ c.slot.slot \in Slot /\ c.id \in Nat
  BY DEF SlotCommand, SlotHandle
<1> QED BY <1>1, <1>2, <1>3, <1>4

(* A command joins the pipeline at its end and leaves it at its front.     *)
LEMMA PipelineAppend ==
  ASSUME NEW s \in State, NEW t, NEW c \in Command,
         t.draining = s.draining, t.m_commands = Append(s.m_commands, c)
  PROVE  Pipeline(t) = Append(Pipeline(s), c)
<1>1. ASSUME NEW p \in Seq(Command), NEW q \in Seq(Command)
      PROVE  p \o Append(q, c) = Append(p \o q, c)
  <2>1. Append(q, c) = q \o <<c>> /\ Append(p \o q, c) = (p \o q) \o <<c>>
    BY AppendIsConcat, ConcatProperties
  <2>2. <<c>> \in Seq(Command) OBVIOUS
  <2> QED BY <2>1, <2>2, ConcatAssociative, ConcatProperties
<1>2. s.draining \in Seq(Command) /\ s.m_commands \in Seq(Command)
  BY Typed
<1> QED BY <1>1, <1>2 DEF Pipeline

(* The oldest command is taken.                                            *)
LEMMA PipelineTail ==
  ASSUME NEW s \in State, NEW t, s.draining # <<>>,
         t.draining = Tail(s.draining), t.m_commands = s.m_commands
  PROVE  /\ Pipeline(t) = Tail(Pipeline(s)) /\ Pipeline(s) # <<>>
         /\ Head(s.draining) = Pipeline(s)[1]
<1>1. \A p, q \in Seq(Command) : p # <<>> =>
        Tail(p) \o q = Tail(p \o q) /\ p \o q # <<>> /\ Head(p) = (p \o q)[1]
  BY PipeTail
<1>2. s.draining \in Seq(Command) /\ s.m_commands \in Seq(Command)
  BY Typed
<1> QED BY <1>1, <1>2 DEF Pipeline

SameButCommands(s, t) ==
  /\ SameScenes(s, t) /\ SameComponent(s, t)
  /\ SameTickets(s, t) /\ SameBoundaries(s, t) /\ SameAnswers(s, t)

(* Await queues the record's command and puts the record in its state.     *)
LEMMA AwaitEffect ==
  ASSUME NEW s \in State, NEW r \in Recs(s), NEW state \in RecordStates, NEW type \in SlotTypes
  PROVE  LET t == Await(s, r, state, type)
             old == s.m_instances[r]
             new == t.m_instances[r]
         IN  /\ t \in State /\ SameButCommands(s, t) /\ OtherRecords(s, t, r)
             /\ t.m_nextCommandId = s.m_nextCommandId + 1
             /\ new = [old EXCEPT !.state = state,
                                  !.pending = [id |-> s.m_nextCommandId, type |-> type]]
             /\ CommandOf(t, r) \in SlotCommand
             /\ Pipeline(t) = Append(Pipeline(s), CommandOf(t, r))
<1> DEFINE t == Await(s, r, state, type)
           old == s.m_instances[r]
           new == [old EXCEPT !.state = state,
                              !.pending = [id |-> s.m_nextCommandId, type |-> type]]
           J == [s.m_instances EXCEPT ![r] = new]
           c == [type |-> type, slot |-> old.instance.slot, owner |-> old.instance.generation,
                 entities |-> r, id |-> s.m_nextCommandId]
<1>0. /\ s.m_instances \in Instances /\ s.m_nextCommandId \in Nat /\ s.m_commands \in Seq(Command)
      /\ s.draining \in Seq(Command)
  BY Typed
<1>1. /\ old \in InstanceRecord /\ old.instance \in InstanceHandle
      /\ old.instance.slot \in SlotHandle /\ old.instance.generation \in Nat /\ r \in Nat
  BY RecordTyped, Numbers DEF HandleOf, InstanceHandle
<1>2. new \in InstanceRecord /\ new.instance = old.instance
  BY <1>0, <1>1 DEF InstanceRecord
<1>3. c \in SlotCommand /\ c \in Command
  BY <1>0, <1>1 DEF SlotCommand, Command
<1>4. /\ J \in Instances /\ DOMAIN J = Recs(s) /\ J[r] = new
      /\ \A q \in Recs(s) : q # r => J[q] = s.m_instances[q]
  BY <1>0, <1>2, RecordPut DEF Recs
<1> DEFINE s1 == [s EXCEPT !.m_nextCommandId = s.m_nextCommandId + 1]
           s2 == [s1 EXCEPT !.m_commands = Append(s.m_commands, c)]
<1>5. s1 \in State /\ s1.m_commands = s.m_commands /\ s1.m_instances = s.m_instances
  <2>1. s.m_nextCommandId + 1 \in Nat BY <1>0
  <2>2. \A n \in Nat : /\ [s EXCEPT !.m_nextCommandId = n] \in State
                       /\ [s EXCEPT !.m_nextCommandId = n].m_commands = s.m_commands
                       /\ [s EXCEPT !.m_nextCommandId = n].m_instances = s.m_instances
    BY DEF State
  <2> QED BY <2>1, <2>2, Zenon
<1>6. Append(s.m_commands, c) \in Seq(Command)
  BY <1>0, <1>3
<1>7. /\ s2 = Submit(s, type, old.instance, r, TRUE)
      /\ s2 \in State /\ s2.m_instances = s.m_instances
  <2>1. s2 \in State /\ s2.m_instances = s.m_instances
    <3> HIDE DEF s1, c
    <3> QED BY <1>5, <1>6 DEF State
  <2>2. s2 = Submit(s, type, old.instance, r, TRUE)
    <3>1. s2 = Enqueue(s1, c)
      <4> HIDE DEF s1, c
      <4> QED BY <1>5 DEF Enqueue
    <3> QED BY <3>1 DEF Submit
  <2> QED BY <2>1, <2>2
<1>8. t = [s2 EXCEPT !.m_instances = J]
  <2>1. t = [s2 EXCEPT !.m_instances[r] = [@ EXCEPT !.state = state,
                          !.pending = [id |-> s.m_nextCommandId, type |-> type]]]
    BY <1>7 DEF Await
  <2> HIDE DEF s2
  <2> QED BY <1>7, <2>1 DEF State
<1> HIDE DEF J, c, new
<1>81. t \in State
  <2> HIDE DEF t, s2
  <2> QED BY <1>4, <1>7, <1>8 DEF State
<1>82. /\ t.m_nextCommandId = s.m_nextCommandId + 1 /\ t.m_commands = Append(s.m_commands, c)
       /\ t.m_instances = J /\ t.draining = s.draining
  BY <1>8 DEF State
<1>9. SameButCommands(s, t)
  BY <1>8 DEF State, SameButCommands, SameScenes, SameComponent, SameTickets, SameBoundaries, SameAnswers
<1>10. OtherRecords(s, t, r) /\ t.m_instances[r] = new
  BY <1>2, <1>4, <1>82 DEF OtherRecords, Recs
<1>11. CommandOf(t, r) = c
  <2>1. /\ new.pending.type = type /\ new.pending.id = s.m_nextCommandId
        /\ new.instance = old.instance
    BY <1>1 DEF new, InstanceRecord
  <2> QED BY <1>10, <2>1 DEF CommandOf, HandleOf, c
<1>12. Pipeline(t) = Append(Pipeline(s), c)
  <2> HIDE DEF t
  <2> QED BY <1>3, <1>82, PipelineAppend
<1> QED BY <1>3, <1>81, <1>82, <1>9, <1>10, <1>11, <1>12 DEF new

(* A longer pipeline keeps what it held.                                   *)
LEMMA StrandingGrows ==
  ASSUME NEW s \in State, NEW t, Stranding(s), NEW c \in Command,
         Pipeline(t) = Append(Pipeline(s), c),
         c.type = "Detach" => Holds(t, c.slot),
         t.slots = s.slots, t.controllers = s.controllers, t.life = s.life, SameHandles(s, t)
  PROVE  Stranding(t)
<1> DEFINE p == Pipeline(s)
           q == Pipeline(t)
<1>1. /\ p \in Seq(Command) /\ Len(q) = Len(p) + 1 /\ Len(p) \in Nat
      /\ q[Len(q)] = c /\ \A i \in 1 .. Len(p) : q[i] = p[i]
  BY PipelineTyped, Appended
<1>2. \A h : Holds(t, h) <=> Holds(s, h)
  BY DEF Holds, HandleOf, SameHandles
<1>3. \A h : HasControllers(t, h) <=> HasControllers(s, h)
  BY DEF HasControllers
<1> HIDE DEF p, q
<1>4. \A h : (\E k \in 1 .. Len(p) : ReleaseOf(p[k], h)) => \E k \in 1 .. Len(q) : ReleaseOf(q[k], h)
  BY <1>1
<1>5. \A scene \in Scene, i \in Slot :
       (t.life[scene] = "Alive" /\ t.slots[scene][i].reserved) =>
         LET handle == [scene |-> scene, slot |-> i, generation |-> t.slots[scene][i].generation]
         IN  \/ Holds(t, handle) \/ HasControllers(t, handle)
             \/ \E k \in 1 .. Len(q) : ReleaseOf(q[k], handle)
  BY <1>2, <1>3, <1>4 DEF Stranding, p
<1>6. ASSUME NEW k \in 1 .. Len(q), q[k].type = "Detach", t.life[q[k].slot.scene] = "Alive",
             ~Holds(t, q[k].slot)
      PROVE  \E m \in 1 .. Len(q) : m > k /\ ReleaseOf(q[m], q[k].slot)
  <2>1. k # Len(q) BY <1>1, <1>6
  <2>2. k \in 1 .. Len(p) /\ q[k] = p[k] BY <1>1, <2>1
  <2>3. PICK m \in 1 .. Len(p) : m > k /\ ReleaseOf(p[m], p[k].slot)
    BY <1>2, <1>6, <2>2 DEF Stranding, p
  <2> QED BY <1>1, <2>2, <2>3
<1> QED BY <1>5, <1>6 DEF Stranding, q

(* The command a record waits for from now on joins the pipeline.          *)
LEMMA QueueGrows ==
  ASSUME NEW s \in State, NEW t, Queue(s), NEW r \in Recs(s), IsIdle(s, r), Lifecycle(s),
         t.life = s.life, t.m_spawner = s.m_spawner, OtherRecords(s, t, r),
         t.m_nextCommandId = s.m_nextCommandId + 1,
         CommandOf(t, r) \in SlotCommand, Pipeline(t) = Append(Pipeline(s), CommandOf(t, r)),
         t.m_instances[r].pending.id = s.m_nextCommandId,
         <<t.m_instances[r].state, t.m_instances[r].pending.type>> \in Steps
  PROVE  Queue(t)
<1> DEFINE c == CommandOf(t, r)
           p == Pipeline(s)
           q == Pipeline(t)
           n == s.m_nextCommandId
<1>0. n \in Nat /\ n > 0 /\ n # NoCommand
  BY Typed, Numbers DEF Queue
<1>1. /\ p \in Seq(Command) /\ Len(q) = Len(p) + 1 /\ Len(p) \in Nat
      /\ q[Len(q)] = c /\ \A i \in 1 .. Len(p) : q[i] = p[i]
  BY PipelineTyped, Appended DEF Command
<1>2. /\ c.id = n /\ c.slot = HandleOf(s, r) /\ Slotted(c)
  BY DEF CommandOf, OtherRecords, HandleOf, SlotCommand, Slotted
<1>3. \A x \in Recs(s) : x # r => /\ CommandOf(t, x) = CommandOf(s, x)
                                  /\ t.m_instances[x] = s.m_instances[x]
                                  /\ IsIdle(t, x) <=> IsIdle(s, x)
  BY DEF CommandOf, OtherRecords, HandleOf, IsIdle
<1>4. \A i \in 1 .. Len(p) : Slotted(p[i]) => p[i].id \in Nat /\ p[i].id < n
  BY PipelineTyped DEF Queue
<1>5. \A x \in Recs(s) : s.m_instances[x].pending.id \in Nat /\ s.m_instances[x].pending.id < n
  <2>1. \A x \in Recs(s) : s.m_instances[x].pending.id \in Nat BY RecordTyped
  <2>2. \A x \in Recs(s) : ~IsIdle(s, x) => s.m_instances[x].pending.id < n BY DEF Queue
  <2>3. \A x \in Recs(s) : IsIdle(s, x) => s.m_instances[x].pending.id < n
    BY <1>0, Numbers DEF IsIdle
  <2> QED BY <2>1, <2>2, <2>3
<1>6. Recs(t) = Recs(s) BY DEF OtherRecords
<1>7. HandleOf(s, r).scene = s.m_spawner /\ s.life[s.m_spawner] \notin Unbuilt
  BY SceneOfRecord
<1> HIDE DEF p, q, n, c
<1>8. ASSUME NEW i \in 1 .. Len(q), Slotted(q[i])
      PROVE  /\ t.life[q[i].slot.scene] \notin Unbuilt
             /\ q[i].id < n + 1
             /\ q[i].slot.scene = t.m_spawner =>
                  q[i].id # NoCommand /\ \E x \in Recs(t) : t.m_instances[x].pending.id = q[i].id
             /\ q[i].id # NoCommand => \A x \in Recs(t) :
                  t.m_instances[x].pending.id = q[i].id => q[i] = CommandOf(t, x)
             /\ q[i].id # NoCommand => \A j \in 1 .. Len(q) :
                  (Slotted(q[j]) /\ q[j].id = q[i].id) => j = i
  <2>1. CASE i = Len(q)
    <3>1. q[i] = c /\ q[i].id = n BY <1>1, <1>2, <2>1
    <3>2. \A x \in Recs(t) : t.m_instances[x].pending.id = n => x = r
      BY <1>3, <1>5, <1>6, <1>0
    <3>3. ASSUME NEW j \in 1 .. Len(q), Slotted(q[j]), q[j].id = n PROVE j = i
      <4>1. CASE j # Len(q)
        <5>1. j \in 1 .. Len(p) /\ q[j] = p[j] BY <1>1, <4>1
        <5>2. p[j].id < n /\ p[j].id \in Nat BY <5>1, <3>3, <1>4
        <5> QED BY <1>0, <5>1, <5>2, <3>3
      <4> QED BY <4>1, <2>1
    <3>4. t.m_instances[r].pending.id = n /\ r \in Recs(t) BY <1>6 DEF n
    <3>5. c = CommandOf(t, r) BY DEF c
    <3> QED BY <1>0, <1>2, <1>7, <3>1, <3>2, <3>3, <3>4, <3>5
  <2>2. CASE i # Len(q)
    <3>1. i \in 1 .. Len(p) /\ q[i] = p[i] BY <1>1, <2>2
    <3>2. p[i].id \in Nat /\ p[i].id < n BY <1>4, <1>8, <3>1
    <3>3. q[i].slot.scene = t.m_spawner =>
            q[i].id # NoCommand /\ \E x \in Recs(t) : t.m_instances[x].pending.id = q[i].id
      <4>1. ASSUME p[i].slot.scene = s.m_spawner
            PROVE  p[i].id # NoCommand /\ \E x \in Recs(s) : s.m_instances[x].pending.id = p[i].id
        BY <4>1, <3>1, <1>8 DEF Queue, p
      <4>2. \A x \in Recs(s) : (s.m_instances[x].pending.id = p[i].id /\ p[i].id # NoCommand) =>
              t.m_instances[x].pending.id = p[i].id
        BY <1>3 DEF IsIdle
      <4> QED BY <3>1, <4>1, <4>2, <1>6
    <3>4. ASSUME q[i].id # NoCommand, NEW x \in Recs(t), t.m_instances[x].pending.id = q[i].id
          PROVE  q[i] = CommandOf(t, x)
      <4>1. x # r BY <3>1, <3>2, <3>4, <1>0 DEF n
      <4>2. x \in Recs(s) /\ CommandOf(t, x) = CommandOf(s, x) /\ s.m_instances[x].pending.id = p[i].id
        BY <4>1, <1>3, <1>6, <3>1, <3>4
      <4>3. p[i] = CommandOf(s, x)
        BY <4>2, <3>1, <3>4, <1>8 DEF Queue, p
      <4> QED BY <3>1, <4>2, <4>3
    <3>5. ASSUME q[i].id # NoCommand, NEW j \in 1 .. Len(q), Slotted(q[j]), q[j].id = q[i].id
          PROVE  j = i
      <4>1. j # Len(q) BY <1>1, <1>2, <3>1, <3>2, <3>5, <1>0
      <4>2. j \in 1 .. Len(p) /\ q[j] = p[j] BY <1>1, <4>1
      <4> QED BY <3>1, <3>5, <4>2, <1>8 DEF Queue, p
    <3>6. t.life[q[i].slot.scene] \notin Unbuilt
      BY <3>1, <1>8 DEF Queue, p
    <3> QED BY <1>0, <3>1, <3>2, <3>3, <3>4, <3>5, <3>6
  <2> QED BY <2>1, <2>2
<1>9. ASSUME NEW x \in Recs(t), ~IsIdle(t, x)
      PROVE  /\ t.m_instances[x].pending.id < n + 1
             /\ <<t.m_instances[x].state, t.m_instances[x].pending.type>> \in Steps
             /\ \A y \in Recs(t) : t.m_instances[y].pending.id = t.m_instances[x].pending.id => y = x
  <2>1. CASE x = r
    <3>1. \A y \in Recs(t) : t.m_instances[y].pending.id = n => y = r
      BY <1>3, <1>5, <1>6, <1>0
    <3> QED BY <2>1, <3>1, <1>0 DEF n
  <2>2. CASE x # r
    <3>1. x \in Recs(s) /\ t.m_instances[x] = s.m_instances[x] /\ ~IsIdle(s, x)
      BY <1>3, <1>6, <1>9, <2>2
    <3>2. s.m_instances[x].pending.id \in Nat /\ s.m_instances[x].pending.id < n BY <1>5, <3>1
    <3>3. /\ <<s.m_instances[x].state, s.m_instances[x].pending.type>> \in Steps
          /\ \A y \in Recs(s) : s.m_instances[y].pending.id = s.m_instances[x].pending.id => y = x
      BY <3>1 DEF Queue
    <3>4. t.m_instances[r].pending.id # s.m_instances[x].pending.id
      BY <3>2, <1>0 DEF n
    <3> QED BY <1>0, <1>3, <1>6, <3>1, <3>2, <3>3, <3>4
  <2> QED BY <2>1, <2>2
<1>10. t.m_nextCommandId > 0 /\ t.m_nextCommandId = n + 1 BY <1>0 DEF n
<1> QED BY <1>8, <1>9, <1>10 DEF Queue, q

(* A record that fits a state may wait for that state's command.           *)
LEMMA AwaitKeeps ==
  ASSUME NEW s, NEW r, Loose(s, r), NEW state, NEW type, <<state, type>> \in Steps,
         Fits(s, r, state)
  PROVE  Inv(Await(s, r, state, type), {})
<1> DEFINE t == Await(s, r, state, type)
<1>0. s \in State /\ r \in Recs(s) /\ state \in RecordStates /\ type \in SlotTypes
  BY DEF Loose, Inv, Shared, Steps, RecordStates, Starting, Cleaning, SlotTypes
<1>1. /\ t \in State /\ SameButCommands(s, t) /\ OtherRecords(s, t, r)
      /\ t.m_nextCommandId = s.m_nextCommandId + 1
      /\ t.m_instances[r] = [s.m_instances[r] EXCEPT !.state = state,
                               !.pending = [id |-> s.m_nextCommandId, type |-> type]]
      /\ CommandOf(t, r) \in SlotCommand /\ Pipeline(t) = Append(Pipeline(s), CommandOf(t, r))
  BY <1>0, AwaitEffect, Zenon
<1> HIDE DEF t
<1>2. s.m_instances[r] \in InstanceRecord BY <1>0, RecordTyped
<1>3. LET new == t.m_instances[r]
          old == s.m_instances[r]
      IN  /\ new.terminal = old.terminal /\ new.despawn = old.despawn
          /\ new.ticket = old.ticket /\ new.attached = old.attached
          /\ new.declares = old.declares /\ new.state = state
          /\ new.pending.id = s.m_nextCommandId /\ new.pending.type = type
  BY <1>1, <1>2 DEF InstanceRecord
<1>4. /\ SameScenes(s, t) /\ SameComponent(s, t)
      /\ SameTickets(s, t) /\ SameBoundaries(s, t) /\ SameAnswers(s, t)
  BY <1>1 DEF SameButCommands
<1>5. SameHandles(s, t) /\ NoNewLife(s, t) /\ Recs(t) = Recs(s)
  BY <1>1, <1>4 DEF SameHandles, NoNewLife, OtherRecords, SameScenes
<1>6. \A q \in Recs(s) : t.m_instances[q].despawn = s.m_instances[q].despawn
  BY <1>1, <1>3 DEF OtherRecords
<1>7. Shared(s) /\ IsIdle(s, r) BY DEF Loose, Inv
<1>8. Lifecycle(t) BY <1>4, <1>5, <1>7, LifecycleKept DEF Shared
<1>9. Answering(t) BY <1>4, <1>5, <1>6, <1>7, AnsweringKept DEF Shared
<1>10. Boundaries(t) BY <1>4, <1>7, BoundariesKept DEF Shared
<1>11. Tickets(t) BY <1>4, <1>5, <1>7, TicketsKept DEF Shared, SameAnswers, SameComponent
<1>12. Queue(t)
  BY <1>0, <1>1, <1>3, <1>4, <1>7, QueueGrows DEF Shared, SameScenes, SameComponent
<1>13. Leases(t) BY <1>0, <1>4, <1>5, <1>7, LeasesKept DEF Shared, SameScenes, SameComponent
<1>14. Stranding(t)
  <2>1. Holds(t, CommandOf(t, r).slot)
    BY <1>0, <1>5 DEF Holds, CommandOf
  <2>2. CommandOf(t, r) \in Command BY <1>1 DEF Command
  <2> QED BY <1>0, <1>1, <1>4, <1>5, <1>7, <2>1, <2>2, StrandingGrows DEF Shared, SameScenes
<1>15. ASSUME NEW q \in Recs(s) PROVE Undisturbed(s, t, q)
  <2>1. t.m_instances[q].instance = s.m_instances[q].instance /\ q \in Recs(t)
    BY <1>5 DEF SameHandles
  <2>2. Living(t) <=> Living(s)
    BY <1>4 DEF SameScenes, SameComponent, Living
  <2> QED BY <1>4, <2>1, <2>2
      DEF Undisturbed, SameScenes, SameComponent, SameTickets, SameBoundaries, SameAnswers
<1>16. ASSUME NEW q \in Recs(t) PROVE Fits(t, q, t.m_instances[q].state)
  <2>1. q \in Recs(s) /\ Undisturbed(s, t, q) BY <1>5, <1>15
  <2>2. CASE q = r
    <3>1. Fits(t, r, state) BY <1>3, <2>1, <2>2, StillFits
    <3> QED BY <1>3, <2>2, <3>1
  <2>3. CASE q # r
    <3>1. t.m_instances[q] = s.m_instances[q] BY <1>1, <2>1, <2>3 DEF OtherRecords
    <3>2. Fits(s, q, s.m_instances[q].state) BY <2>1, <2>3 DEF Loose, Inv
    <3> QED BY ONLY <2>1, <3>1, <3>2, OthersFit
  <2> QED BY <2>2, <2>3
<1> QED BY <1>1, <1>8, <1>9, <1>10, <1>11, <1>12, <1>13, <1>14, <1>16 DEF Inv, Shared, t

-----------------------------------------------------------------------------
(* Answers                                                                 *)

(* Requests without an answer given, queued or owed.                       *)
OpenSpawn(s, r) ==
  /\ r \in Requests /\ r < s.m_nextSpawnRequest /\ s.answers[r] = <<>> /\ r \notin Recs(s)
  /\ \A i \in 1 .. Len(s.queued) :
       s.queued[i].kind = "SpawnFailed" => s.queued[i].answers # r
OpenDespawn(s, d) ==
  /\ d \in DespawnRequests /\ d < s.m_nextDespawnRequest /\ s.despawnAnswers[d] = <<>>
  /\ \A r \in Recs(s) : s.m_instances[r].despawn # d
  /\ \A i \in 1 .. Len(s.queued) :
       s.queued[i].kind = "DespawnFailed" => s.queued[i].answers # d

SameButQueued(s, t) ==
  /\ SameScenes(s, t) /\ SamePipe(s, t) /\ SameComponent(s, t)
  /\ SameTickets(s, t) /\ SameBoundaries(s, t) /\ t.m_instances = s.m_instances

(* The members of the function queue.                                      *)
LEMMA QueuedTyped ==
  ASSUME NEW s \in State
  PROVE  /\ s.queued \in Seq(Function) /\ Len(s.queued) \in Nat
         /\ \A i \in 1 .. Len(s.queued) : s.queued[i] \in Function
         /\ \A i \in 1 .. Len(s.queued) : IsCallback(s.queued[i]) =>
              s.queued[i].request.value \in Requests
         /\ \A i \in 1 .. Len(s.queued) : s.queued[i].kind \in
              {"Spawned", "Despawned", "SpawnFailed", "DespawnFailed"}
<1>1. s.queued \in Seq(Function) BY Typed
<1>2. \A i \in 1 .. Len(s.queued) : s.queued[i] \in Function BY <1>1
<1>3. \A f \in Function :
        /\ IsCallback(f) => f.request.value \in Requests
        /\ f.kind \in {"Spawned", "Despawned", "SpawnFailed", "DespawnFailed"}
  BY DEF Function, IsCallback, SpawnedFunction, DespawnedFunction, SpawnFailedFunction,
         DespawnFailedFunction, RequestHandle
<1> QED BY <1>1, <1>2, <1>3

(* A function joins the queue.                                             *)
LEMMA EnqueuedEffect ==
  ASSUME NEW s \in State, NEW f \in Function
  PROVE  LET t == Enqueued(s, f) IN
         /\ t \in State /\ SameButQueued(s, t) /\ t.queued = Append(s.queued, f)
         /\ t.answers = s.answers /\ t.despawnAnswers = s.despawnAnswers
<1> DEFINE t == Enqueued(s, f)
<1>1. Append(s.queued, f) \in Seq(Function)
  BY Typed, Appended
<1>2. t \in State
  BY <1>1 DEF State, Enqueued
<1>3. SameButQueued(s, t) /\ t.queued = Append(s.queued, f)
      /\ t.answers = s.answers /\ t.despawnAnswers = s.despawnAnswers
  BY DEF State, Enqueued, SameButQueued, SameScenes, SamePipe, SameComponent, SameTickets, SameBoundaries
<1> QED BY <1>2, <1>3

(* What no answer touches.                                                 *)
LEMMA AnswerKeepsRest ==
  ASSUME NEW s \in State, NEW t, Lifecycle(s), Queue(s), Leases(s), Stranding(s), SameButQueued(s, t)
  PROVE  Lifecycle(t) /\ Queue(t) /\ Leases(t) /\ Stranding(t)
<1>1. /\ SameScenes(s, t) /\ SamePipe(s, t) /\ SameComponent(s, t) /\ t.m_instances = s.m_instances
  BY DEF SameButQueued
<1>2. SameHandles(s, t) /\ NoNewLife(s, t) /\ Recs(t) = Recs(s)
  BY <1>1 DEF SameHandles, NoNewLife, SameScenes, Recs
<1>3. Pipeline(t) = Pipeline(s)
  BY <1>1 DEF Pipeline, SamePipe
<1>4. Lifecycle(t) BY <1>1, <1>2, LifecycleKept
<1>5. Queue(t) BY <1>1, <1>2, <1>3, QueueKept DEF SamePipe, SameComponent
<1>6. Leases(t) BY <1>1, <1>2, LeasesKept DEF SameScenes, SameComponent
<1>7. Stranding(t) BY <1>1, <1>2, <1>3, StrandingKept DEF SameScenes
<1> QED BY <1>4, <1>5, <1>6, <1>7

(* Records an answer to another request does not concern.                  *)
LEMMA AnswerUndisturbed ==
  ASSUME NEW s, NEW t, NEW q \in Recs(s), SameButQueued(s, t), t.answers[q] = s.answers[q],
         \A i \in 1 .. Len(t.queued) :
           (IsCallback(t.queued[i]) /\ t.queued[i].request.value = q) =>
             \E j \in 1 .. Len(s.queued) : s.queued[j] = t.queued[i]
  PROVE  Undisturbed(s, t, q)
<1>1. t.m_instances = s.m_instances /\ q \in Recs(t)
  BY DEF SameButQueued, Recs
<1>2. Living(t) <=> Living(s)
  BY DEF SameButQueued, SameScenes, SameComponent, Living
<1> QED BY <1>1, <1>2
    DEF Undisturbed, SameButQueued, SameScenes, SameComponent, SameTickets, SameBoundaries

(* Queueing a failure.                                                     *)
LEMMA FailureQueued ==
  ASSUME NEW s, NEW R, Inv(s, R), NEW f \in SpawnFailedFunction \union DespawnFailedFunction,
         f.kind = "SpawnFailed" => OpenSpawn(s, f.answers),
         f.kind = "DespawnFailed" => OpenDespawn(s, f.answers)
  PROVE  Inv(Enqueued(s, f), R)
<1> DEFINE t == Enqueued(s, f)
<1>0. s \in State /\ Shared(s) BY DEF Inv, Shared
<1>1. f \in Function /\ ~IsCallback(f) /\ f.kind \in {"SpawnFailed", "DespawnFailed"}
  BY DEF Function, IsCallback, SpawnFailedFunction, DespawnFailedFunction
<1>2. /\ t \in State /\ SameButQueued(s, t) /\ t.queued = Append(s.queued, f)
      /\ t.answers = s.answers /\ t.despawnAnswers = s.despawnAnswers
  BY <1>0, <1>1, EnqueuedEffect
<1> HIDE DEF t
<1>3. /\ Len(t.queued) = Len(s.queued) + 1 /\ Len(s.queued) \in Nat
      /\ \A i \in 1 .. Len(t.queued) : t.queued[i] = IF i = Len(s.queued) + 1 THEN f ELSE s.queued[i]
  BY <1>0, <1>1, <1>2, QueuedTyped, Appended
<1>4. \A i \in 1 .. Len(t.queued) : i # Len(s.queued) + 1 => i \in 1 .. Len(s.queued) /\ t.queued[i] = s.queued[i]
  BY <1>3
<1>5. t.m_instances = s.m_instances /\ Recs(t) = Recs(s) /\ SameComponent(s, t)
      /\ SameTickets(s, t) /\ SameBoundaries(s, t)
  BY <1>2 DEF SameButQueued, Recs
<1>6. Answering(t)
  <2>1. ASSUME NEW i \in 1 .. Len(s.queued) PROVE Purpose(s.queued[i]) # Purpose(f)
    <3>1. s.queued[i].kind \in {"Spawned", "Despawned", "SpawnFailed", "DespawnFailed"}
      BY <1>0, QueuedTyped
    <3> QED BY <1>1, <3>1 DEF Purpose, IsCallback, OpenSpawn, OpenDespawn
  <2>2. ASSUME NEW i \in 1 .. Len(t.queued), NEW j \in 1 .. Len(t.queued),
               Purpose(t.queued[i]) = Purpose(t.queued[j])
        PROVE  i = j
    <3>1. CASE i = Len(s.queued) + 1 /\ j # Len(s.queued) + 1
      BY <1>3, <1>4, <2>1, <2>2, <3>1
    <3>2. CASE i # Len(s.queued) + 1 /\ j = Len(s.queued) + 1
      BY <1>3, <1>4, <2>1, <2>2, <3>2
    <3>3. CASE i # Len(s.queued) + 1 /\ j # Len(s.queued) + 1
      BY <1>0, <1>4, <2>2, <3>3 DEF Shared, Answering
    <3> QED BY <3>1, <3>2, <3>3
  <2>3. ASSUME NEW i \in 1 .. Len(t.queued)
        PROVE  LET g == t.queued[i] IN
               /\ g.kind = "SpawnFailed" =>
                    /\ g.answers < t.m_nextSpawnRequest /\ t.answers[g.answers] = <<>>
                    /\ g.answers \notin Recs(t)
               /\ g.kind = "DespawnFailed" =>
                    /\ g.answers < t.m_nextDespawnRequest /\ t.despawnAnswers[g.answers] = <<>>
                    /\ \A r \in Recs(t) : t.m_instances[r].despawn # g.answers
    <3>1. CASE i = Len(s.queued) + 1
      BY <1>2, <1>3, <1>5, <3>1 DEF OpenSpawn, OpenDespawn, SameComponent
    <3>2. CASE i # Len(s.queued) + 1
      BY <1>0, <1>2, <1>4, <1>5, <3>2 DEF Shared, Answering, SameComponent
    <3> QED BY <3>1, <3>2
  <2> QED BY <1>0, <1>2, <1>5, <2>2, <2>3 DEF Shared, Answering, SameComponent
<1>7. Boundaries(t)
  BY <1>0, <1>1, <1>2, <1>3, <1>4, <1>5 DEF Shared, Boundaries, SameBoundaries
<1>8. Tickets(t)
  <2>1. ASSUME NEW i \in 1 .. Len(t.queued), IsCallback(t.queued[i])
        PROVE  i \in 1 .. Len(s.queued) /\ t.queued[i] = s.queued[i]
    BY <1>1, <1>3, <1>4, <2>1
  <2> QED BY <1>0, <1>2, <1>5, <2>1 DEF Shared, Tickets, SameTickets, SameComponent
<1>9. Lifecycle(t) /\ Queue(t) /\ Leases(t) /\ Stranding(t)
  BY <1>0, <1>2, AnswerKeepsRest DEF Shared
<1>10. ASSUME NEW q \in Recs(t) \ R PROVE Fits(t, q, t.m_instances[q].state)
  <2>1. q \in Recs(s) /\ t.m_instances[q] = s.m_instances[q] /\ Fits(s, q, s.m_instances[q].state)
    BY <1>5 DEF Inv
  <2>2. Undisturbed(s, t, q)
    BY <1>1, <1>2, <1>3, <1>4, <2>1, AnswerUndisturbed
  <2> QED BY ONLY <2>1, <2>2, OthersFit
<1> QED BY <1>2, <1>6, <1>7, <1>8, <1>9, <1>10 DEF Inv, Shared, t

(* The two failures.                                                       *)
LEMMA SpawnFailureQueued ==
  ASSUME NEW s, NEW R, Inv(s, R), NEW r, OpenSpawn(s, r)
  PROVE  Inv(QueueSpawnFailure(s, r), R)
<1> DEFINE f == [kind |-> "SpawnFailed", answers |-> r]
<1>1. f \in SpawnFailedFunction /\ f.kind = "SpawnFailed" /\ f.answers = r
  BY DEF OpenSpawn, SpawnFailedFunction
<1> HIDE DEF f
<1>2. Inv(Enqueued(s, f), R)
  BY <1>1, FailureQueued
<1> QED BY <1>2 DEF QueueSpawnFailure, f

(* A despawn's failure.                                                    *)
LEMMA DespawnFailureQueued ==
  ASSUME NEW s, NEW R, Inv(s, R), NEW d, OpenDespawn(s, d)
  PROVE  Inv(QueueDespawnFailure(s, d), R)
<1> DEFINE f == [kind |-> "DespawnFailed", answers |-> d]
<1>1. f \in DespawnFailedFunction /\ f.kind = "DespawnFailed" /\ f.answers = d
  BY DEF OpenDespawn, DespawnFailedFunction
<1> HIDE DEF f
<1>2. Inv(Enqueued(s, f), R)
  BY <1>1, FailureQueued
<1> QED BY <1>2 DEF QueueDespawnFailure, f

(* A despawn's success.                                                    *)
LEMMA DespawnAnswered ==
  ASSUME NEW s, NEW R, Inv(s, R), NEW d, OpenDespawn(s, d),
         NEW answer \in {"Succeeded", "Failed"}
  PROVE  Inv([s EXCEPT !.despawnAnswers[d] = Append(@, answer)], R)
<1> DEFINE t == [s EXCEPT !.despawnAnswers[d] = Append(@, answer)]
           A == [s.despawnAnswers EXCEPT ![d] = <<answer>>]
<1>0. s \in State /\ Shared(s) /\ d \in DespawnRequests /\ s.despawnAnswers[d] = <<>>
  BY DEF Inv, Shared, OpenDespawn
<1>1. A \in [DespawnRequests -> Answers]
  BY <1>0, Typed DEF Answers
<1>2. t = [s EXCEPT !.despawnAnswers = A]
  BY <1>0 DEF State
<1>3. \A x \in DespawnRequests : x # d => A[x] = s.despawnAnswers[x]
  BY <1>0, Typed
<1> HIDE DEF A
<1>4. t \in State /\ t.despawnAnswers = A
  BY <1>0, <1>1, <1>2 DEF State
<1>5. SameButQueued(s, t) /\ t.queued = s.queued /\ t.answers = s.answers
  BY <1>0, <1>2 DEF State, SameButQueued, SameScenes, SamePipe, SameComponent, SameTickets, SameBoundaries
<1> HIDE DEF t
<1>6. t.m_instances = s.m_instances /\ Recs(t) = Recs(s) /\ SameComponent(s, t)
      /\ SameTickets(s, t) /\ SameBoundaries(s, t)
  BY <1>5 DEF SameButQueued, Recs
<1>7. \A r \in Recs(s) : s.m_instances[r].despawn \in Nat
  BY <1>0, RecordTyped
<1>8. \A i \in 1 .. Len(s.queued) : s.queued[i].kind = "DespawnFailed" => s.queued[i].answers \in DespawnRequests
  BY <1>0, QueuedTyped DEF Function, SpawnedFunction, DespawnedFunction, SpawnFailedFunction, DespawnFailedFunction
<1>9. Answering(t)
  <2>1. \A x \in DespawnRequests : x >= s.m_nextDespawnRequest => x # d
    BY <1>0, Typed, Numbers DEF OpenDespawn
  <2>2. \A r \in Recs(s) : s.m_instances[r].despawn # 0 =>
          /\ s.m_instances[r].despawn # d /\ s.m_instances[r].despawn \in DespawnRequests
    <3>1. \A r \in Recs(s) : s.m_instances[r].despawn # 0 => s.m_instances[r].despawn < s.m_nextDespawnRequest
      BY <1>0 DEF Shared, Answering
    <3>2. s.m_nextDespawnRequest \in 1 .. MaxDespawns + 1
      BY <1>0 DEF Shared, Lifecycle
    <3> QED BY <3>1, <3>2, <1>7, Numbers DEF OpenDespawn, DespawnRequests
  <2> QED BY <1>0, <1>3, <1>4, <1>5, <1>6, <1>8, <2>1, <2>2
      DEF Shared, Answering, OpenDespawn, SameComponent
<1>10. Boundaries(t)
  BY <1>0, <1>5, <1>6 DEF Shared, Boundaries, SameBoundaries
<1>11. Tickets(t)
  BY <1>0, <1>5, <1>6, TicketsKept DEF Shared, SameComponent
<1>12. Lifecycle(t) /\ Queue(t) /\ Leases(t) /\ Stranding(t)
  BY <1>0, <1>5, AnswerKeepsRest DEF Shared
<1>13. ASSUME NEW q \in Recs(t) \ R PROVE Fits(t, q, t.m_instances[q].state)
  <2>1. q \in Recs(s) /\ t.m_instances[q] = s.m_instances[q] /\ Fits(s, q, s.m_instances[q].state)
    BY <1>6 DEF Inv
  <2>2. Undisturbed(s, t, q)
    BY <1>5, <2>1, AnswerUndisturbed
  <2> QED BY ONLY <2>1, <2>2, OthersFit
<1> QED BY <1>4, <1>9, <1>10, <1>11, <1>12, <1>13 DEF Inv, Shared, t

-----------------------------------------------------------------------------
(* Cleanup                                                                 *)

(* What erasing a record does.                                             *)
LEMMA ErasedEffect ==
  ASSUME NEW s \in State, NEW r \in Recs(s)
  PROVE  LET t == [s EXCEPT !.m_instances = Erase(@, r)] IN
         /\ t \in State /\ SameButRecords(s, t) /\ Recs(t) = Recs(s) \ {r}
         /\ \A q \in Recs(t) : t.m_instances[q] = s.m_instances[q]
<1> DEFINE J == Erase(s.m_instances, r)
           t == [s EXCEPT !.m_instances = J]
<1>1. /\ J \in Instances /\ DOMAIN J = Recs(s) \ {r}
      /\ \A q \in Recs(s) \ {r} : J[q] = s.m_instances[q]
  BY Typed, RecordErased DEF Recs
<1>2. t = [s EXCEPT !.m_instances = Erase(@, r)] OBVIOUS
<1> HIDE DEF J
<1>3. t \in State /\ t.m_instances = J
  BY <1>1 DEF State
<1>4. SameButRecords(s, t)
  BY DEF State, SameButRecords, SameScenes, SamePipe, SameComponent, SameTickets,
         SameBoundaries, SameAnswers
<1>5. Recs(t) = Recs(s) \ {r} /\ \A q \in Recs(t) : t.m_instances[q] = s.m_instances[q]
  BY <1>1, <1>3 DEF Recs
<1> QED BY <1>2, <1>3, <1>4, <1>5

(* The record may go once its ticket is gone and its lease has ended.      *)
LEMMA RecordGone ==
  ASSUME NEW s, NEW r, Loose(s, r), TicketIn(s, r, "Releasing"),
         Living(s) => ~FindSlot(s, HandleOf(s, r)) /\ s.m_instances[r].instance \notin s.controllers
  PROVE  Inv([s EXCEPT !.m_instances = Erase(@, r)], {})
<1> DEFINE t == [s EXCEPT !.m_instances = Erase(@, r)]
<1>0. s \in State /\ Shared(s) /\ r \in Recs(s) /\ IsIdle(s, r) BY DEF Loose, Inv, Shared
<1>1. /\ t \in State /\ SameButRecords(s, t) /\ Recs(t) = Recs(s) \ {r}
      /\ \A q \in Recs(t) : t.m_instances[q] = s.m_instances[q]
  BY <1>0, ErasedEffect
<1> HIDE DEF t
<1>2. /\ SameScenes(s, t) /\ SamePipe(s, t) /\ SameComponent(s, t)
      /\ SameTickets(s, t) /\ SameBoundaries(s, t) /\ SameAnswers(s, t)
  BY <1>1 DEF SameButRecords
<1>3. \A q \in Recs(t) : q \in Recs(s) /\ HandleOf(t, q) = HandleOf(s, q)
  BY <1>1 DEF HandleOf
<1>4. Lifecycle(t)
  <2>1. s.m_lifecycle = "Ready" BY <1>0, SceneOfRecord DEF Shared
  <2> QED BY <1>0, <1>1, <1>2, <1>3, <2>1 DEF Shared, Lifecycle, SameComponent, SameScenes
<1>5. Answering(t) BY <1>0, <1>1, <1>2, AnsweringKept DEF Shared
<1>6. Boundaries(t) BY <1>0, <1>2, BoundariesKept DEF Shared
<1>7. Tickets(t)
  <2>1. s.service[r] = <<>> /\ r \notin s.entities
    BY DEF TicketIn
  <2> QED BY <1>0, <1>1, <1>2, <2>1 DEF Shared, Tickets, SameTickets, SameAnswers, SameComponent
<1>8. Pipeline(t) = Pipeline(s)
  BY <1>2 DEF Pipeline, SamePipe
<1>9. Queue(t)
  <2>1. \A q \in Recs(t) : CommandOf(t, q) = CommandOf(s, q) /\ (IsIdle(t, q) <=> IsIdle(s, q))
    BY <1>1, <1>3 DEF CommandOf, IsIdle
  <2>2. s.m_instances[r].pending.id = NoCommand BY <1>0 DEF IsIdle
  <2>3. t.life = s.life /\ t.m_spawner = s.m_spawner /\ t.m_nextCommandId = s.m_nextCommandId
    BY <1>2 DEF SameScenes, SameComponent, SamePipe
  <2> HIDE DEF Pipeline
  <2> DEFINE p == Pipeline(s)
  <2>4. ASSUME NEW i \in 1 .. Len(p), Slotted(p[i])
        PROVE  /\ t.life[p[i].slot.scene] \notin Unbuilt
               /\ p[i].id < t.m_nextCommandId
               /\ p[i].slot.scene = t.m_spawner =>
                    p[i].id # NoCommand /\ \E x \in Recs(t) : t.m_instances[x].pending.id = p[i].id
               /\ p[i].id # NoCommand => \A x \in Recs(t) :
                    t.m_instances[x].pending.id = p[i].id => p[i] = CommandOf(t, x)
               /\ p[i].id # NoCommand => \A j \in 1 .. Len(p) :
                    (Slotted(p[j]) /\ p[j].id = p[i].id) => j = i
    BY <1>0, <1>1, <2>1, <2>2, <2>3, <2>4 DEF Shared, Queue
  <2>5. ASSUME NEW x \in Recs(t), ~IsIdle(t, x)
        PROVE  /\ t.m_instances[x].pending.id < t.m_nextCommandId
               /\ <<t.m_instances[x].state, t.m_instances[x].pending.type>> \in Steps
               /\ \A y \in Recs(t) : t.m_instances[y].pending.id = t.m_instances[x].pending.id => y = x
    BY <1>0, <1>1, <2>1, <2>3, <2>5 DEF Shared, Queue
  <2>6. t.m_nextCommandId > 0 BY <1>0, <2>3 DEF Shared, Queue
  <2> QED BY <1>8, <2>4, <2>5, <2>6 DEF Queue
<1>10. Living(t) <=> Living(s)
  BY <1>2 DEF SameScenes, SameComponent, Living
<1>11. Leases(t)
  <2>1. ASSUME Living(t), NEW instance \in t.controllers, instance.slot.scene = t.m_spawner
        PROVE  \E q \in Recs(t) : t.m_instances[q].instance = instance
    <3>1. PICK q \in Recs(s) : s.m_instances[q].instance = instance
      BY <1>0, <1>2, <1>10, <2>1 DEF Shared, Leases, SameScenes, SameComponent
    <3>2. q # r BY <1>2, <1>10, <2>1, <3>1 DEF SameScenes
    <3> QED BY <1>1, <3>1, <3>2
  <2>2. \A q, x \in Recs(t) : HandleOf(t, q).slot = HandleOf(t, x).slot => q = x
    BY <1>0, <1>3 DEF Shared, Leases
  <2> QED BY <1>0, <1>2, <2>1, <2>2 DEF Shared, Leases, SameScenes
<1>12. Stranding(t)
  <2>1. \A h : Holds(s, h) /\ h # HandleOf(s, r) => Holds(t, h)
    BY <1>1, <1>3 DEF Holds
  <2>2. \A h : HasControllers(t, h) <=> HasControllers(s, h)
    BY <1>2 DEF HasControllers, SameScenes
  <2>3. t.life = s.life /\ t.slots = s.slots BY <1>2 DEF SameScenes
  <2>4. HandleOf(s, r).scene = s.m_spawner BY <1>0, SceneOfRecord DEF Shared
  <2>5. ASSUME NEW scene \in Scene, NEW i \in Slot, s.life[scene] = "Alive", s.slots[scene][i].reserved
        PROVE  [scene |-> scene, slot |-> i, generation |-> s.slots[scene][i].generation] # HandleOf(s, r)
    <3> SUFFICES ASSUME [scene |-> scene, slot |-> i, generation |-> s.slots[scene][i].generation]
                          = HandleOf(s, r)
                 PROVE  FALSE
      OBVIOUS
    <3>1. /\ HandleOf(s, r).scene = scene /\ HandleOf(s, r).slot = i
          /\ HandleOf(s, r).generation = s.slots[scene][i].generation
      OBVIOUS
    <3>2. Living(s) BY <2>4, <2>5, <3>1 DEF Living
    <3>3. FindSlot(s, HandleOf(s, r)) BY <2>5, <3>1 DEF FindSlot
    <3> QED BY <3>2, <3>3
  <2>6. \A k \in 1 .. Len(Pipeline(s)) : Slotted(Pipeline(s)[k]) => Pipeline(s)[k].slot # HandleOf(s, r)
    <3> SUFFICES ASSUME NEW k \in 1 .. Len(Pipeline(s)), Slotted(Pipeline(s)[k]),
                        Pipeline(s)[k].slot = HandleOf(s, r)
                 PROVE  FALSE
      OBVIOUS
    <3>1. PICK x \in Recs(s) : /\ s.m_instances[x].pending.id = Pipeline(s)[k].id
                               /\ Pipeline(s)[k].id # NoCommand
      BY <1>0, <2>4 DEF Shared, Queue
    <3>2. Pipeline(s)[k] = CommandOf(s, x)
      BY <1>0, <3>1 DEF Shared, Queue
    <3>3. HandleOf(s, x) = HandleOf(s, r) BY <3>2 DEF CommandOf
    <3>4. x = r BY <1>0, <3>3 DEF Shared, Leases
    <3> QED BY <1>0, <3>1, <3>4 DEF IsIdle
  <2>7. \A c : c.type = "Detach" => Slotted(c) BY DEF Slotted, SlotTypes
  <2> QED BY <1>0, <1>8, <2>1, <2>2, <2>3, <2>5, <2>6, <2>7 DEF Shared, Stranding
<1>13. ASSUME NEW q \in Recs(t) PROVE Fits(t, q, t.m_instances[q].state)
  <2>1. q \in Recs(s) /\ q # r /\ t.m_instances[q] = s.m_instances[q] BY <1>1
  <2>2. Fits(s, q, s.m_instances[q].state) BY <2>1 DEF Loose, Inv
  <2>3. Undisturbed(s, t, q)
    BY <1>2, <1>10, <2>1
    DEF Undisturbed, SameScenes, SameComponent, SameTickets, SameBoundaries, SameAnswers
  <2> QED BY ONLY <2>1, <2>2, <2>3, OthersFit
<1> QED BY <1>1, <1>4, <1>5, <1>6, <1>7, <1>9, <1>11, <1>12, <1>13 DEF Inv, Shared, t

(* The end of a record: it is erased and its request answered.             *)
LEMMA FinishReleaseKeeps ==
  ASSUME NEW s, NEW r, NEW result, Loose(s, r), Owes(s, r, "Releasing"),
         TicketIn(s, r, "Releasing"),
         Living(s) => ~FindSlot(s, HandleOf(s, r)) /\ s.m_instances[r].instance \notin s.controllers
  PROVE  Inv(FinishRelease(s, r, result), {})
<1> DEFINE t == [s EXCEPT !.m_instances = Erase(@, r)]
           record == s.m_instances[r]
<1>0. s \in State /\ Shared(s) /\ r \in Recs(s) BY DEF Loose, Inv, Shared
<1>1. Inv(t, {}) BY RecordGone
<1>2. /\ SameButRecords(s, t) /\ Recs(t) = Recs(s) \ {r}
      /\ \A q \in Recs(t) : t.m_instances[q] = s.m_instances[q]
  BY <1>0, ErasedEffect
<1>3. r \in Requests /\ record.despawn \in Nat BY <1>0, RecordTyped
<1>4. /\ t.answers = s.answers /\ t.despawnAnswers = s.despawnAnswers /\ t.queued = s.queued
      /\ t.m_nextSpawnRequest = s.m_nextSpawnRequest
      /\ t.m_nextDespawnRequest = s.m_nextDespawnRequest
  BY <1>2 DEF SameButRecords, SameAnswers, SameComponent
<1>5. ASSUME record.terminal PROVE OpenSpawn(t, r)
  <2>1. s.answers[r] = <<>> BY <1>5 DEF Owes, Cleaning
  <2>2. r < s.m_nextSpawnRequest BY <1>0 DEF Shared, Lifecycle
  <2> QED BY <1>0, <1>2, <1>3, <1>4, <2>1, <2>2 DEF OpenSpawn, Shared, Answering
<1>6. ASSUME ~record.terminal PROVE OpenDespawn(t, record.despawn)
  <2>1. record.despawn # 0 BY <1>6 DEF Owes, Cleaning
  <2>2. /\ record.despawn < s.m_nextDespawnRequest /\ s.despawnAnswers[record.despawn] = <<>>
        /\ \A q \in Recs(s) : s.m_instances[q].despawn = record.despawn => q = r
    BY <1>0, <2>1 DEF Shared, Answering
  <2>3. s.m_nextDespawnRequest \in 1 .. MaxDespawns + 1 BY <1>0 DEF Shared, Lifecycle
  <2>4. record.despawn \in DespawnRequests
    BY <1>3, <2>1, <2>2, <2>3, Numbers DEF DespawnRequests
  <2>5. \A q \in Recs(t) : t.m_instances[q].despawn # record.despawn
    BY <1>2, <2>2
  <2>6. \A i \in 1 .. Len(s.queued) : s.queued[i].kind = "DespawnFailed" => s.queued[i].answers # record.despawn
    BY <1>0 DEF Shared, Answering
  <2> QED BY <1>4, <2>2, <2>4, <2>5, <2>6 DEF OpenDespawn
<1> HIDE DEF t
<1>7. CASE record.terminal
  <2>1. FinishRelease(s, r, result) = QueueSpawnFailure(t, r) BY <1>7 DEF FinishRelease, t
  <2> QED BY <1>1, <1>5, <1>7, <2>1, SpawnFailureQueued
<1>8. CASE ~record.terminal /\ (record.failed \/ result # "Success")
  <2>1. FinishRelease(s, r, result) = QueueDespawnFailure(t, record.despawn)
    BY <1>8 DEF FinishRelease, t
  <2> QED BY <1>1, <1>6, <1>8, <2>1, DespawnFailureQueued
<1>9. CASE ~record.terminal /\ ~(record.failed \/ result # "Success")
  <2>1. FinishRelease(s, r, result) = OnDespawnSucceeded(t, record.despawn)
    BY <1>9 DEF FinishRelease, t
  <2>2. Inv([t EXCEPT !.despawnAnswers[record.despawn] = Append(@, "Succeeded")], {})
    BY <1>1, <1>6, <1>9, DespawnAnswered
  <2> QED BY <2>1, <2>2 DEF OnDespawnSucceeded
<1> QED BY <1>7, <1>8, <1>9

(* Releasing the slot.                                                     *)
LEMMA SubmitReleaseKeeps ==
  ASSUME NEW s, NEW r, Loose(s, r), Fits(s, r, "Releasing")
  PROVE  Inv(SubmitRelease(s, r), {})
<1>1. CASE Accepted(s, r)
  <2>1. <<"Releasing", "Release">> \in Steps BY DEF Steps
  <2>2. Inv(Await(s, r, "Releasing", "Release"), {}) BY <2>1, AwaitKeeps
  <2> QED BY <1>1, <2>2 DEF SubmitRelease
<1>2. CASE ~Accepted(s, r)
  <2>1. ~Living(s) BY <1>2, SceneOfRecord DEF Loose, Inv, Shared
  <2>2. Inv(FinishRelease(s, r, "SceneNotFound"), {})
    BY <2>1, FinishReleaseKeeps DEF Fits
  <2> QED BY <1>2, <2>2 DEF SubmitRelease
<1> QED BY <1>1, <1>2

(* A cleanup step's failure is noted in the record only.                   *)
LEMMA CleanupFailedKeeps ==
  ASSUME NEW s, NEW r, Loose(s, r)
  PROVE  LET t == CleanupFailed(s, r) IN
         /\ Loose(t, r) /\ \A state : Fits(s, r, state) => Fits(t, r, state)
         /\ SameScenes(s, t) /\ SameComponent(s, t) /\ HandleOf(t, r) = HandleOf(s, r)
<1> DEFINE t == CleanupFailed(s, r)
<1>0. s \in State /\ r \in Recs(s) /\ Inv(s, {r}) BY DEF Loose, Inv, Shared
<1>1. CASE s.m_instances[r].terminal
  <2>1. t = s BY <1>1 DEF CleanupFailed
  <2> QED BY <2>1 DEF SameScenes, SameComponent
<1>2. CASE ~s.m_instances[r].terminal
  <2> DEFINE record == [s.m_instances[r] EXCEPT !.failed = TRUE]
  <2>1. s.m_instances[r] \in InstanceRecord BY <1>0, RecordTyped
  <2>2. /\ record \in InstanceRecord /\ record.instance = s.m_instances[r].instance
        /\ record.pending = s.m_instances[r].pending /\ record.state = s.m_instances[r].state
        /\ record.despawn = s.m_instances[r].despawn /\ record.terminal = s.m_instances[r].terminal
        /\ record.ticket = s.m_instances[r].ticket /\ record.attached = s.m_instances[r].attached
        /\ record.declares = s.m_instances[r].declares
    BY <2>1 DEF InstanceRecord
  <2>3. t = [s EXCEPT !.m_instances[r] = record]
    BY <1>2 DEF CleanupFailed
  <2> HIDE DEF record, t
  <2>4. Rewrites(s, t, r) /\ t.m_instances[r] = record
    BY <1>0, <2>2, <2>3, RecordWritten
  <2>5. Inv(t, {r}) /\ Undisturbed(s, t, r) /\ Recs(t) = Recs(s)
    BY <1>0, <2>2, <2>4, Rewritten
  <2>6. Loose(t, r)
    BY <2>2, <2>4, <2>5 DEF Loose, IsIdle
  <2>7. \A state : Fits(s, r, state) => Fits(t, r, state)
    BY <2>2, <2>4, <2>5, StillFits
  <2>8. SameScenes(s, t) /\ SameComponent(s, t) /\ HandleOf(t, r) = HandleOf(s, r)
    BY <2>2, <2>4 DEF Rewrites, SameButRecords, HandleOf
  <2> QED BY <2>6, <2>7, <2>8 DEF t
<1> QED BY <1>1, <1>2

(* The last two states of the cleanup ask the same.                        *)
LEMMA ResetFitsRelease ==
  ASSUME NEW s, NEW r, Fits(s, r, "CleanupResetting")
  PROVE  Fits(s, r, "Releasing")
BY DEF Fits, Owes, TicketIn, SlotIn, Starting, Cleaning

(* Resetting the slot.                                                     *)
LEMMA SubmitCleanupResetKeeps ==
  ASSUME NEW s, NEW r, Loose(s, r), Fits(s, r, "CleanupResetting")
  PROVE  Inv(SubmitCleanupReset(s, r), {})
<1>1. CASE Accepted(s, r)
  <2>1. <<"CleanupResetting", "Reset">> \in Steps BY DEF Steps
  <2>2. Inv(Await(s, r, "CleanupResetting", "Reset"), {}) BY <2>1, AwaitKeeps
  <2> QED BY <1>1, <2>2 DEF SubmitCleanupReset
<1>2. CASE ~Accepted(s, r)
  <2>1. Loose(CleanupFailed(s, r), r) /\ Fits(CleanupFailed(s, r), r, "Releasing")
    BY CleanupFailedKeeps, ResetFitsRelease
  <2>2. Inv(SubmitRelease(CleanupFailed(s, r), r), {})
    BY <2>1, SubmitReleaseKeeps
  <2> QED BY <1>2, <2>2 DEF SubmitCleanupReset
<1> QED BY <1>1, <1>2

AskFor(s, r, record, v) == [s EXCEPT !.m_instances[r] = record, !.service[r] = Append(@, v)]

(* A record changes and the service is asked for something.                *)
LEMMA AskedEffect ==
  ASSUME NEW s \in State, NEW r \in Recs(s), NEW record \in InstanceRecord,
         record.instance = s.m_instances[r].instance, NEW v \in ServiceRequest
  PROVE  LET t == AskFor(s, r, record, v) IN
         /\ t \in State /\ OtherRecords(s, t, r) /\ t.m_instances[r] = record
         /\ SameScenes(s, t) /\ SamePipe(s, t) /\ SameComponent(s, t)
         /\ SameBoundaries(s, t) /\ SameAnswers(s, t) /\ t.entities = s.entities
         /\ t.service[r] = Append(s.service[r], v)
         /\ \A q \in Requests : q # r => t.service[q] = s.service[q]
<1> DEFINE u == [s EXCEPT !.m_instances[r] = record]
           V == [s.service EXCEPT ![r] = Append(@, v)]
           t == [u EXCEPT !.service = V]
<1>1. Rewrites(s, u, r) /\ u.m_instances[r] = record
  BY RecordWritten
<1>2. r \in Requests /\ s.service \in [Requests -> Seq(ServiceRequest)]
  BY RecordTyped, Typed
<1>3. /\ V \in [Requests -> Seq(ServiceRequest)] /\ V[r] = Append(s.service[r], v)
      /\ \A q \in Requests : q # r => V[q] = s.service[q]
  <2>1. Append(s.service[r], v) \in Seq(ServiceRequest) BY <1>2, Appended
  <2> QED BY <1>2, <2>1
<1>4. u \in State /\ u.service = s.service
  BY <1>1 DEF Rewrites, SameButRecords, SameTickets
<1>5. t = AskFor(s, r, record, v)
  BY <1>4 DEF State, AskFor
<1> HIDE DEF u, V
<1>6. /\ t \in State /\ t.service = V /\ t.m_instances = u.m_instances /\ t.entities = u.entities
  BY <1>3, <1>4 DEF State
<1>7. /\ SameScenes(u, t) /\ SamePipe(u, t) /\ SameComponent(u, t)
      /\ SameBoundaries(u, t) /\ SameAnswers(u, t)
  BY <1>4 DEF State, SameScenes, SamePipe, SameComponent, SameBoundaries, SameAnswers
<1>8. /\ SameScenes(s, t) /\ SamePipe(s, t) /\ SameComponent(s, t)
      /\ SameBoundaries(s, t) /\ SameAnswers(s, t) /\ t.entities = s.entities
  <2> HIDE DEF t
  <2> QED BY <1>1, <1>6, <1>7 DEF Rewrites, SameButRecords, SameScenes, SamePipe, SameComponent, SameBoundaries,
          SameAnswers, SameTickets
<1>9. OtherRecords(s, t, r) /\ t.m_instances[r] = record
  <2> HIDE DEF t
  <2> QED BY <1>1, <1>6 DEF Rewrites, OtherRecords, Recs
<1> QED BY <1>3, <1>5, <1>6, <1>8, <1>9

NoCallback(s, r) == \A i \in 1 .. Len(s.queued) :
  IsCallback(s.queued[i]) => s.queued[i].request.value # r

(* A record may ask the service when nothing else is under way for its     *)
(* ticket.                                                                 *)
LEMMA AskedKeeps ==
  ASSUME NEW s, NEW r, Loose(s, r), NEW record \in InstanceRecord, NEW v \in ServiceRequest,
         record.instance = s.m_instances[r].instance,
         record.pending = s.m_instances[r].pending, record.despawn = s.m_instances[r].despawn,
         s.service[r] = <<>>, NoCallback(s, r), v.op \in {"Spawn", "Despawn"}, record.ticket,
         Owes(s, r, record.state), record.terminal = s.m_instances[r].terminal,
         SlotIn(s, r, record.state), record.attached = s.m_instances[r].attached,
         record.declares = s.m_instances[r].declares,
         \/ record.state = "Spawning" /\ v.op = "Spawn" /\ r \notin s.entities
         \/ record.state = "DespawningEntities" /\ v.op = "Despawn"
  PROVE  Inv(AskFor(s, r, record, v), {})
<1> DEFINE t == AskFor(s, r, record, v)
<1>0. s \in State /\ r \in Recs(s) /\ Shared(s) /\ IsIdle(s, r) BY DEF Loose, Inv, Shared
<1>1. /\ t \in State /\ OtherRecords(s, t, r) /\ t.m_instances[r] = record
      /\ SameScenes(s, t) /\ SamePipe(s, t) /\ SameComponent(s, t)
      /\ SameBoundaries(s, t) /\ SameAnswers(s, t) /\ t.entities = s.entities
      /\ t.service[r] = Append(s.service[r], v)
      /\ \A q \in Requests : q # r => t.service[q] = s.service[q]
  BY <1>0, AskedEffect
<1> HIDE DEF t
<1>2. t.service[r] = <<v>> BY <1>0, <1>1
<1>3. SameHandles(s, t) /\ NoNewLife(s, t) /\ Recs(t) = Recs(s) /\ r \in Requests
  BY <1>0, <1>1, RecordTyped DEF SameHandles, NoNewLife, OtherRecords, SameScenes
<1>4. Pipeline(t) = Pipeline(s)
  BY <1>1 DEF Pipeline, SamePipe
<1>5. \A q \in Recs(s) : /\ t.m_instances[q].pending = s.m_instances[q].pending
                         /\ ~IsIdle(s, q) => t.m_instances[q].state = s.m_instances[q].state
                         /\ t.m_instances[q].despawn = s.m_instances[q].despawn
  BY <1>0, <1>1 DEF OtherRecords
<1>6. Lifecycle(t) BY <1>0, <1>1, <1>3, LifecycleKept DEF Shared
<1>7. Answering(t) BY <1>0, <1>1, <1>3, <1>5, AnsweringKept DEF Shared
<1>8. Boundaries(t) BY <1>0, <1>1, BoundariesKept DEF Shared
<1>9. Tickets(t)
  <2>1. Len(t.service[r]) = 1 /\ t.service[r] # <<>> BY <1>2
  <2>2. r < s.m_nextSpawnRequest /\ s.m_nextSpawnRequest \in Nat /\ r \in Nat
    BY <1>0, <1>3, Numbers, Typed DEF Shared, Lifecycle
  <2>3. ASSUME NEW q \in Requests
        PROVE  LET w == t.service[q] IN
               /\ Len(w) <= 2
               /\ Len(w) = 2 => w[2].op = "Drop" /\ w[1].op # "Drop"
               /\ (q \notin Recs(t) /\ (q \in t.entities \/ w # <<>>)) =>
                    w # <<>> /\ w[Len(w)].op = "Drop"
               /\ q >= t.m_nextSpawnRequest => w = <<>> /\ q \notin t.entities
    <3>1. CASE q = r
      <4>1. q \in Recs(t) BY <1>0, <1>3, <3>1
      <4>2. ~(q >= t.m_nextSpawnRequest) BY <1>1, <2>2, <3>1 DEF SameComponent
      <4>3. Len(t.service[q]) = 1 BY <2>1, <3>1
      <4> QED BY <4>1, <4>2, <4>3
    <3>2. CASE q # r
      <4>1. t.service[q] = s.service[q] BY <1>1, <3>2
      <4> QED BY <1>0, <1>1, <1>3, <4>1 DEF Shared, Tickets, SameComponent
    <3> QED BY <3>1, <3>2
  <2>4. ASSUME NEW i \in 1 .. Len(t.queued), IsCallback(t.queued[i])
        PROVE  LET q == t.queued[i].request.value IN
               /\ q < t.m_nextSpawnRequest
               /\ t.service[q] # <<>> => t.service[q][1].op = "Drop"
    <3>1. t.queued = s.queued BY <1>1 DEF SameAnswers
    <3>2. t.queued[i].request.value \in Requests /\ t.queued[i].request.value # r
      BY <1>0, <2>4, <3>1, QueuedTyped DEF NoCallback
    <3> QED BY <1>0, <1>1, <2>4, <3>1, <3>2 DEF Shared, Tickets, SameComponent
  <2> QED BY <2>3, <2>4 DEF Tickets
<1>10. Queue(t) BY <1>0, <1>1, <1>3, <1>4, <1>5, QueueKept DEF Shared, SamePipe, SameComponent
<1>11. Leases(t) BY <1>0, <1>1, <1>3, LeasesKept DEF Shared, SameScenes, SameComponent
<1>12. Stranding(t) BY <1>0, <1>1, <1>3, <1>4, StrandingKept DEF Shared, SameScenes
<1>13. Living(t) <=> Living(s)
  BY <1>1 DEF SameScenes, SameComponent, Living
<1>14. ASSUME NEW q \in Recs(t) \ {r} PROVE Fits(t, q, t.m_instances[q].state)
  <2>1. q \in Recs(s) /\ t.m_instances[q] = s.m_instances[q] /\ q \in Requests
    BY <1>0, <1>1, <1>3, RecordTyped DEF OtherRecords
  <2>2. Fits(s, q, s.m_instances[q].state) BY <2>1 DEF Loose, Inv
  <2>3. Undisturbed(s, t, q)
    BY <1>1, <1>3, <1>13, <2>1
    DEF Undisturbed, SameScenes, SameComponent, SameBoundaries, SameAnswers
  <2> QED BY ONLY <2>1, <2>2, <2>3, OthersFit
<1>15. Fits(t, r, record.state)
  <2>1. Owes(t, r, record.state)
    BY <1>1 DEF Owes, SameAnswers, SameBoundaries
  <2>2. TicketIn(t, r, record.state)
    <3>1. t.queued = s.queued BY <1>1 DEF SameAnswers
    <3>2. \A i \in 1 .. Len(t.queued) :
            ~(IsCallback(t.queued[i]) /\ t.queued[i].request.value = r)
      BY <3>1 DEF NoCallback
    <3>3. t.service[r] # <<>> /\ Len(t.service[r]) <= 1 /\ t.service[r][1] = v
      BY <1>2
    <3> QED BY <1>1, <3>2, <3>3 DEF TicketIn
  <2>3. SlotIn(t, r, record.state)
    <3>1. HandleOf(t, r) = HandleOf(s, r) BY <1>1 DEF HandleOf
    <3>2. FindSlot(t, HandleOf(t, r)) <=> FindSlot(s, HandleOf(s, r))
      BY <1>1, <3>1 DEF FindSlot, SameScenes
    <3> QED BY <1>1, <1>13, <3>1, <3>2 DEF SlotIn, SameScenes
  <2> QED BY <2>1, <2>2, <2>3 DEF Fits
<1> QED BY <1>1, <1>6, <1>7, <1>8, <1>9, <1>10, <1>11, <1>12, <1>14, <1>15 DEF Inv, Shared, t

(* The slot is unbound, or its scene gone: the entities may go.            *)
Unbound(s, r) ==
  Living(s) => s.slots[HandleOf(s, r).scene][HandleOf(s, r).slot].bound = NoEntities

(* Despawning the entities.                                                *)
LEMMA BeginEntityDespawnKeeps ==
  ASSUME NEW s, NEW r, Loose(s, r), Fits(s, r, "Unbinding"), Unbound(s, r)
  PROVE  Inv(BeginEntityDespawn(s, r), {})
<1>0. s \in State /\ r \in Recs(s) BY DEF Loose, Inv, Shared
<1>1. CASE ~s.m_instances[r].ticket
  <2>1. Fits(s, r, "CleanupResetting")
    BY <1>1 DEF Fits, Owes, TicketIn, SlotIn, Unbound, Starting, Cleaning
  <2> QED BY <1>1, <2>1, SubmitCleanupResetKeeps DEF BeginEntityDespawn
<1>2. CASE s.m_instances[r].ticket
  <2> DEFINE record == [s.m_instances[r] EXCEPT !.state = "DespawningEntities"]
             v == [op |-> "Despawn", generation |-> s.m_generation]
  <2>1. s.m_instances[r] \in InstanceRecord BY <1>0, RecordTyped
  <2>2. /\ record \in InstanceRecord /\ record.instance = s.m_instances[r].instance
        /\ record.pending = s.m_instances[r].pending /\ record.state = "DespawningEntities"
        /\ record.despawn = s.m_instances[r].despawn /\ record.terminal = s.m_instances[r].terminal
        /\ record.ticket /\ record.attached = s.m_instances[r].attached
        /\ record.declares = s.m_instances[r].declares
    BY <1>2, <2>1 DEF InstanceRecord, RecordStates, Cleaning
  <2>3. v \in ServiceRequest /\ v.op = "Despawn"
    BY <1>0, Typed DEF ServiceRequest
  <2>4. BeginEntityDespawn(s, r) = AskFor(s, r, record, v)
    BY <1>2 DEF BeginEntityDespawn, AskFor
  <2>5. s.service[r] = <<>> /\ NoCallback(s, r)
    BY DEF Fits, TicketIn, NoCallback
  <2>6. Owes(s, r, "DespawningEntities") /\ SlotIn(s, r, "DespawningEntities")
    BY DEF Fits, Owes, SlotIn, Unbound, Starting, Cleaning
  <2> HIDE DEF record, v
  <2>7. Inv(AskFor(s, r, record, v), {})
    <3>1. Owes(s, r, record.state) /\ SlotIn(s, r, record.state) BY <2>2, <2>6
    <3>2. record.state = "DespawningEntities" /\ v.op = "Despawn" /\ v.op \in {"Spawn", "Despawn"}
      BY <2>2, <2>3
    <3> QED BY <2>2, <2>3, <2>5, <3>1, <3>2, AskedKeeps, Zenon
  <2> QED BY <2>4, <2>7
<1> QED BY <1>1, <1>2

(* Unbinding the slot.                                                     *)
LEMMA SubmitUnbindKeeps ==
  ASSUME NEW s, NEW r, Loose(s, r), Fits(s, r, "Unbinding")
  PROVE  Inv(SubmitUnbind(s, r), {})
<1>1. CASE Accepted(s, r)
  <2>1. <<"Unbinding", "Unbind">> \in Steps BY DEF Steps
  <2>2. Inv(Await(s, r, "Unbinding", "Unbind"), {}) BY <2>1, AwaitKeeps
  <2> QED BY <1>1, <2>2 DEF SubmitUnbind
<1>2. CASE ~Accepted(s, r)
  <2> DEFINE t == CleanupFailed(s, r)
  <2>1. ~Living(s) BY <1>2, SceneOfRecord DEF Loose, Inv, Shared
  <2>2. Loose(t, r) /\ Fits(t, r, "Unbinding") /\ SameScenes(s, t) /\ SameComponent(s, t)
    BY CleanupFailedKeeps
  <2> HIDE DEF t
  <2>3. Unbound(t, r) BY <2>1, <2>2 DEF Unbound, Living, SameScenes, SameComponent
  <2>4. Inv(BeginEntityDespawn(t, r), {}) BY <2>2, <2>3, BeginEntityDespawnKeeps
  <2> QED BY <1>2, <2>4 DEF SubmitUnbind, t
<1> QED BY <1>1, <1>2

(* A spawn may fail that has not been answered and whose controllers are   *)
(* not attached.                                                           *)
MayFail(s, r) ==
  /\ s.answers[r] = <<>> /\ ~s.m_instances[r].terminal
  /\ TicketIn(s, r, "Unbinding") /\ SlotIn(s, r, "Unbinding")

(* The failure of a spawn starts its cleanup.                              *)
LEMMA BeginSpawnFailureKeeps ==
  ASSUME NEW s, NEW r, Loose(s, r), MayFail(s, r)
  PROVE  Inv(BeginSpawnFailure(s, r), {})
<1> DEFINE record == [s.m_instances[r] EXCEPT !.terminal = TRUE]
           t == [s EXCEPT !.m_instances[r] = record]
<1>0. s \in State /\ r \in Recs(s) /\ Inv(s, {r}) BY DEF Loose, Inv, Shared
<1>1. s.m_instances[r] \in InstanceRecord BY <1>0, RecordTyped
<1>2. /\ record \in InstanceRecord /\ record.instance = s.m_instances[r].instance
      /\ record.pending = s.m_instances[r].pending /\ record.state = s.m_instances[r].state
      /\ record.despawn = s.m_instances[r].despawn /\ record.terminal
      /\ record.ticket = s.m_instances[r].ticket /\ record.attached = s.m_instances[r].attached
      /\ record.declares = s.m_instances[r].declares
  BY <1>1 DEF InstanceRecord
<1>3. BeginSpawnFailure(s, r) = SubmitUnbind(t, r)
  BY DEF BeginSpawnFailure, MayFail
<1> HIDE DEF record
<1>4. Rewrites(s, t, r) /\ t.m_instances[r] = record
  BY <1>0, <1>2, RecordWritten
<1> HIDE DEF t
<1>5. Inv(t, {r}) /\ Undisturbed(s, t, r) /\ Recs(t) = Recs(s)
  BY <1>0, <1>2, <1>4, Rewritten
<1>6. Loose(t, r)
  BY <1>0, <1>2, <1>4, <1>5 DEF Loose, IsIdle
<1>7. Fits(t, r, "Unbinding")
  <2>1. TicketIn(t, r, "Unbinding") /\ SlotIn(t, r, "Unbinding")
    BY <1>2, <1>4, <1>5, TicketInKept, SlotInKept DEF MayFail
  <2>2. Owes(t, r, "Unbinding")
    BY <1>2, <1>4, <1>5 DEF Owes, MayFail, Undisturbed, Starting
  <2> QED BY <2>1, <2>2 DEF Fits
<1>8. Inv(SubmitUnbind(t, r), {}) BY <1>6, <1>7, SubmitUnbindKeeps
<1> QED BY <1>3, <1>8

-----------------------------------------------------------------------------
(* Spawning                                                                *)

(* In the states that wait for a command, a spawn may fail.                *)
LEMMA StartingMayFail ==
  ASSUME NEW s, NEW r, NEW state \in {"Resetting", "Placing", "Binding", "AttachingControllers"},
         Fits(s, r, state)
  PROVE  MayFail(s, r)
BY DEF Fits, Owes, TicketIn, SlotIn, MayFail, Starting

(* The four commands of a spawn, each refused by a scene that is going.    *)
LEMMA SubmitKeeps ==
  ASSUME NEW s, NEW r, Loose(s, r)
  PROVE  /\ Fits(s, r, "Resetting") => Inv(SubmitReset(s, r), {})
         /\ Fits(s, r, "Placing") => Inv(SubmitPlace(s, r), {})
         /\ Fits(s, r, "Binding") => Inv(SubmitBind(s, r), {})
         /\ Fits(s, r, "AttachingControllers") => Inv(SubmitAttachControllers(s, r), {})
<1>1. ASSUME NEW state \in {"Resetting", "Placing", "Binding", "AttachingControllers"},
             NEW type, <<state, type>> \in Steps, Fits(s, r, state)
      PROVE  Inv(IF Accepted(s, r) THEN Await(s, r, state, type) ELSE BeginSpawnFailure(s, r), {})
  <2>1. Inv(Await(s, r, state, type), {}) BY <1>1, AwaitKeeps
  <2>2. Inv(BeginSpawnFailure(s, r), {}) BY <1>1, StartingMayFail, BeginSpawnFailureKeeps
  <2> QED BY <2>1, <2>2
<1>2. Fits(s, r, "Resetting") => Inv(SubmitReset(s, r), {})
  BY <1>1, <<"Resetting", "Reset">> \in Steps DEF SubmitReset, Steps
<1>3. Fits(s, r, "Placing") => Inv(SubmitPlace(s, r), {})
  BY <1>1, <<"Placing", "Place">> \in Steps DEF SubmitPlace, Steps
<1>4. Fits(s, r, "Binding") => Inv(SubmitBind(s, r), {})
  BY <1>1, <<"Binding", "Bind">> \in Steps DEF SubmitBind, Steps
<1>5. Fits(s, r, "AttachingControllers") => Inv(SubmitAttachControllers(s, r), {})
  BY <1>1, <<"AttachingControllers", "Attach">> \in Steps DEF SubmitAttachControllers, Steps
<1> QED BY <1>2, <1>3, <1>4, <1>5

Placed(s, r) == Living(s) => s.slots[HandleOf(s, r).scene][HandleOf(s, r).slot].placed

(* The ticket goes to the service once the slot is placed.                 *)
LEMMA BeginEntitySpawnKeeps ==
  ASSUME NEW s, NEW r, NEW ticketValid, Loose(s, r), Fits(s, r, "Placing"), Placed(s, r)
  PROVE  Inv(BeginEntitySpawn(s, r, ticketValid), {})
<1>0. s \in State /\ r \in Recs(s) BY DEF Loose, Inv, Shared
<1>1. CASE s.boundary[r] = "Cancelled" \/ ~ticketValid
  BY <1>1, StartingMayFail, BeginSpawnFailureKeeps DEF BeginEntitySpawn
<1>2. CASE ~(s.boundary[r] = "Cancelled" \/ ~ticketValid)
  <2> DEFINE record == [s.m_instances[r] EXCEPT !.ticket = TRUE, !.state = "Spawning"]
             v == [op |-> "Spawn", generation |-> s.m_generation]
  <2>1. s.m_instances[r] \in InstanceRecord BY <1>0, RecordTyped
  <2>2. /\ record \in InstanceRecord /\ record.instance = s.m_instances[r].instance
        /\ record.pending = s.m_instances[r].pending /\ record.state = "Spawning"
        /\ record.despawn = s.m_instances[r].despawn /\ record.terminal = s.m_instances[r].terminal
        /\ record.ticket /\ record.attached = s.m_instances[r].attached
        /\ record.declares = s.m_instances[r].declares
    BY <2>1 DEF InstanceRecord, RecordStates, Starting
  <2>3. v \in ServiceRequest /\ v.op = "Spawn"
    BY <1>0, Typed DEF ServiceRequest
  <2>4. BeginEntitySpawn(s, r, ticketValid)
          = AskFor(s, r, record, v)
    BY <1>2 DEF BeginEntitySpawn, AskFor
  <2>5. s.service[r] = <<>> /\ NoCallback(s, r) /\ r \notin s.entities
    BY DEF Fits, TicketIn, NoCallback
  <2>6. Owes(s, r, "Spawning") /\ SlotIn(s, r, "Spawning")
    BY DEF Fits, Owes, SlotIn, Placed, Starting, Cleaning
  <2> HIDE DEF record, v
  <2>7. Inv(AskFor(s, r, record, v), {})
    <3>1. Owes(s, r, record.state) /\ SlotIn(s, r, record.state) BY <2>2, <2>6
    <3>2. /\ record.state = "Spawning" /\ v.op = "Spawn" /\ v.op \in {"Spawn", "Despawn"}
          /\ r \notin s.entities
      BY <2>2, <2>3, <2>5
    <3> QED BY <2>2, <2>3, <2>5, <3>1, <3>2, AskedKeeps, Zenon
  <2> QED BY <2>4, <2>7
<1> QED BY <1>1, <1>2

Succeed(s, r, record) ==
  [s EXCEPT !.m_instances[r] = record, !.answers[r] = <<"Succeeded">>,
            !.instanceOf[r] = s.m_instances[r].instance]

(* The success of a spawn is announced with the instance's handle.         *)
LEMMA SucceedEffect ==
  ASSUME NEW s \in State, NEW r \in Recs(s), NEW record \in InstanceRecord,
         record.instance = s.m_instances[r].instance
  PROVE  LET t == Succeed(s, r, record) IN
         /\ t \in State /\ OtherRecords(s, t, r) /\ t.m_instances[r] = record
         /\ SameScenes(s, t) /\ SamePipe(s, t) /\ SameComponent(s, t) /\ SameTickets(s, t)
         /\ SameBoundaries(s, t) /\ t.queued = s.queued /\ t.despawnAnswers = s.despawnAnswers
         /\ t.answers[r] = <<"Succeeded">>
         /\ \A q \in Requests : q # r => t.answers[q] = s.answers[q]
<1> DEFINE u == [s EXCEPT !.m_instances[r] = record]
           A == [s.answers EXCEPT ![r] = <<"Succeeded">>]
           I == [s.instanceOf EXCEPT ![r] = s.m_instances[r].instance]
           w == [u EXCEPT !.answers = A]
           t == [w EXCEPT !.instanceOf = I]
<1>1. Rewrites(s, u, r) /\ u.m_instances[r] = record /\ u \in State
  BY RecordWritten DEF Rewrites
<1>2. /\ r \in Requests /\ s.answers \in [Requests -> Answers]
      /\ s.instanceOf \in [Requests -> InstanceHandle \union {NoInstance}]
      /\ s.m_instances[r].instance \in InstanceHandle
  BY RecordTyped, Typed
<1>3. /\ A \in [Requests -> Answers] /\ A[r] = <<"Succeeded">>
      /\ \A q \in Requests : q # r => A[q] = s.answers[q]
  BY <1>2 DEF Answers
<1>4. I \in [Requests -> InstanceHandle \union {NoInstance}]
  BY <1>2
<1>5. t = Succeed(s, r, record)
  BY DEF State, Succeed
<1> HIDE DEF u, A, I
<1>6. w \in State
  BY <1>1, <1>3 DEF State
<1>7. w.answers = A /\ w.m_instances = u.m_instances /\ w.queued = u.queued
      /\ w.despawnAnswers = u.despawnAnswers
      /\ SameScenes(u, w) /\ SamePipe(u, w) /\ SameComponent(u, w) /\ SameTickets(u, w)
      /\ SameBoundaries(u, w)
  BY <1>1 DEF State, SameScenes, SamePipe, SameComponent, SameBoundaries, SameTickets
<1> HIDE DEF w
<1>8. t \in State
  BY <1>4, <1>6 DEF State
<1>9. t.answers = A /\ t.m_instances = u.m_instances /\ t.queued = u.queued
      /\ t.despawnAnswers = u.despawnAnswers
      /\ SameScenes(u, t) /\ SamePipe(u, t) /\ SameComponent(u, t) /\ SameTickets(u, t)
      /\ SameBoundaries(u, t)
  BY <1>6, <1>7 DEF State, SameScenes, SamePipe, SameComponent, SameBoundaries, SameTickets
<1> HIDE DEF t
<1>10. /\ SameScenes(s, t) /\ SamePipe(s, t) /\ SameComponent(s, t) /\ SameTickets(s, t)
       /\ SameBoundaries(s, t) /\ t.queued = s.queued /\ t.despawnAnswers = s.despawnAnswers
  BY <1>1, <1>9 DEF Rewrites, SameButRecords, SameScenes, SamePipe, SameComponent, SameBoundaries,
          SameAnswers, SameTickets
<1>11. OtherRecords(s, t, r) /\ t.m_instances[r] = record
  BY <1>1, <1>9 DEF Rewrites, OtherRecords, Recs
<1> QED BY <1>3, <1>5, <1>8, <1>9, <1>10, <1>11

(* What the success promises of the slot, while the scene lives.           *)
Complete(s, r, record) ==
  LET handle == record.instance.slot
      slot == s.slots[handle.scene][handle.slot]
  IN  Living(s) =>
        /\ FindSlot(s, handle) /\ slot.placed /\ slot.bound = r /\ r \in s.entities
        /\ record.declares <=> record.attached
        /\ record.declares <=> record.instance \in s.controllers

(* A spawn succeeds with everything in place.                              *)
LEMMA SucceedKeeps ==
  ASSUME NEW s, NEW r, Loose(s, r), NEW record \in InstanceRecord,
         record.instance = s.m_instances[r].instance,
         record.pending = s.m_instances[r].pending, record.despawn = s.m_instances[r].despawn,
         record.ticket = s.m_instances[r].ticket, record.state = "Active",
         s.answers[r] = <<>>, s.boundary[r] = "Committed", TicketIn(s, r, "Active"),
         Complete(s, r, record)
  PROVE  Inv(Succeed(s, r, record), {})
<1> DEFINE t == Succeed(s, r, record)
<1>0. s \in State /\ r \in Recs(s) /\ Shared(s) /\ IsIdle(s, r) BY DEF Loose, Inv, Shared
<1>1. /\ t \in State /\ OtherRecords(s, t, r) /\ t.m_instances[r] = record
      /\ SameScenes(s, t) /\ SamePipe(s, t) /\ SameComponent(s, t) /\ SameTickets(s, t)
      /\ SameBoundaries(s, t) /\ t.queued = s.queued /\ t.despawnAnswers = s.despawnAnswers
      /\ t.answers[r] = <<"Succeeded">>
      /\ \A q \in Requests : q # r => t.answers[q] = s.answers[q]
  BY <1>0, SucceedEffect
<1> HIDE DEF t
<1>2. SameHandles(s, t) /\ NoNewLife(s, t) /\ Recs(t) = Recs(s) /\ r \in Requests
  BY <1>0, <1>1, RecordTyped DEF SameHandles, NoNewLife, OtherRecords, SameScenes
<1>3. Pipeline(t) = Pipeline(s)
  BY <1>1 DEF Pipeline, SamePipe
<1>4. \A q \in Recs(s) : /\ t.m_instances[q].pending = s.m_instances[q].pending
                         /\ ~IsIdle(s, q) => t.m_instances[q].state = s.m_instances[q].state
                         /\ t.m_instances[q].despawn = s.m_instances[q].despawn
                         /\ q \in Requests
  BY <1>0, <1>1, RecordTyped DEF OtherRecords
<1>5. Lifecycle(t) BY <1>0, <1>1, <1>2, LifecycleKept DEF Shared
<1>6. Answering(t)
  <2>1. r < s.m_nextSpawnRequest /\ s.m_nextSpawnRequest \in Nat /\ r \in Nat
    BY <1>0, <1>2, Numbers, Typed DEF Shared, Lifecycle
  <2>2. \A q \in Requests : q >= s.m_nextSpawnRequest => q # r
    BY <2>1, Numbers
  <2>3. \A i \in 1 .. Len(s.queued) : s.queued[i].kind = "SpawnFailed" =>
          s.queued[i].answers # r /\ s.queued[i].answers \in Requests
    <3>1. \A f \in Function : f.kind = "SpawnFailed" => f.answers \in Requests
      BY DEF Function, SpawnedFunction, DespawnedFunction, SpawnFailedFunction, DespawnFailedFunction
    <3> QED BY <1>0, <3>1, QueuedTyped DEF Shared, Answering
  <2>4. \A q \in Recs(s) : s.m_instances[q].despawn # 0 => t.answers[q] = <<"Succeeded">>
    BY <1>0, <1>1, <1>4 DEF Shared, Answering
  <2> QED BY <1>0, <1>1, <1>2, <1>4, <2>2, <2>3, <2>4 DEF Shared, Answering, SameComponent
<1>7. Boundaries(t)
  <2>1. \A q \in Requests : t.answers[q] = <<"Succeeded">> => s.boundary[q] = "Committed"
    BY <1>0, <1>1 DEF Shared, Boundaries
  <2> QED BY <1>0, <1>1, <2>1 DEF Shared, Boundaries, SameBoundaries
<1>8. Tickets(t) BY <1>0, <1>1, <1>2, TicketsKept DEF Shared, SameComponent
<1>9. Queue(t) BY <1>0, <1>1, <1>2, <1>3, <1>4, QueueKept DEF Shared, SamePipe, SameComponent
<1>10. Leases(t) BY <1>0, <1>1, <1>2, LeasesKept DEF Shared, SameScenes, SameComponent
<1>11. Stranding(t) BY <1>0, <1>1, <1>2, <1>3, StrandingKept DEF Shared, SameScenes
<1>12. Living(t) <=> Living(s)
  BY <1>1 DEF SameScenes, SameComponent, Living
<1>13. ASSUME NEW q \in Recs(t) \ {r} PROVE Fits(t, q, t.m_instances[q].state)
  <2>1. q \in Recs(s) /\ t.m_instances[q] = s.m_instances[q] /\ q \in Requests
    BY <1>0, <1>1, <1>2, <1>4 DEF OtherRecords
  <2>2. Fits(s, q, s.m_instances[q].state) BY <2>1 DEF Loose, Inv
  <2>3. Undisturbed(s, t, q)
    BY <1>1, <1>2, <1>12, <2>1
    DEF Undisturbed, SameScenes, SameComponent, SameBoundaries, SameTickets
  <2> QED BY ONLY <2>1, <2>2, <2>3, OthersFit
<1>14. Fits(t, r, "Active")
  <2>1. Owes(t, r, "Active") BY <1>1 DEF Owes, Starting, Cleaning
  <2>2. TicketIn(t, r, "Active")
    BY <1>1 DEF TicketIn, SameTickets
  <2>3. SlotIn(t, r, "Active")
    <3>1. HandleOf(t, r) = record.instance.slot BY <1>1 DEF HandleOf
    <3>2. FindSlot(t, HandleOf(t, r)) <=> FindSlot(s, record.instance.slot)
      BY <1>1, <3>1 DEF FindSlot, SameScenes
    <3>3. t.slots = s.slots /\ t.controllers = s.controllers /\ t.entities = s.entities
      BY <1>1 DEF SameScenes, SameTickets
    <3>4. CASE ~Living(s)
      BY <1>12, <3>4 DEF SlotIn, Starting
    <3>5. CASE Living(s)
      <4>1. LET handle == record.instance.slot
                slot == s.slots[handle.scene][handle.slot]
            IN  /\ FindSlot(s, handle) /\ slot.placed /\ slot.bound = r /\ r \in s.entities
                /\ record.declares <=> record.attached
                /\ record.declares <=> record.instance \in s.controllers
        BY <3>5, Zenon DEF Complete
      <4> QED BY <1>1, <3>1, <3>2, <3>3, <4>1, Zenon DEF SlotIn, Starting
    <3> QED BY <3>4, <3>5
  <2> QED BY <2>1, <2>2, <2>3 DEF Fits
<1> QED BY <1>1, <1>5, <1>6, <1>7, <1>8, <1>9, <1>10, <1>11, <1>13, <1>14 DEF Inv, Shared, t

-----------------------------------------------------------------------------
(* New requests                                                            *)

SameButNumbers(s, t) ==
  /\ SameScenes(s, t) /\ SamePipe(s, t) /\ SameTickets(s, t)
  /\ SameBoundaries(s, t) /\ SameAnswers(s, t) /\ t.m_instances = s.m_instances
  /\ t.m_lifecycle = s.m_lifecycle /\ t.m_generation = s.m_generation
  /\ t.m_spawner = s.m_spawner

(* The request counters may grow up to their bounds.                       *)
LEMMA NumbersKept ==
  ASSUME NEW s, NEW t, NEW R, Inv(s, R), t \in State, SameButNumbers(s, t),
         t.m_nextSpawnRequest \in s.m_nextSpawnRequest .. MaxSpawns + 1,
         t.m_nextDespawnRequest \in s.m_nextDespawnRequest .. MaxDespawns + 1,
         t.m_lifecycle = "Registering" => t.m_nextSpawnRequest + InitialSpawnCount <= MaxSpawns + 1
  PROVE  Inv(t, R)
<1>0. s \in State /\ Shared(s) BY DEF Inv, Shared
<1>1. /\ s.m_nextSpawnRequest \in Nat /\ s.m_nextDespawnRequest \in Nat
      /\ t.m_nextSpawnRequest \in Nat /\ t.m_nextDespawnRequest \in Nat
      /\ t.m_nextSpawnRequest >= s.m_nextSpawnRequest
      /\ t.m_nextDespawnRequest >= s.m_nextDespawnRequest
      /\ MaxSpawns \in Nat /\ MaxDespawns \in Nat
      /\ s.m_nextSpawnRequest >= 1 /\ s.m_nextDespawnRequest >= 1
  BY <1>0, Typed, Numbers DEF Shared, Lifecycle
<1>2. /\ SameScenes(s, t) /\ SamePipe(s, t) /\ SameTickets(s, t)
      /\ SameBoundaries(s, t) /\ SameAnswers(s, t) /\ t.m_instances = s.m_instances
      /\ t.m_lifecycle = s.m_lifecycle /\ t.m_generation = s.m_generation
      /\ t.m_spawner = s.m_spawner /\ Recs(t) = Recs(s)
  BY DEF SameButNumbers, Recs
<1>3. SameHandles(s, t) /\ NoNewLife(s, t) /\ Pipeline(t) = Pipeline(s)
  BY <1>2 DEF SameHandles, NoNewLife, SameScenes, Pipeline, SamePipe
<1>4. \A r \in Recs(s) : r \in Nat /\ s.m_instances[r].despawn \in Nat
  BY <1>0, RecordTyped, Numbers
<1>5. \A i \in 1 .. Len(s.queued) :
        /\ s.queued[i].kind = "SpawnFailed" => s.queued[i].answers \in Nat
        /\ s.queued[i].kind = "DespawnFailed" => s.queued[i].answers \in Nat
        /\ IsCallback(s.queued[i]) => s.queued[i].request.value \in Nat
  <2>1. \A f \in Function : /\ f.kind = "SpawnFailed" => f.answers \in Requests
                            /\ f.kind = "DespawnFailed" => f.answers \in DespawnRequests
    BY DEF Function, SpawnedFunction, DespawnedFunction, SpawnFailedFunction, DespawnFailedFunction
  <2> QED BY <1>0, <2>1, QueuedTyped, Numbers
<1>6. Lifecycle(t)
  <2>1. \A r \in Recs(t) : HandleOf(t, r) = HandleOf(s, r) BY <1>2 DEF HandleOf
  <2>2. t.m_nextSpawnRequest \in 1 .. MaxSpawns + 1 /\ t.m_nextDespawnRequest \in 1 .. MaxDespawns + 1
    BY <1>1
  <2>3. \A r \in Recs(s) : r < t.m_nextSpawnRequest
    BY <1>0, <1>1, <1>4 DEF Shared, Lifecycle
  <2> QED BY <1>0, <1>2, <2>1, <2>2, <2>3 DEF Shared, Lifecycle, SameScenes
<1>7. Answering(t)
  <2>1. /\ t.queued = s.queued /\ t.answers = s.answers /\ t.despawnAnswers = s.despawnAnswers
    BY <1>2 DEF SameAnswers
  <2>2. \A r \in Requests : r >= t.m_nextSpawnRequest => r >= s.m_nextSpawnRequest
    BY <1>1, Numbers
  <2>3. \A r \in DespawnRequests : r >= t.m_nextDespawnRequest => r >= s.m_nextDespawnRequest
    BY <1>1, Numbers
  <2>4. \A i \in 1 .. Len(s.queued) :
       LET f == s.queued[i] IN
       /\ f.kind = "SpawnFailed" =>
            f.answers < t.m_nextSpawnRequest /\ s.answers[f.answers] = <<>> /\ f.answers \notin Recs(s)
       /\ f.kind = "DespawnFailed" =>
            /\ f.answers < t.m_nextDespawnRequest /\ s.despawnAnswers[f.answers] = <<>>
            /\ \A r \in Recs(s) : s.m_instances[r].despawn # f.answers
    BY <1>0, <1>1, <1>5 DEF Shared, Answering
  <2>5. \A r \in Recs(s) : s.m_instances[r].despawn # 0 =>
       /\ s.m_instances[r].despawn < t.m_nextDespawnRequest
       /\ s.despawnAnswers[s.m_instances[r].despawn] = <<>>
       /\ s.answers[r] = <<"Succeeded">>
       /\ \A q \in Recs(s) : s.m_instances[q].despawn = s.m_instances[r].despawn => q = r
    BY <1>0, <1>1, <1>4 DEF Shared, Answering
  <2> QED BY <1>0, <1>2, <2>1, <2>2, <2>3, <2>4, <2>5 DEF Shared, Answering
<1>8. Boundaries(t) BY <1>0, <1>2, BoundariesKept DEF Shared
<1>9. Tickets(t)
  <2>1. t.queued = s.queued /\ t.service = s.service /\ t.entities = s.entities
    BY <1>2 DEF SameAnswers, SameTickets
  <2>2. \A r \in Requests : r >= t.m_nextSpawnRequest => r >= s.m_nextSpawnRequest
    BY <1>1, Numbers
  <2>3. \A i \in 1 .. Len(s.queued) : IsCallback(s.queued[i]) =>
          s.queued[i].request.value < t.m_nextSpawnRequest
    BY <1>0, <1>1, <1>5 DEF Shared, Tickets
  <2> QED BY <1>0, <1>2, <2>1, <2>2, <2>3 DEF Shared, Tickets
<1>10. Queue(t) BY <1>0, <1>2, <1>3, QueueKept DEF Shared, SamePipe
<1>11. Leases(t) BY <1>0, <1>2, <1>3, LeasesKept DEF Shared, SameScenes
<1>12. Stranding(t) BY <1>0, <1>2, <1>3, StrandingKept DEF Shared, SameScenes
<1>13. ASSUME NEW q \in Recs(t) \ R PROVE Fits(t, q, t.m_instances[q].state)
  <2>1. q \in Recs(s) /\ t.m_instances[q] = s.m_instances[q] /\ Fits(s, q, s.m_instances[q].state)
    BY <1>2 DEF Inv
  <2>2. Living(t) <=> Living(s) BY <1>2 DEF SameScenes, Living
  <2>3. Undisturbed(s, t, q)
    BY <1>2, <2>1, <2>2 DEF Undisturbed, SameScenes, SameTickets, SameBoundaries, SameAnswers
  <2> QED BY ONLY <2>1, <2>3, OthersFit
<1> QED BY <1>6, <1>7, <1>8, <1>9, <1>10, <1>11, <1>12, <1>13 DEF Inv, Shared

(* A despawn request's number is new.                                      *)
LEMMA DespawnAllocated ==
  ASSUME NEW s, NEW R, Inv(s, R), s.m_nextDespawnRequest <= MaxDespawns
  PROVE  LET t == AllocateDespawnRequest(s) IN
         /\ Inv(t, R) /\ OpenDespawn(t, s.m_nextDespawnRequest)
         /\ SameButNumbers(s, t)
<1> DEFINE t == AllocateDespawnRequest(s)
           d == s.m_nextDespawnRequest
<1>0. s \in State /\ Shared(s) BY DEF Inv, Shared
<1>1. /\ d \in Nat /\ d >= 1 /\ MaxDespawns \in Nat /\ d \in DespawnRequests
      /\ s.m_nextSpawnRequest \in 1 .. MaxSpawns + 1 /\ MaxSpawns \in Nat
      /\ s.m_lifecycle = "Registering" => s.m_nextSpawnRequest + InitialSpawnCount <= MaxSpawns + 1
  BY <1>0, Typed, Numbers DEF Shared, Lifecycle, DespawnRequests
<1>2. t \in State /\ t.m_nextDespawnRequest = d + 1 /\ t.m_nextSpawnRequest = s.m_nextSpawnRequest
  <2>1. \A n \in Nat : /\ [s EXCEPT !.m_nextDespawnRequest = n] \in State
                       /\ [s EXCEPT !.m_nextDespawnRequest = n].m_nextDespawnRequest = n
                       /\ [s EXCEPT !.m_nextDespawnRequest = n].m_nextSpawnRequest = s.m_nextSpawnRequest
    BY <1>0 DEF State
  <2>2. d + 1 \in Nat BY <1>1
  <2> QED BY <2>1, <2>2, Zenon DEF AllocateDespawnRequest
<1>3. SameButNumbers(s, t)
  BY <1>0 DEF AllocateDespawnRequest, State, SameButNumbers, SameScenes, SamePipe, SameTickets,
       SameBoundaries, SameAnswers
<1> HIDE DEF t
<1>4. Inv(t, R)
  <2>1. /\ t.m_nextSpawnRequest \in s.m_nextSpawnRequest .. MaxSpawns + 1
        /\ t.m_nextDespawnRequest \in s.m_nextDespawnRequest .. MaxDespawns + 1
    BY <1>1, <1>2
  <2>2. t.m_lifecycle = s.m_lifecycle BY <1>3 DEF SameButNumbers
  <2> QED BY <1>1, <1>2, <1>3, <2>1, <2>2, NumbersKept
<1>5. OpenDespawn(t, d)
  <2>1. /\ t.queued = s.queued /\ t.despawnAnswers = s.despawnAnswers
        /\ t.m_instances = s.m_instances /\ Recs(t) = Recs(s)
    BY <1>3 DEF SameButNumbers, SameAnswers, Recs
  <2>2. s.despawnAnswers[d] = <<>> BY <1>0, <1>1 DEF Shared, Answering
  <2>3. \A r \in Recs(s) : s.m_instances[r].despawn # d
    BY <1>0, <1>1 DEF Shared, Answering
  <2>4. \A i \in 1 .. Len(s.queued) : s.queued[i].kind = "DespawnFailed" => s.queued[i].answers # d
    BY <1>0, <1>1 DEF Shared, Answering
  <2> QED BY <1>1, <1>2, <2>1, <2>2, <2>3, <2>4 DEF OpenDespawn
<1> QED BY <1>3, <1>4, <1>5 DEF t

(* Nothing has happened yet for a request.                                 *)
Fresh(s, r) == /\ OpenSpawn(s, r) /\ NoCallback(s, r) /\ s.service[r] = <<>> /\ r \notin s.entities

(* A spawn request's number is new.                                        *)
LEMMA SpawnAllocated ==
  ASSUME NEW s, NEW R, Inv(s, R), s.m_nextSpawnRequest <= MaxSpawns,
         s.m_lifecycle = "Registering" => s.m_nextSpawnRequest + InitialSpawnCount <= MaxSpawns
  PROVE  LET t == AllocateSpawnRequest(s) IN
         /\ Inv(t, R) /\ Fresh(t, s.m_nextSpawnRequest) /\ SameButNumbers(s, t)
         /\ t.m_nextSpawnRequest = s.m_nextSpawnRequest + 1
<1> DEFINE t == AllocateSpawnRequest(s)
           r == s.m_nextSpawnRequest
<1>0. s \in State /\ Shared(s) BY DEF Inv, Shared
<1>1. /\ r \in Nat /\ r >= 1 /\ MaxSpawns \in Nat /\ r \in Requests /\ InitialSpawnCount \in Nat
      /\ s.m_nextDespawnRequest \in 1 .. MaxDespawns + 1 /\ MaxDespawns \in Nat
  BY <1>0, Typed, Numbers, ConfigurationAssumption, CapacityAssumption DEF Shared, Lifecycle, Requests
<1>2. t \in State /\ t.m_nextSpawnRequest = r + 1 /\ t.m_nextDespawnRequest = s.m_nextDespawnRequest
  <2>1. \A n \in Nat : /\ [s EXCEPT !.m_nextSpawnRequest = n] \in State
                       /\ [s EXCEPT !.m_nextSpawnRequest = n].m_nextSpawnRequest = n
                       /\ [s EXCEPT !.m_nextSpawnRequest = n].m_nextDespawnRequest = s.m_nextDespawnRequest
    BY <1>0 DEF State
  <2>2. r + 1 \in Nat BY <1>1
  <2> QED BY <2>1, <2>2, Zenon DEF AllocateSpawnRequest
<1>3. SameButNumbers(s, t)
  BY <1>0 DEF AllocateSpawnRequest, State, SameButNumbers, SameScenes, SamePipe, SameTickets,
       SameBoundaries, SameAnswers
<1> HIDE DEF t
<1>4. Inv(t, R)
  <2>1. /\ t.m_nextSpawnRequest \in s.m_nextSpawnRequest .. MaxSpawns + 1
        /\ t.m_nextDespawnRequest \in s.m_nextDespawnRequest .. MaxDespawns + 1
    BY <1>1, <1>2
  <2>2. t.m_lifecycle = s.m_lifecycle BY <1>3 DEF SameButNumbers
  <2>3. t.m_lifecycle = "Registering" => t.m_nextSpawnRequest + InitialSpawnCount <= MaxSpawns + 1
    BY <1>1, <1>2, <2>2
  <2> QED BY <1>2, <1>3, <2>1, <2>3, NumbersKept
<1>5. Fresh(t, r)
  <2>1. /\ t.queued = s.queued /\ t.answers = s.answers /\ t.service = s.service
        /\ t.entities = s.entities /\ Recs(t) = Recs(s)
    BY <1>3 DEF SameButNumbers, SameAnswers, Recs, SameTickets
  <2>2. s.answers[r] = <<>> BY <1>0, <1>1 DEF Shared, Answering
  <2>3. r \notin Recs(s)
    BY <1>0, <1>1 DEF Shared, Lifecycle
  <2>4. \A i \in 1 .. Len(s.queued) : s.queued[i].kind = "SpawnFailed" => s.queued[i].answers # r
    BY <1>0, <1>1 DEF Shared, Answering
  <2>5. s.service[r] = <<>> /\ r \notin s.entities
    BY <1>0, <1>1 DEF Shared, Tickets
  <2>6. \A i \in 1 .. Len(s.queued) : IsCallback(s.queued[i]) => s.queued[i].request.value # r
    BY <1>0, <1>1 DEF Shared, Tickets
  <2> QED BY <1>1, <1>2, <2>1, <2>2, <2>3, <2>4, <2>5, <2>6 DEF OpenSpawn, Fresh, NoCallback
<1> QED BY <1>2, <1>3, <1>4, <1>5 DEF t

(* A record that waits for nothing may be moved.                           *)
LEMMA Loosened ==
  ASSUME NEW s, Inv(s, {}), NEW r \in Recs(s), s.m_instances[r].state = "Active" \/ IsIdle(s, r)
  PROVE  Loose(s, r) /\ Fits(s, r, s.m_instances[r].state)
<1>1. IsIdle(s, r)
  BY DEF Inv, Shared, Queue, Steps
<1> QED BY <1>1 DEF Loose, Inv

(* Records of one scene hold different instances.                          *)
LEMMA InstancesDiffer ==
  ASSUME NEW s, Leases(s), NEW q \in Recs(s), NEW r \in Recs(s), q # r
  PROVE  s.m_instances[q].instance # s.m_instances[r].instance
BY DEF Leases, HandleOf

SameButControllers(s, t) ==
  /\ t.life = s.life /\ t.slots = s.slots /\ SamePipe(s, t) /\ SameComponent(s, t)
  /\ SameTickets(s, t) /\ SameBoundaries(s, t) /\ SameAnswers(s, t)
  /\ t.m_instances = s.m_instances

(* The controllers of a record that is being moved may go at any time.     *)
LEMMA ControllersRemoved ==
  ASSUME NEW s, NEW t, NEW r \in Recs(s), Inv(s, {r}), t \in State, SameButControllers(s, t),
         t.controllers = s.controllers \ {s.m_instances[r].instance}
  PROVE  Inv(t, {r})
<1>0. s \in State /\ Shared(s) BY DEF Inv, Shared
<1>1. /\ t.life = s.life /\ t.slots = s.slots /\ SamePipe(s, t) /\ SameComponent(s, t)
      /\ SameTickets(s, t) /\ SameBoundaries(s, t) /\ SameAnswers(s, t)
      /\ t.m_instances = s.m_instances /\ Recs(t) = Recs(s)
  BY DEF SameButControllers, Recs
<1>2. SameHandles(s, t) /\ NoNewLife(s, t) /\ Pipeline(t) = Pipeline(s)
  BY <1>1 DEF SameHandles, NoNewLife, Pipeline, SamePipe
<1>3. Lifecycle(t) BY <1>0, <1>1, <1>2, LifecycleKept DEF Shared
<1>4. Answering(t) BY <1>0, <1>1, AnsweringKept DEF Shared
<1>5. Boundaries(t) BY <1>0, <1>1, BoundariesKept DEF Shared
<1>6. Tickets(t) BY <1>0, <1>1, TicketsKept DEF Shared, SameAnswers, SameComponent
<1>7. Queue(t) BY <1>0, <1>1, <1>2, QueueKept DEF Shared, SamePipe, SameComponent
<1>8. Living(t) <=> Living(s) BY <1>1 DEF SameComponent, Living
<1>9. \A q \in Recs(t) : HandleOf(t, q) = HandleOf(s, q) BY <1>1 DEF HandleOf
<1>10. Leases(t)
  BY <1>0, <1>1, <1>8, <1>9 DEF Shared, Leases, SameComponent
<1>11. Stranding(t)
  <2>1. \A h : Holds(t, h) <=> Holds(s, h) BY <1>1, <1>9 DEF Holds
  <2>2. \A h : HasControllers(s, h) => HasControllers(t, h) \/ Holds(t, h)
    BY <1>1 DEF HasControllers, Holds, HandleOf
  <2> QED BY <1>0, <1>1, <1>2, <2>1, <2>2 DEF Shared, Stranding
<1>12. ASSUME NEW q \in Recs(t) \ {r} PROVE Fits(t, q, t.m_instances[q].state)
  <2>1. q \in Recs(s) /\ t.m_instances[q] = s.m_instances[q] /\ Fits(s, q, s.m_instances[q].state)
    BY <1>1 DEF Inv
  <2>2. s.m_instances[q].instance # s.m_instances[r].instance
    BY <1>0, <2>1, InstancesDiffer DEF Shared
  <2>3. Undisturbed(s, t, q)
    BY <1>1, <1>8, <2>1, <2>2
    DEF Undisturbed, SameComponent, SameTickets, SameBoundaries, SameAnswers
  <2> QED BY ONLY <2>1, <2>3, OthersFit
<1> QED BY <1>3, <1>4, <1>5, <1>6, <1>7, <1>10, <1>11, <1>12 DEF Inv, Shared

(* What removing an instance's controllers does.                           *)
LEMMA DetachEffect ==
  ASSUME NEW s \in State, NEW instance
  PROVE  LET t == DetachControllers(s, instance) IN
         /\ t \in State /\ SameButControllers(s, t)
         /\ t.controllers = s.controllers \ {instance}
<1> DEFINE C == s.controllers \ {instance}
           t == [s EXCEPT !.controllers = C]
<1>1. C \subseteq InstanceHandle BY Typed
<1>2. t = DetachControllers(s, instance) BY DEF DetachControllers
<1> HIDE DEF C
<1>3. t \in State /\ t.controllers = C BY <1>1 DEF State
<1>4. SameButControllers(s, t)
  BY DEF State, SameButControllers, SamePipe, SameComponent, SameTickets, SameBoundaries, SameAnswers
<1> QED BY <1>2, <1>3, <1>4 DEF C

(* Detaching the controllers, by a command or, where it is refused, at     *)
(* once.                                                                   *)
LEMMA SubmitDetachControllersKeeps ==
  ASSUME NEW s, NEW r, NEW closes, Loose(s, r), Fits(s, r, "DetachingControllers")
  PROVE  Inv(SubmitDetachControllers(s, r, closes), {})
<1> DEFINE instance == s.m_instances[r].instance
<1>0. s \in State /\ r \in Recs(s) /\ Inv(s, {r}) /\ Shared(s) BY DEF Loose, Inv, Shared
<1>1. CASE AcceptsDetach(s, instance, closes)
  <2>1. <<"DetachingControllers", "Detach">> \in Steps BY DEF Steps
  <2>2. Inv(Await(s, r, "DetachingControllers", "Detach"), {}) BY <2>1, AwaitKeeps
  <2> QED BY <1>1, <2>2 DEF SubmitDetachControllers
<1>2. CASE ~AcceptsDetach(s, instance, closes)
  <2> DEFINE u == DestroyControllersImmediately(s, instance)
             record == [u.m_instances[r] EXCEPT !.attached = FALSE, !.failed = TRUE]
             t == [u EXCEPT !.m_instances[r] = record]
  <2>1. SubmitDetachControllers(s, r, closes) = SubmitUnbind(t, r)
    BY <1>2 DEF SubmitDetachControllers
  <2>2. FindScene(s, instance.slot.scene) <=> Living(s)
    BY <1>0, SceneOfRecord DEF Shared, HandleOf
  <2>3. /\ Inv(u, {r}) /\ u.m_instances = s.m_instances /\ u \in State
        /\ SameComponent(s, u) /\ SameTickets(s, u) /\ SameBoundaries(s, u) /\ SameAnswers(s, u)
        /\ u.slots = s.slots /\ u.life = s.life
        /\ Living(s) => instance \notin u.controllers
    <3>1. CASE Living(s)
      <4>1. u = DetachControllers(s, instance)
        BY <2>2, <3>1 DEF DestroyControllersImmediately
      <4>2. u \in State /\ SameButControllers(s, u) /\ u.controllers = s.controllers \ {instance}
        BY <1>0, <4>1, DetachEffect
      <4> HIDE DEF u
      <4>3. Inv(u, {r}) BY <1>0, <4>2, ControllersRemoved
      <4> QED BY <4>2, <4>3 DEF SameButControllers
    <3>2. CASE ~Living(s)
      <4>1. u = s BY <2>2, <3>2 DEF DestroyControllersImmediately
      <4> QED BY <1>0, <3>2, <4>1 DEF SameComponent, SameTickets, SameBoundaries, SameAnswers
    <3> QED BY <3>1, <3>2
  <2> HIDE DEF u
  <2>4. r \in Recs(u) /\ u.m_instances[r] \in InstanceRecord
    BY <1>0, <2>3, RecordTyped DEF Recs
  <2>5. /\ record \in InstanceRecord /\ record.instance = instance
        /\ record.instance = u.m_instances[r].instance
        /\ record.pending = s.m_instances[r].pending /\ record.state = s.m_instances[r].state
        /\ record.despawn = s.m_instances[r].despawn /\ record.terminal = s.m_instances[r].terminal
        /\ record.ticket = s.m_instances[r].ticket /\ record.attached = FALSE
        /\ record.declares = s.m_instances[r].declares
    BY <2>3, <2>4 DEF InstanceRecord
  <2> HIDE DEF record
  <2>6. Rewrites(u, t, r) /\ t.m_instances[r] = record
    BY <2>3, <2>4, <2>5, RecordWritten
  <2> HIDE DEF t
  <2>7. Inv(t, {r}) /\ Recs(t) = Recs(u)
    BY <2>3, <2>4, <2>5, <2>6, Rewritten
  <2>8. Loose(t, r)
    BY <1>0, <2>4, <2>5, <2>6, <2>7 DEF Loose, IsIdle
  <2>9. /\ t.slots = s.slots /\ t.controllers = u.controllers /\ t.entities = s.entities
        /\ t.service = s.service /\ t.queued = s.queued /\ t.answers = s.answers
        /\ t.boundary = s.boundary /\ t.life = s.life /\ t.m_spawner = s.m_spawner
    BY <2>3, <2>6 DEF Rewrites, SameButRecords, SameScenes, SameComponent, SameTickets, SameBoundaries, SameAnswers
  <2>10. Fits(t, r, "Unbinding")
    <3>1. Owes(t, r, "Unbinding")
      BY <2>5, <2>6, <2>9 DEF Fits, Owes, Starting, Cleaning
    <3>2. TicketIn(t, r, "Unbinding")
      BY <2>5, <2>6, <2>9 DEF Fits, TicketIn
    <3>3. SlotIn(t, r, "Unbinding")
      <4>1. HandleOf(t, r) = HandleOf(s, r) BY <2>5, <2>6 DEF HandleOf
      <4>2. FindSlot(t, HandleOf(t, r)) <=> FindSlot(s, HandleOf(s, r))
        BY <2>9, <4>1 DEF FindSlot
      <4>3. Living(t) <=> Living(s) BY <2>9 DEF Living
      <4> QED BY <2>3, <2>5, <2>6, <2>9, <4>1, <4>2, <4>3 DEF Fits, SlotIn, Starting
    <3> QED BY <3>1, <3>2, <3>3 DEF Fits
  <2>11. Inv(SubmitUnbind(t, r), {}) BY <2>8, <2>10, SubmitUnbindKeeps
  <2> QED BY <2>1, <2>11
<1> QED BY <1>1, <1>2

TakeDespawn(s, r, d) ==
  [s EXCEPT !.m_instances[r] = [@ EXCEPT !.terminal = FALSE, !.despawn = d]]

(* An active record takes a despawn request.                               *)
LEMMA DespawnTaken ==
  ASSUME NEW s, NEW r, NEW d, Loose(s, r), Fits(s, r, "Active"), OpenDespawn(s, d)
  PROVE  LET t == TakeDespawn(s, r, d)
         IN  /\ Loose(t, r) /\ Fits(t, r, "DetachingControllers")
             /\ (Living(s) /\ ~s.m_instances[r].attached) => Fits(t, r, "Unbinding")
             /\ ~Living(s) => Fits(t, r, "Unbinding")
<1> DEFINE record == [s.m_instances[r] EXCEPT !.terminal = FALSE, !.despawn = d]
           t == [s EXCEPT !.m_instances[r] = record]
<1>0. s \in State /\ r \in Recs(s) /\ Inv(s, {r}) /\ Shared(s) BY DEF Loose, Inv, Shared
<1>1. s.m_instances[r] \in InstanceRecord BY <1>0, RecordTyped
<1>2. d \in Nat /\ d # 0 /\ d \in DespawnRequests BY Numbers DEF OpenDespawn
<1>3. /\ record \in InstanceRecord /\ record.instance = s.m_instances[r].instance
      /\ record.pending = s.m_instances[r].pending /\ record.state = s.m_instances[r].state
      /\ record.despawn = d /\ record.terminal = FALSE
      /\ record.ticket = s.m_instances[r].ticket /\ record.attached = s.m_instances[r].attached
      /\ record.declares = s.m_instances[r].declares
  BY <1>1, <1>2 DEF InstanceRecord
<1>4. t = TakeDespawn(s, r, d)
  BY DEF TakeDespawn
<1> HIDE DEF record
<1>5. Rewrites(s, t, r) /\ t.m_instances[r] = record
  BY <1>0, <1>3, RecordWritten
<1> HIDE DEF t
<1>6. /\ SameScenes(s, t) /\ SameComponent(s, t) /\ SameTickets(s, t) /\ SameBoundaries(s, t)
      /\ SameAnswers(s, t) /\ Recs(t) = Recs(s)
      /\ \A q \in Recs(s) : q # r => t.m_instances[q] = s.m_instances[q]
  BY <1>5 DEF Rewrites, SameButRecords, OtherRecords
<1>7. Answering(t)
  <2>1. s.answers[r] = <<"Succeeded">> BY DEF Fits, Owes
  <2>2. /\ t.queued = s.queued /\ t.answers = s.answers /\ t.despawnAnswers = s.despawnAnswers
        /\ t.m_nextSpawnRequest = s.m_nextSpawnRequest
        /\ t.m_nextDespawnRequest = s.m_nextDespawnRequest
    BY <1>6 DEF SameAnswers, SameComponent
  <2>3. /\ d < s.m_nextDespawnRequest /\ s.despawnAnswers[d] = <<>>
        /\ \A q \in Recs(s) : s.m_instances[q].despawn # d
        /\ \A i \in 1 .. Len(s.queued) : s.queued[i].kind = "DespawnFailed" => s.queued[i].answers # d
    BY DEF OpenDespawn
  <2>4. ASSUME NEW i \in 1 .. Len(s.queued), s.queued[i].kind = "DespawnFailed"
        PROVE  \A q \in Recs(t) : t.m_instances[q].despawn # s.queued[i].answers
    BY <1>0, <1>3, <1>5, <1>6, <2>3, <2>4 DEF Shared, Answering
  <2>5. ASSUME NEW q \in Recs(t), t.m_instances[q].despawn # 0
        PROVE  /\ t.m_instances[q].despawn < s.m_nextDespawnRequest
               /\ s.despawnAnswers[t.m_instances[q].despawn] = <<>>
               /\ s.answers[q] = <<"Succeeded">>
               /\ \A x \in Recs(t) : t.m_instances[x].despawn = t.m_instances[q].despawn => x = q
    <3>1. CASE q = r BY <1>3, <1>5, <1>6, <2>1, <2>3, <3>1
    <3>2. CASE q # r
      <4>1. t.m_instances[q] = s.m_instances[q] /\ q \in Recs(s) BY <1>6, <3>2
      <4>2. t.m_instances[r].despawn # s.m_instances[q].despawn BY <1>3, <1>5, <2>3, <4>1
      <4> QED BY <1>0, <1>6, <2>5, <4>1, <4>2 DEF Shared, Answering
    <3> QED BY <3>1, <3>2
  <2> QED BY <1>0, <1>6, <2>2, <2>4, <2>5 DEF Shared, Answering
<1>8. Inv(t, {r}) /\ Undisturbed(s, t, r)
  BY <1>0, <1>3, <1>5, <1>7, RewrittenAnswering
<1>9. Loose(t, r)
  BY <1>0, <1>3, <1>5, <1>6, <1>8 DEF Loose, IsIdle
<1>10. TicketIn(t, r, "Active") /\ SlotIn(t, r, "Active")
  BY <1>3, <1>5, <1>8, TicketInKept, SlotInKept DEF Fits
<1>11. Owes(t, r, "DetachingControllers") /\ Owes(t, r, "Unbinding")
  BY <1>2, <1>3, <1>5 DEF Owes, Starting, Cleaning
<1>12. TicketIn(t, r, "DetachingControllers") /\ TicketIn(t, r, "Unbinding")
  BY <1>10 DEF TicketIn
<1>13. SlotIn(t, r, "DetachingControllers")
  BY <1>10 DEF SlotIn, Starting
<1>14. Living(t) <=> Living(s) BY <1>6 DEF SameScenes, SameComponent, Living
<1>15. ASSUME ~Living(s) PROVE SlotIn(t, r, "Unbinding")
  BY <1>14, <1>15 DEF SlotIn, Starting
<1>16. ASSUME Living(s), ~s.m_instances[r].attached PROVE SlotIn(t, r, "Unbinding")
  <2>1. ~t.m_instances[r].attached BY <1>3, <1>5, <1>16
  <2>2. t.m_instances[r].instance \notin t.controllers
    BY <1>10, <1>14, <1>16, <2>1, Zenon DEF SlotIn
  <2> QED BY <1>10, <2>2 DEF SlotIn, Starting
<1> QED BY <1>4, <1>9, <1>11, <1>12, <1>13, <1>15, <1>16 DEF Fits

(* A despawn of an instance the spawner holds.                             *)
LEMMA DespawnBegun ==
  ASSUME NEW s, NEW r \in Recs(s), NEW d, NEW closes, Inv(s, {}), OpenDespawn(s, d),
         s.m_instances[r].state = "Active"
  PROVE  LET t == TakeDespawn(s, r, d)
         IN  /\ s.m_instances[r].attached => Inv(SubmitDetachControllers(t, r, closes), {})
             /\ ~s.m_instances[r].attached => Inv(SubmitUnbind(t, r), {})
<1> DEFINE t == TakeDespawn(s, r, d)
<1>1. Loose(s, r) /\ Fits(s, r, "Active") BY Loosened
<1>2. /\ Loose(t, r) /\ Fits(t, r, "DetachingControllers")
      /\ (Living(s) /\ ~s.m_instances[r].attached) => Fits(t, r, "Unbinding")
      /\ ~Living(s) => Fits(t, r, "Unbinding")
  BY <1>1, DespawnTaken
<1> HIDE DEF t
<1>3. Inv(SubmitDetachControllers(t, r, closes), {})
  BY <1>2, SubmitDetachControllersKeeps
<1>4. ~s.m_instances[r].attached => Inv(SubmitUnbind(t, r), {})
  BY <1>2, SubmitUnbindKeeps
<1> QED BY <1>3, <1>4 DEF t

-----------------------------------------------------------------------------
(* Beginning a spawn                                                       *)

PutSlot(s, scene, i, slot) == [s EXCEPT !.slots[scene][i] = slot]
SameButSlots(s, t) ==
  /\ t.life = s.life /\ t.controllers = s.controllers /\ SamePipe(s, t) /\ SameComponent(s, t)
  /\ SameTickets(s, t) /\ SameBoundaries(s, t) /\ SameAnswers(s, t)
  /\ t.m_instances = s.m_instances
OtherSlots(s, t, scene, i) ==
  \A x \in Scene, j \in Slot : (x # scene \/ j # i) => t.slots[x][j] = s.slots[x][j]

(* Writing one slot.                                                       *)
LEMMA SlotWritten ==
  ASSUME NEW s \in State, NEW scene \in Scene, NEW i \in Slot, NEW slot \in RuntimeSlot
  PROVE  LET t == PutSlot(s, scene, i, slot) IN
         /\ t \in State /\ SameButSlots(s, t) /\ t.slots[scene][i] = slot
         /\ OtherSlots(s, t, scene, i)
<1> DEFINE S == [s.slots EXCEPT ![scene] = [s.slots[scene] EXCEPT ![i] = slot]]
           t == [s EXCEPT !.slots = S]
<1>1. s.slots \in [Scene -> [Slot -> RuntimeSlot]] BY Typed
<1>2. /\ S \in [Scene -> [Slot -> RuntimeSlot]] /\ S[scene][i] = slot
      /\ \A x \in Scene, j \in Slot : (x # scene \/ j # i) => S[x][j] = s.slots[x][j]
  BY <1>1
<1>3. t = PutSlot(s, scene, i, slot) BY DEF PutSlot
<1> HIDE DEF S
<1>4. t \in State /\ t.slots = S BY <1>2 DEF State
<1>5. SameButSlots(s, t)
  BY DEF State, SameButSlots, SamePipe, SameComponent, SameTickets, SameBoundaries, SameAnswers
<1> HIDE DEF t
<1> QED BY <1>2, <1>3, <1>4, <1>5 DEF OtherSlots

(* A nonempty set of naturals has a least element.                         *)
LEMMA Least ==
  ASSUME NEW T, T \subseteq Nat, T # {}
  PROVE  \E x \in T : \A y \in T : x <= y
<1> DEFINE R == {p \in Nat \X Nat : p[1] < p[2]}
<1>1. IsWellFoundedOn(R, Nat)
  BY NatLessThanWellFounded DEF OpToRel
<1>2. \E x \in T : \A y \in T : ~ (<<y, x>> \in R)
  <2> HIDE DEF R
  <2> QED BY <1>1, WFMin, Zenon
<1>3. PICK x \in T : \A y \in T : ~ (<<y, x>> \in R)
  BY <1>2
<1>4. ASSUME NEW y \in T PROVE x <= y
  <2>1. <<y, x>> \in Nat \X Nat BY Zenon
  <2>2. ~(y < x) BY <1>3, <2>1
  <2>3. x \in Nat /\ y \in Nat OBVIOUS
  <2> QED BY <2>2, <2>3
<1> QED BY <1>4

(* The slot a spawn takes was free.                                        *)
LEMMA FirstFreeIsFree ==
  ASSUME NEW s, NEW scene, FreeSlots(s, scene) # {}
  PROVE  FirstFree(s, scene) \in Slot /\ ~s.slots[scene][FirstFree(s, scene)].reserved
<1>1. FreeSlots(s, scene) \subseteq Nat
  BY CapacityAssumption DEF FreeSlots, Slot
<1>2. \E i \in FreeSlots(s, scene) : \A j \in FreeSlots(s, scene) : i <= j
  BY <1>1, Least
<1>3. FirstFree(s, scene) \in FreeSlots(s, scene) BY <1>2 DEF FirstFree
<1> QED BY <1>3 DEF FreeSlots

(* The state in which the new record waits for its first command.          *)
Taken(s, r) ==
  [ReserveSlot(s, s.m_spawner) EXCEPT
     !.m_instances = Emplace(@, r, NewRecord(s, ReservedHandle(s, s.m_spawner)))]

(* A slot is reserved and a record made for it.                            *)
LEMMA TakenEffect ==
  ASSUME NEW s \in State, NEW r \in Requests, s.m_spawner \in Scene,
         FreeSlots(s, s.m_spawner) # {}
  PROVE  LET t == Taken(s, r)
             scene == s.m_spawner
             i == FirstFree(s, scene)
             record == NewRecord(s, ReservedHandle(s, scene))
         IN  /\ t \in State /\ t.life = s.life /\ t.controllers = s.controllers
             /\ SamePipe(s, t) /\ SameComponent(s, t) /\ SameTickets(s, t)
             /\ SameBoundaries(s, t) /\ SameAnswers(s, t)
             /\ i \in Slot /\ ~s.slots[scene][i].reserved
             /\ t.slots[scene][i] = [s.slots[scene][i] EXCEPT !.reserved = TRUE]
             /\ OtherSlots(s, t, scene, i)
             /\ Recs(t) = Recs(s) \union {r} /\ t.m_instances[r] = record
             /\ \A q \in Recs(s) : q # r => t.m_instances[q] = s.m_instances[q]
<1> DEFINE scene == s.m_spawner
           i == FirstFree(s, scene)
           slot == [s.slots[scene][i] EXCEPT !.reserved = TRUE]
           record == NewRecord(s, ReservedHandle(s, scene))
           u == PutSlot(s, scene, i, slot)
           J == Emplace(s.m_instances, r, record)
           t == [u EXCEPT !.m_instances = J]
<1>1. i \in Slot /\ ~s.slots[scene][i].reserved BY FirstFreeIsFree
<1>2. s.slots[scene][i] \in RuntimeSlot BY <1>1, Typed
<1>3. slot \in RuntimeSlot BY <1>2 DEF RuntimeSlot
<1>4. record \in InstanceRecord
  <2>1. ReservedHandle(s, scene) \in SlotHandle
    BY <1>1, <1>2 DEF ReservedHandle, SlotHandle, RuntimeSlot
  <2>2. s.m_generation \in Nat BY Typed
  <2> QED BY <2>1, <2>2 DEF NewRecord, InstanceRecord, InstanceHandle, Idle, NoCommand, SlotTypes,
                RecordStates, Starting
<1>5. u = ReserveSlot(s, scene) BY DEF ReserveSlot, PutSlot
<1> HIDE DEF i, slot, record
<1>6. /\ u \in State /\ SameButSlots(s, u) /\ u.slots[scene][i] = slot
      /\ OtherSlots(s, u, scene, i)
  BY <1>1, <1>3, SlotWritten
<1> HIDE DEF u
<1>7. /\ J \in Instances /\ DOMAIN J = Recs(s) \union {r} /\ J[r] = record
      /\ \A q \in Recs(s) : q # r => J[q] = s.m_instances[q]
  BY <1>4, Typed, RecordAdded DEF Recs
<1>8. t = Taken(s, r)
  <2>1. u.m_instances = s.m_instances BY <1>6 DEF SameButSlots
  <2> QED BY <1>5, <2>1 DEF Taken, record
<1> HIDE DEF J
<1>9. t \in State /\ t.m_instances = J
  BY <1>6, <1>7 DEF State
<1>10. /\ t.life = u.life /\ t.slots = u.slots /\ t.controllers = u.controllers
       /\ SamePipe(u, t) /\ SameComponent(u, t) /\ SameTickets(u, t)
       /\ SameBoundaries(u, t) /\ SameAnswers(u, t)
  BY <1>6 DEF State, SamePipe, SameComponent, SameTickets, SameBoundaries, SameAnswers
<1> HIDE DEF t
<1>11. /\ t.life = s.life /\ t.controllers = s.controllers
       /\ SamePipe(s, t) /\ SameComponent(s, t) /\ SameTickets(s, t)
       /\ SameBoundaries(s, t) /\ SameAnswers(s, t)
  BY <1>6, <1>10
  DEF SameButSlots, SamePipe, SameComponent, SameTickets, SameBoundaries, SameAnswers
<1>12. t.slots[scene][i] = slot /\ OtherSlots(s, t, scene, i)
  BY <1>6, <1>10 DEF OtherSlots
<1>13. /\ Recs(t) = Recs(s) \union {r} /\ t.m_instances[r] = record
       /\ \A q \in Recs(s) : q # r => t.m_instances[q] = s.m_instances[q]
  BY <1>7, <1>9 DEF Recs
<1> QED BY <1>1, <1>8, <1>9, <1>11, <1>12, <1>13 DEF i, slot, record

(* The new record may wait for its reset.                                  *)
LEMMA TakenKeeps ==
  ASSUME NEW s, NEW r, Inv(s, {}), Fresh(s, r), s.m_lifecycle = "Ready", Living(s),
         FreeSlots(s, s.m_spawner) # {}
  PROVE  Loose(Taken(s, r), r) /\ Fits(Taken(s, r), r, "Resetting")
<1> DEFINE t == Taken(s, r)
           scene == s.m_spawner
           i == FirstFree(s, scene)
           handle == ReservedHandle(s, scene)
           record == NewRecord(s, handle)
<1>0. s \in State /\ Shared(s) /\ r \in Requests /\ scene \in Scene /\ r \notin Recs(s)
  BY DEF Inv, Shared, Fresh, OpenSpawn, Living
<1>1. /\ t \in State /\ t.life = s.life /\ t.controllers = s.controllers
      /\ SamePipe(s, t) /\ SameComponent(s, t) /\ SameTickets(s, t)
      /\ SameBoundaries(s, t) /\ SameAnswers(s, t)
      /\ i \in Slot /\ ~s.slots[scene][i].reserved
      /\ t.slots[scene][i] = [s.slots[scene][i] EXCEPT !.reserved = TRUE]
      /\ OtherSlots(s, t, scene, i)
      /\ Recs(t) = Recs(s) \union {r} /\ t.m_instances[r] = record
      /\ \A q \in Recs(s) : q # r => t.m_instances[q] = s.m_instances[q]
  BY <1>0, TakenEffect
<1> HIDE DEF t
<1>2. /\ record.instance = [slot |-> handle, generation |-> s.m_generation]
      /\ record.pending.id = NoCommand /\ ~record.ticket /\ ~record.terminal /\ ~record.attached
      /\ record.despawn = 0
  BY DEF NewRecord, Idle
<1>3. /\ handle.scene = scene /\ handle.slot = i /\ handle.generation = s.slots[scene][i].generation
      /\ handle = [scene |-> scene, slot |-> i, generation |-> s.slots[scene][i].generation]
  BY DEF ReservedHandle
<1> HIDE DEF i, handle, record
<1>4. /\ HandleOf(t, r) = handle /\ \A q \in Recs(s) : q # r /\ HandleOf(t, q) = HandleOf(s, q)
      /\ \A q \in Recs(s) : t.m_instances[q] = s.m_instances[q]
  BY <1>0, <1>1, <1>2 DEF HandleOf
<1>5. s.slots[scene][i] \in RuntimeSlot BY <1>0, <1>1, Typed
<1>6. /\ t.slots[scene][i].reserved /\ t.slots[scene][i].generation = s.slots[scene][i].generation
      /\ t.slots[scene][i].bound = s.slots[scene][i].bound /\ s.slots[scene][i].bound = NoEntities
  <2>1. s.slots[scene][i].bound = NoEntities BY <1>0, <1>1 DEF Shared, Leases
  <2> QED BY <1>1, <1>5, <2>1 DEF RuntimeSlot
<1>7. \A q \in Recs(s) :
        /\ HandleOf(s, q).scene = scene /\ HandleOf(s, q).slot \in Slot /\ HandleOf(s, q).slot # i
        /\ Fits(s, q, s.m_instances[q].state)
  <2> TAKE q \in Recs(s)
  <2>1. HandleOf(s, q).scene = scene /\ HandleOf(s, q).slot \in Slot
    BY <1>0, RecordTyped, SceneOfRecord DEF Shared
  <2>2. Fits(s, q, s.m_instances[q].state) BY DEF Inv
  <2>3. FindSlot(s, HandleOf(s, q)) BY <2>2 DEF Fits, SlotIn
  <2> QED BY <1>1, <2>1, <2>2, <2>3 DEF FindSlot
<1>8. Living(t) <=> Living(s) BY <1>1 DEF SameComponent, Living
<1>9. NoNewLife(s, t) /\ Pipeline(t) = Pipeline(s)
  BY <1>1 DEF NoNewLife, Pipeline, SamePipe
<1>10. r < s.m_nextSpawnRequest /\ s.answers[r] = <<>>
  BY DEF Fresh, OpenSpawn
<1>11. Lifecycle(t)
  <2>1. ASSUME NEW q \in Recs(t)
        PROVE  /\ q < t.m_nextSpawnRequest /\ HandleOf(t, q).scene = t.m_spawner
               /\ t.m_instances[q].instance.generation = t.m_generation
    <3>1. CASE q = r
      BY <1>1, <1>2, <1>3, <1>4, <1>10, <3>1 DEF SameComponent
    <3>2. CASE q \in Recs(s)
      BY <1>0, <1>1, <1>4, <3>2 DEF Shared, Lifecycle, SameComponent
    <3> QED BY <1>1, <3>1, <3>2
  <2> QED BY <1>0, <1>1, <2>1 DEF Shared, Lifecycle, SameComponent
<1>12. Answering(t)
  <2>1. \A k \in 1 .. Len(s.queued) : s.queued[k].kind = "SpawnFailed" => s.queued[k].answers # r
    BY DEF Fresh, OpenSpawn
  <2>2. \A k \in 1 .. Len(s.queued) : s.queued[k].kind = "DespawnFailed" => s.queued[k].answers # 0
    <3>1. \A f \in Function : f.kind = "DespawnFailed" => f.answers \in DespawnRequests
      BY DEF Function, SpawnedFunction, DespawnedFunction, SpawnFailedFunction, DespawnFailedFunction
    <3> QED BY <1>0, <3>1, QueuedTyped, Numbers
  <2>3. /\ t.queued = s.queued /\ t.answers = s.answers /\ t.despawnAnswers = s.despawnAnswers
        /\ t.m_nextSpawnRequest = s.m_nextSpawnRequest
        /\ t.m_nextDespawnRequest = s.m_nextDespawnRequest
    BY <1>1 DEF SameAnswers, SameComponent
  <2>4. ASSUME NEW q \in Recs(t), t.m_instances[q].despawn # 0
        PROVE  /\ t.m_instances[q].despawn < s.m_nextDespawnRequest
               /\ s.despawnAnswers[t.m_instances[q].despawn] = <<>>
               /\ s.answers[q] = <<"Succeeded">>
               /\ \A x \in Recs(t) : t.m_instances[x].despawn = t.m_instances[q].despawn => x = q
    BY <1>0, <1>1, <1>2, <1>4, <2>4 DEF Shared, Answering
  <2> QED BY <1>0, <1>1, <1>2, <1>4, <2>1, <2>2, <2>3, <2>4 DEF Shared, Answering
<1>13. Boundaries(t) BY <1>0, <1>1, BoundariesKept DEF Shared
<1>14. Tickets(t)
  BY <1>0, <1>1 DEF Shared, Tickets, SameTickets, SameAnswers, SameComponent
<1>15. Queue(t)
  <2>1. \A q \in Recs(s) : CommandOf(t, q) = CommandOf(s, q) /\ (IsIdle(t, q) <=> IsIdle(s, q))
    BY <1>4 DEF CommandOf, IsIdle
  <2>2. t.m_instances[r].pending.id = NoCommand /\ IsIdle(t, r) BY <1>1, <1>2 DEF IsIdle
  <2>3. t.life = s.life /\ t.m_spawner = s.m_spawner /\ t.m_nextCommandId = s.m_nextCommandId
    BY <1>1 DEF SameComponent, SamePipe
  <2> DEFINE p == Pipeline(s)
  <2> HIDE DEF p
  <2>4. ASSUME NEW k \in 1 .. Len(p), Slotted(p[k])
        PROVE  /\ t.life[p[k].slot.scene] \notin Unbuilt
               /\ p[k].id < t.m_nextCommandId
               /\ p[k].slot.scene = t.m_spawner =>
                    p[k].id # NoCommand /\ \E x \in Recs(t) : t.m_instances[x].pending.id = p[k].id
               /\ p[k].id # NoCommand => \A x \in Recs(t) :
                    t.m_instances[x].pending.id = p[k].id => p[k] = CommandOf(t, x)
               /\ p[k].id # NoCommand => \A j \in 1 .. Len(p) :
                    (Slotted(p[j]) /\ p[j].id = p[k].id) => j = k
    BY <1>0, <1>1, <1>4, <2>1, <2>2, <2>3, <2>4 DEF Shared, Queue, p
  <2>5. ASSUME NEW x \in Recs(t), ~IsIdle(t, x)
        PROVE  /\ t.m_instances[x].pending.id < t.m_nextCommandId
               /\ <<t.m_instances[x].state, t.m_instances[x].pending.type>> \in Steps
               /\ \A y \in Recs(t) : t.m_instances[y].pending.id = t.m_instances[x].pending.id => y = x
    <3>1. x \in Recs(s) /\ ~IsIdle(s, x) /\ x # r BY <1>1, <1>4, <2>1, <2>2, <2>5
    <3>2. t.m_instances[x].pending.id # NoCommand BY <2>5 DEF IsIdle
    <3> QED BY <1>0, <1>1, <1>4, <2>2, <2>3, <3>1, <3>2 DEF Shared, Queue
  <2>6. t.m_nextCommandId > 0 BY <1>0, <2>3 DEF Shared, Queue
  <2> QED BY <1>9, <2>4, <2>5, <2>6 DEF Queue, p
<1>16. Leases(t)
  <2>1. \A x \in Scene, j \in Slot : ~t.slots[x][j].reserved =>
          ~s.slots[x][j].reserved /\ t.slots[x][j] = s.slots[x][j]
    BY <1>0, <1>1, <1>6 DEF OtherSlots
  <2>2. \A x \in Scene : t.life[x] \in Unbuilt => \A j \in Slot : ~t.slots[x][j].reserved
    <3>1. s.life[scene] \notin Unbuilt BY DEF Living, Unbuilt
    <3> QED BY <1>0, <1>1, <3>1 DEF Shared, Leases, OtherSlots
  <2>3. \A q, x \in Recs(t) : HandleOf(t, q).slot = HandleOf(t, x).slot => q = x
    BY <1>0, <1>1, <1>3, <1>4, <1>7 DEF Shared, Leases
  <2>4. ASSUME Living(t), NEW instance \in t.controllers, instance.slot.scene = t.m_spawner
        PROVE  \E q \in Recs(t) : t.m_instances[q].instance = instance
    BY <1>0, <1>1, <1>4, <1>8, <2>4 DEF Shared, Leases, SameComponent
  <2>5. \A x \in Scene, j \in Slot : ~t.slots[x][j].reserved => t.slots[x][j].bound = NoEntities
    BY <1>0, <2>1 DEF Shared, Leases
  <2>6. \A instance \in t.controllers : t.life[instance.slot.scene] \notin Unbuilt
    BY <1>0, <1>1 DEF Shared, Leases
  <2> QED BY <2>2, <2>3, <2>4, <2>5, <2>6 DEF Leases
<1>17. Stranding(t)
  <2>1. \A h : Holds(s, h) => Holds(t, h) BY <1>1, <1>4 DEF Holds
  <2>2. \A h : HasControllers(s, h) <=> HasControllers(t, h) BY <1>1 DEF HasControllers
  <2>3. Holds(t, handle) BY <1>1, <1>4 DEF Holds
  <2>4. ASSUME NEW x \in Scene, NEW j \in Slot, t.life[x] = "Alive", t.slots[x][j].reserved
        PROVE  LET h == [scene |-> x, slot |-> j, generation |-> t.slots[x][j].generation]
               IN  \/ Holds(t, h) \/ HasControllers(t, h)
                   \/ \E k \in 1 .. Len(Pipeline(s)) : ReleaseOf(Pipeline(s)[k], h)
    <3>1. CASE x = scene /\ j = i BY <1>3, <1>6, <2>3, <3>1
    <3>2. CASE ~(x = scene /\ j = i)
      <4>1. t.slots[x][j] = s.slots[x][j] BY <1>1, <3>2 DEF OtherSlots
      <4> QED BY <1>0, <1>1, <2>1, <2>2, <2>4, <4>1 DEF Shared, Stranding
    <3> QED BY <3>1, <3>2
  <2>5. ASSUME NEW k \in 1 .. Len(Pipeline(s)), Pipeline(s)[k].type = "Detach",
               t.life[Pipeline(s)[k].slot.scene] = "Alive", ~Holds(t, Pipeline(s)[k].slot)
        PROVE  \E m \in 1 .. Len(Pipeline(s)) : m > k /\ ReleaseOf(Pipeline(s)[m], Pipeline(s)[k].slot)
    BY <1>0, <1>1, <2>1, <2>5 DEF Shared, Stranding
  <2> QED BY <1>9, <2>4, <2>5 DEF Stranding
<1>18. ASSUME NEW q \in Recs(t) \ {r} PROVE Fits(t, q, t.m_instances[q].state)
  <2>1. q \in Recs(s) /\ t.m_instances[q] = s.m_instances[q] /\ Fits(s, q, s.m_instances[q].state)
    BY <1>1, <1>4, <1>7
  <2>2. LET h == HandleOf(s, q) IN t.slots[h.scene][h.slot] = s.slots[h.scene][h.slot]
    BY <1>0, <1>1, <1>7, <2>1 DEF OtherSlots
  <2>3. Undisturbed(s, t, q)
    BY <1>1, <1>8, <2>1, <2>2
    DEF Undisturbed, SameComponent, SameTickets, SameBoundaries, SameAnswers
  <2> QED BY ONLY <2>1, <2>3, OthersFit
<1>19. Inv(t, {r}) /\ Loose(t, r)
  <2>1. IsIdle(t, r) BY <1>1, <1>2 DEF IsIdle
  <2> QED BY <1>1, <1>11, <1>12, <1>13, <1>14, <1>15, <1>16, <1>17, <1>18, <2>1 DEF Inv, Shared, Loose
<1>20. Fits(t, r, "Resetting")
  <2>1. Owes(t, r, "Resetting")
    BY <1>1, <1>2, <1>10 DEF Owes, SameAnswers, Cleaning
  <2>2. TicketIn(t, r, "Resetting")
    BY <1>1, <1>2 DEF TicketIn, SameTickets, SameAnswers, Fresh, NoCallback
  <2>3. record.instance \notin t.controllers
    <3> SUFFICES ASSUME record.instance \in s.controllers PROVE FALSE BY <1>1
    <3>1. record.instance.slot = handle /\ record.instance.slot.scene = s.m_spawner BY <1>2, <1>3
    <3>2. PICK q \in Recs(s) : s.m_instances[q].instance = record.instance
      BY <1>0, <3>1 DEF Shared, Leases
    <3>3. HandleOf(s, q) = handle BY <3>1, <3>2 DEF HandleOf
    <3> QED BY <1>3, <1>7, <3>2, <3>3
  <2>4. FindSlot(t, handle) BY <1>3, <1>6 DEF FindSlot
  <2>5. SlotIn(t, r, "Resetting")
    BY <1>1, <1>2, <1>3, <1>4, <1>6, <2>3, <2>4, Zenon DEF SlotIn
  <2> QED BY <2>1, <2>2, <2>5 DEF Fits
<1> QED BY <1>19, <1>20 DEF t

(* BeginSpawn, for a request nothing has happened for.                     *)
LEMMA BeginSpawnKeeps ==
  ASSUME NEW s, NEW r, NEW finite, Inv(s, {}), Fresh(s, r), s.m_lifecycle = "Ready"
  PROVE  Inv(BeginSpawn(s, r, finite), {}) /\ SameComponent(s, BeginSpawn(s, r, finite))
<1>0. s \in State /\ r \in Requests BY DEF Inv, Shared, Fresh, OpenSpawn
<1>1. CASE ~finite \/ ~FindScene(s, s.m_spawner) \/ FreeSlots(s, s.m_spawner) = {}
  <2>1. BeginSpawn(s, r, finite) = QueueSpawnFailure(s, r) BY <1>1 DEF BeginSpawn
  <2>2. SameComponent(s, QueueSpawnFailure(s, r))
    <3>1. [kind |-> "SpawnFailed", answers |-> r] \in Function
      BY <1>0 DEF Function, SpawnFailedFunction
    <3> QED BY <1>0, <3>1, EnqueuedEffect DEF QueueSpawnFailure, SameButQueued
  <2> QED BY <2>1, <2>2, SpawnFailureQueued DEF Fresh
<1>2. CASE ~(~finite \/ ~FindScene(s, s.m_spawner) \/ FreeSlots(s, s.m_spawner) = {})
  <2> DEFINE t == Taken(s, r)
  <2>1. Living(s) /\ s.m_spawner \in Scene BY <1>2 DEF Inv, Shared, Lifecycle, Living, FindScene
  <2>2. BeginSpawn(s, r, finite) = SubmitReset(t, r) BY <1>2 DEF BeginSpawn, Taken
  <2>3. Loose(t, r) /\ Fits(t, r, "Resetting") BY <1>2, <2>1, TakenKeeps
  <2>4. SameComponent(s, t) /\ t.life = s.life 
    <3>1. FreeSlots(s, s.m_spawner) # {} BY <1>2
    <3> QED BY <1>0, <2>1, <3>1, TakenEffect, Zenon
  <2> HIDE DEF t
  <2>5. Living(t) BY <2>1, <2>4 DEF Living, SameComponent
  <2>6. t \in State /\ r \in Recs(t) /\ Lifecycle(t) BY <2>3 DEF Loose, Inv, Shared
  <2>7. SubmitReset(t, r) = Await(t, r, "Resetting", "Reset")
    BY <2>5, <2>6, SceneOfRecord DEF SubmitReset
  <2>8. SameButCommands(t, Await(t, r, "Resetting", "Reset"))
    <3>1. "Resetting" \in RecordStates /\ "Reset" \in SlotTypes BY DEF RecordStates, Starting, SlotTypes
    <3> QED BY <2>6, <3>1, AwaitEffect, Zenon
  <2>9. SameComponent(s, SubmitReset(t, r))
    BY <2>4, <2>7, <2>8 DEF SameButCommands, SameComponent
  <2> QED BY <2>2, <2>3, <2>9, SubmitKeeps
<1> QED BY <1>1, <1>2

(* Induction up to a bound, about a set instead of a formula.              *)
LEMMA UpToBound ==
  ASSUME NEW n \in Nat, NEW S, 0 \in S, \A i \in 1 .. n : i - 1 \in S => i \in S
  PROVE  0 .. n \subseteq S
<1> DEFINE T == {i \in 0 .. n : i \notin S}
<1>1. CASE T # {}
  <2>1. T \subseteq Nat OBVIOUS
  <2>2. PICK x \in T : \A y \in T : x <= y BY <1>1, <2>1, Least
  <2>3. x \in 1 .. n /\ x - 1 \in 0 .. n /\ x \notin S BY <2>2
  <2>4. x - 1 \notin T BY <2>2, <2>3
  <2> QED BY <2>3, <2>4
<1> QED BY <1>1

InitialSpawn(s) == BeginSpawn(AllocateSpawnRequest(s), s.m_nextSpawnRequest, TRUE)
InitialCount == IF TriggerMode = "ExternalRequestsOnly" THEN 0 ELSE InitialSpawnCount
BegunUpTo(f, s, m) == f = [i \in 0 .. m |-> IF i = 0 THEN s ELSE InitialSpawn(f[i - 1])]

(* The initial spawns are made one after the other.                        *)
LEMMA BegunOneByOne ==
  ASSUME NEW s
  PROVE  \E f : /\ f[0] = s /\ \A i \in 1 .. InitialCount : f[i] = InitialSpawn(f[i - 1])
                /\ BeginInitialSpawns(s) = f[InitialCount]
<1> DEFINE n == InitialCount
           S == {m \in 0 .. n : \E f : BegunUpTo(f, s, m)}
<1>0. n \in Nat
  BY ConfigurationAssumption, CapacityAssumption DEF InitialCount
<1>1. 0 \in S
  <2>1. BegunUpTo([i \in 0 .. 0 |-> s], s, 0) BY DEF BegunUpTo
  <2> QED BY <1>0, <2>1
<1>2. ASSUME NEW m \in 1 .. n, m - 1 \in S PROVE m \in S
  <2>1. PICK f : BegunUpTo(f, s, m - 1) BY <1>2
  <2> DEFINE g == [i \in 0 .. m |-> IF i = m THEN InitialSpawn(f[m - 1]) ELSE f[i]]
  <2>2. m \in Nat /\ m >= 1 BY <1>0
  <2>3. \A i \in 0 .. m - 1 : g[i] = f[i] BY <2>2
  <2>4. g[m] = InitialSpawn(f[m - 1]) BY <2>2
  <2>5. \A i \in 0 .. m - 1 : f[i] = IF i = 0 THEN s ELSE InitialSpawn(f[i - 1])
    BY <2>1 DEF BegunUpTo
  <2> HIDE DEF g
  <2>6. ASSUME NEW i \in 0 .. m PROVE g[i] = IF i = 0 THEN s ELSE InitialSpawn(g[i - 1])
    <3>1. CASE i = m
      <4>1. m - 1 \in 0 .. m - 1 /\ i # 0 BY <2>2, <3>1
      <4> QED BY <2>3, <2>4, <3>1, <4>1
    <3>2. CASE i # m
      <4>1. i \in 0 .. m - 1 /\ (i # 0 => i - 1 \in 0 .. m - 1) BY <2>2, <3>2
      <4>2. g[i] = f[i] BY <2>3, <4>1
      <4>3. i # 0 => g[i - 1] = f[i - 1] BY <2>3, <4>1
      <4> QED BY <2>5, <4>1, <4>2, <4>3
    <3> QED BY <3>1, <3>2
  <2>7. g = [i \in 0 .. m |-> IF i = 0 THEN s ELSE InitialSpawn(g[i - 1])]
    <3>1. g = [i \in 0 .. m |-> g[i]] BY DEF g
    <3> QED BY <2>6, <3>1, Zenon
  <2>8. BegunUpTo(g, s, m) BY <2>7 DEF BegunUpTo
  <2> QED BY <1>0, <2>8
<1>3. \E f : BegunUpTo(f, s, n)
  <2>1. \A i \in 1 .. n : i - 1 \in S => i \in S BY <1>2
  <2> HIDE DEF S, n
  <2>2. 0 .. n \subseteq S BY <1>0, <1>1, <2>1, UpToBound
  <2>3. n \in S BY <1>0, <2>2
  <2> QED BY <2>3 DEF S
<1> DEFINE g == CHOOSE f : BegunUpTo(f, s, n)
<1>4. BegunUpTo(g, s, n) BY <1>3
<1>5. BeginInitialSpawns(s) = g[n]
  BY DEF BeginInitialSpawns, BegunUpTo, InitialSpawn, InitialCount
<1> HIDE DEF g, n
<1>6. g[0] = s /\ \A i \in 1 .. n : g[i] = InitialSpawn(g[i - 1])
  BY <1>0, <1>4 DEF BegunUpTo
<1> QED BY <1>5, <1>6 DEF n

(* The initial spawns, for which Activate has left room.                   *)
LEMMA BeginInitialSpawnsKeeps ==
  ASSUME NEW s, Inv(s, {}), s.m_lifecycle = "Ready",
         s.m_nextSpawnRequest + InitialSpawnCount <= MaxSpawns + 1
  PROVE  Inv(BeginInitialSpawns(s), {})
<1> DEFINE n == InitialCount
           next == s.m_nextSpawnRequest
           Good(t, i) == Inv(t, {}) /\ t.m_lifecycle = "Ready" /\ t.m_nextSpawnRequest = next + i
<1>0. n \in Nat /\ n <= InitialSpawnCount /\ next \in Nat /\ MaxSpawns \in Nat /\ InitialSpawnCount \in Nat
  BY ConfigurationAssumption, CapacityAssumption, BoundsAssumption, Typed DEF InitialCount, Inv, Shared
<1>1. PICK f : /\ f[0] = s /\ \A i \in 1 .. n : f[i] = InitialSpawn(f[i - 1])
               /\ BeginInitialSpawns(s) = f[n]
  BY BegunOneByOne
<1> DEFINE S == {i \in 0 .. n : Good(f[i], i)}
<1>2. 0 \in S BY <1>0, <1>1
<1>3. ASSUME NEW i \in 1 .. n, i - 1 \in S PROVE i \in S
  <2> DEFINE t == f[i - 1]
             u == AllocateSpawnRequest(t)
  <2> HIDE DEF n, t, next
  <2>1. Inv(t, {}) /\ t.m_lifecycle = "Ready" /\ t.m_nextSpawnRequest = next + (i - 1)
    BY <1>3 DEF t
  <2>2. t.m_nextSpawnRequest <= MaxSpawns /\ next + (i - 1) + 1 = next + i
    BY <1>0, <2>1 DEF next
  <2>3. /\ Inv(u, {}) /\ Fresh(u, t.m_nextSpawnRequest) /\ SameButNumbers(t, u)
        /\ u.m_nextSpawnRequest = t.m_nextSpawnRequest + 1
    BY <2>1, <2>2, SpawnAllocated
  <2> HIDE DEF u
  <2>4. u.m_lifecycle = "Ready" BY <2>1, <2>3 DEF SameButNumbers
  <2> DEFINE w == BeginSpawn(u, t.m_nextSpawnRequest, TRUE)
  <2>5. Inv(w, {}) /\ SameComponent(u, w) BY <2>3, <2>4, BeginSpawnKeeps
  <2>6. f[i] = w BY <1>1 DEF InitialSpawn, u, t
  <2> HIDE DEF w
  <2>7. w.m_lifecycle = "Ready" /\ w.m_nextSpawnRequest = next + i
    BY <2>1, <2>2, <2>3, <2>4, <2>5 DEF SameComponent
  <2> QED BY <1>0, <2>5, <2>6, <2>7
<1>4. n \in S
  <2>1. \A i \in 1 .. n : i - 1 \in S => i \in S BY <1>3
  <2> HIDE DEF S, n
  <2>2. 0 .. n \subseteq S BY <1>0, <1>2, <2>1, UpToBound
  <2> QED BY <1>0, <2>2
<1> QED BY <1>1, <1>4

-----------------------------------------------------------------------------
(* Executing a slot command                                                *)

SameButScene(s, t) ==
  /\ t.life = s.life /\ SamePipe(s, t) /\ SameComponent(s, t) /\ SameTickets(s, t)
  /\ SameBoundaries(s, t) /\ SameAnswers(s, t) /\ t.m_instances = s.m_instances

(* The slot after a command that succeeded.                                *)
Renewed(slot, c) ==
  CASE c.type = "Place"   -> [slot EXCEPT !.placed = TRUE]
    [] c.type = "Bind"    -> [slot EXCEPT !.bound = c.entities]
    [] c.type = "Unbind"  -> [slot EXCEPT !.bound = NoEntities]
    [] c.type = "Reset"   -> ClearSlot(slot)
    [] c.type = "Release" -> ReleasedSlot(slot)

(* What each command does to its slot.                                     *)
LEMMA RenewedSlot ==
  ASSUME NEW slot \in RuntimeSlot, NEW c \in SlotCommand, c.type \notin {"Attach", "Detach"}
  PROVE  LET new == Renewed(slot, c) IN
         /\ new \in RuntimeSlot
         /\ c.type # "Release" => new.reserved = slot.reserved /\ new.generation = slot.generation
         /\ c.type = "Release" => ~new.reserved
         /\ c.type \in {"Unbind", "Reset", "Release"} => new.bound = NoEntities
         /\ c.type = "Place" => new.bound = slot.bound /\ new.placed
         /\ c.type = "Bind" => new.bound = c.entities /\ new.placed = slot.placed
         /\ c.type = "Unbind" => new.placed = slot.placed
<1>1. c.type \in {"Place", "Bind", "Unbind", "Reset", "Release"} /\ c.entities \in Nat /\ NoEntities \in Nat
  BY DEF SlotCommand, SlotTypes, NoEntities
<1>2. slot.generation \in Generations /\ NextGeneration(slot.generation) \in Generations
  BY GenerationAssumption DEF RuntimeSlot, Generations, NextGeneration
<1>3. CASE c.type = "Place" BY <1>3 DEF Renewed, RuntimeSlot
<1>4. CASE c.type = "Bind" BY <1>1, <1>4 DEF Renewed, RuntimeSlot
<1>5. CASE c.type = "Unbind" BY <1>1, <1>5 DEF Renewed, RuntimeSlot
<1>6. CASE c.type = "Reset" BY <1>1, <1>6 DEF Renewed, RuntimeSlot, ClearSlot
<1>7. CASE c.type = "Release"
  <2>1. ClearSlot(slot) \in RuntimeSlot /\ ClearSlot(slot).generation = slot.generation
        /\ ClearSlot(slot).bound = NoEntities
    BY <1>1 DEF RuntimeSlot, ClearSlot
  <2>2. ReleasedSlot(slot) \in RuntimeSlot /\ ~ReleasedSlot(slot).reserved
        /\ ReleasedSlot(slot).bound = NoEntities
    BY <1>2, <2>1 DEF RuntimeSlot, ReleasedSlot
  <2>3. Renewed(slot, c) = ReleasedSlot(slot) BY <1>7 DEF Renewed
  <2> QED BY <1>7, <2>2, <2>3
<1> QED BY <1>1, <1>3, <1>4, <1>5, <1>6, <1>7

(* When a command succeeds.                                                *)
LEMMA ResultFacts ==
  ASSUME NEW s, NEW c \in SlotCommand, NEW valid
  PROVE  LET result == Result(s, c, valid) IN
         /\ result = "Success" =>
              /\ FindScene(s, c.slot.scene) /\ FindSlot(s, c.slot)
              /\ c.type \in {"Unbind", "Reset", "Release"} => ~HasControllers(s, c.slot)
              /\ c.type = "Attach" => Instance(c) \notin s.controllers
         /\ (/\ FindScene(s, c.slot.scene) /\ FindSlot(s, c.slot) /\ ~HasControllers(s, c.slot)
             /\ c.type \in {"Unbind", "Reset", "Release"}) => result = "Success"
BY DEF Result, BlockedByControllers

(* The slot and the controllers after a command with the given result.     *)
Executed(s, w, c, result) ==
  LET scene == c.slot.scene
      i == c.slot.slot
  IN  /\ OtherSlots(s, w, scene, i)
      /\ w.slots[scene][i] =
           IF result = "Success" /\ c.type \notin {"Attach", "Detach"}
           THEN Renewed(s.slots[scene][i], c) ELSE s.slots[scene][i]
      /\ w.controllers =
           IF c.type = "Detach" /\ FindScene(s, scene) THEN s.controllers \ {Instance(c)}
           ELSE IF c.type = "Attach" /\ result = "Success" /\ c.entities # NoEntities
           THEN s.controllers \union {Instance(c)} ELSE s.controllers

(* Executing a command changes its slot and its instance's controllers,    *)
(* nothing else.                                                           *)
LEMMA ExecuteEffect ==
  ASSUME NEW s \in State, NEW c \in SlotCommand, NEW valid
  PROVE  /\ Execute(s, c, valid) \in State /\ SameButScene(s, Execute(s, c, valid))
         /\ Executed(s, Execute(s, c, valid), c, Result(s, c, valid))
<1> DEFINE w == Execute(s, c, valid)
           scene == c.slot.scene
           i == c.slot.slot
           done == Result(s, c, valid) = "Success"
<1>0. /\ scene \in Scene /\ i \in Slot /\ c.slot \in SlotHandle /\ c.owner \in Nat
      /\ s.slots[scene][i] \in RuntimeSlot /\ c.type \in SlotTypes
  BY Typed DEF SlotCommand, SlotHandle
<1>1. Instance(c) \in InstanceHandle BY <1>0 DEF Instance, InstanceHandle
<1>2. SameButScene(s, s) /\ OtherSlots(s, s, scene, i)
  BY DEF SameButScene, SamePipe, SameComponent, SameTickets, SameBoundaries, SameAnswers, OtherSlots
<1>3. CASE c.type = "Detach" /\ FindScene(s, scene)
  <2>1. w = DetachControllers(s, Instance(c)) BY <1>3 DEF Execute
  <2>2. w \in State /\ SameButControllers(s, w) /\ w.controllers = s.controllers \ {Instance(c)}
    BY <2>1, DetachEffect
  <2> HIDE DEF w
  <2>3. SameButScene(s, w) /\ OtherSlots(s, w, scene, i) /\ w.slots = s.slots
    BY <2>2 DEF SameButControllers, SameButScene, OtherSlots
  <2> QED BY <1>3, <2>2, <2>3 DEF w, Executed
<1>4. CASE c.type = "Detach" /\ ~FindScene(s, scene)
  <2>1. w = s BY <1>4 DEF Execute
  <2> QED BY <1>2, <1>4, <2>1 DEF Executed
<1>5. CASE c.type # "Detach" /\ ~done
  <2>1. w = s BY <1>5 DEF Execute
  <2> QED BY <1>2, <1>5, <2>1 DEF Executed
<1>6. CASE c.type = "Attach" /\ done
  <2> DEFINE C == IF c.entities = NoEntities THEN s.controllers ELSE s.controllers \union {Instance(c)}
             u == [s EXCEPT !.controllers = C]
  <2>1. w = u BY <1>6 DEF Execute, AttachControllers
  <2>2. C \subseteq InstanceHandle BY <1>1, Typed
  <2> HIDE DEF C
  <2>3. u \in State /\ u.controllers = C BY <2>2 DEF State
  <2>4. SameButScene(s, u) /\ u.slots = s.slots
    BY DEF State, SameButScene, SamePipe, SameComponent, SameTickets, SameBoundaries, SameAnswers
  <2> HIDE DEF u, w
  <2>5. OtherSlots(s, u, scene, i) BY <2>4 DEF OtherSlots
  <2> QED BY <1>6, <2>1, <2>3, <2>4, <2>5 DEF C, w, Executed
<1>7. CASE c.type \notin {"Attach", "Detach"} /\ done
  <2> DEFINE slot == Renewed(s.slots[scene][i], c)
             u == PutSlot(s, scene, i, slot)
  <2>1. slot \in RuntimeSlot BY <1>0, <1>7, RenewedSlot
  <2>2. w = u
    <3>1. w = UpdateSlot(s, c) BY <1>7 DEF Execute
    <3>2. UpdateSlot(s, c) = PutSlot(s, scene, i, Renewed(s.slots[scene][i], c))
      BY DEF UpdateSlot, PutSlot, Renewed
    <3> QED BY <3>1, <3>2
  <2> HIDE DEF slot
  <2>3. u \in State /\ SameButSlots(s, u) /\ u.slots[scene][i] = slot /\ OtherSlots(s, u, scene, i)
    BY <1>0, <2>1, SlotWritten
  <2> HIDE DEF u, w
  <2>4. SameButScene(s, u) /\ u.controllers = s.controllers
    BY <2>3 DEF SameButSlots, SameButScene
  <2> QED BY <1>7, <2>2, <2>3, <2>4 DEF slot, w, Executed
<1> QED BY <1>3, <1>4, <1>5, <1>6, <1>7

(* Popping a command.                                                      *)
LEMMA PopEffect ==
  ASSUME NEW s \in State, s.draining # <<>>
  PROVE  LET u == PopCommand(s) IN
         /\ u \in State /\ u.draining = Tail(s.draining) /\ u.m_commands = s.m_commands
         /\ u.m_nextCommandId = s.m_nextCommandId /\ SameScenes(s, u) /\ SameComponent(s, u)
         /\ SameTickets(s, u) /\ SameBoundaries(s, u) /\ SameAnswers(s, u)
         /\ u.m_instances = s.m_instances
         /\ Pipeline(u) = Tail(Pipeline(s)) /\ Pipeline(s) # <<>> /\ Pipeline(s)[1] = Head(s.draining)
<1> DEFINE q == Tail(s.draining)
           u == [s EXCEPT !.draining = q]
<1>1. q \in Seq(Command) BY Typed, Shifted
<1>2. u = PopCommand(s) BY DEF PopCommand
<1> HIDE DEF q
<1>3. u \in State BY <1>1 DEF State
<1>4. /\ u.draining = q /\ u.m_commands = s.m_commands
      /\ u.m_nextCommandId = s.m_nextCommandId /\ SameScenes(s, u) /\ SameComponent(s, u)
      /\ SameTickets(s, u) /\ SameBoundaries(s, u) /\ SameAnswers(s, u)
      /\ u.m_instances = s.m_instances
  BY DEF State, SameScenes, SameComponent, SameTickets, SameBoundaries, SameAnswers
<1> HIDE DEF u
<1>5. Pipeline(u) = Tail(Pipeline(s)) /\ Pipeline(s) # <<>> /\ Pipeline(s)[1] = Head(s.draining)
  BY <1>4, PipelineTail DEF q
<1> QED BY <1>2, <1>3, <1>4, <1>5 DEF q

(* The commands left after the first one.                                  *)
LEMMA PoppedMembers ==
  ASSUME NEW s \in State, NEW t, Pipeline(s) # <<>>, Pipeline(t) = Tail(Pipeline(s))
  PROVE  /\ Len(Pipeline(t)) = Len(Pipeline(s)) - 1 /\ Len(Pipeline(s)) \in Nat \ {0}
         /\ \A i \in 1 .. Len(Pipeline(t)) :
              Pipeline(t)[i] = Pipeline(s)[i + 1] /\ i + 1 \in 1 .. Len(Pipeline(s))
         /\ 1 \in 1 .. Len(Pipeline(s)) /\ Pipeline(s)[1] \in Command
         /\ \A i \in 1 .. Len(Pipeline(s)) : i # 1 =>
              i - 1 \in 1 .. Len(Pipeline(t)) /\ Pipeline(t)[i - 1] = Pipeline(s)[i]
<1> DEFINE p == Pipeline(s)
           q == Pipeline(t)
<1>1. p \in Seq(Command) BY PipelineTyped
<1> HIDE DEF p, q
<1>2. q = Tail(p) /\ p # <<>> BY DEF p, q
<1>3. /\ Len(q) = Len(p) - 1 /\ Len(p) \in Nat \ {0}
      /\ \A i \in 1 .. Len(p) - 1 : q[i] = p[i + 1] /\ i + 1 \in 1 .. Len(p)
      /\ 1 \in 1 .. Len(p) /\ p[1] \in Command
  BY <1>1, <1>2, Shifted
<1>4. ASSUME NEW i \in 1 .. Len(p), i # 1 PROVE i - 1 \in 1 .. Len(q) /\ q[i - 1] = p[i]
  <2>1. i - 1 \in 1 .. Len(p) - 1 /\ (i - 1) + 1 = i BY <1>3, <1>4
  <2>2. q[i - 1] = p[(i - 1) + 1] BY <1>3, <2>1
  <2> QED BY <1>3, <2>1, <2>2
<1> QED BY <1>3, <1>4 DEF p, q

(* The queue without its first command, whose record waits no longer.      *)
LEMMA QueuePopped ==
  ASSUME NEW s \in State, NEW t, Queue(s), Pipeline(s) # <<>>, Pipeline(t) = Tail(Pipeline(s)),
         t.m_nextCommandId = s.m_nextCommandId, t.m_spawner = s.m_spawner,
         \A x \in Scene : s.life[x] \notin Unbuilt => t.life[x] \notin Unbuilt,
         SameHandles(s, t),
         \A q \in Recs(s) :
           \/ /\ t.m_instances[q].pending = s.m_instances[q].pending
              /\ t.m_instances[q].state = s.m_instances[q].state
           \/ /\ t.m_instances[q].pending.id = NoCommand
              /\ Slotted(Pipeline(s)[1]) /\ Pipeline(s)[1].id # NoCommand
              /\ s.m_instances[q].pending.id = Pipeline(s)[1].id
  PROVE  Queue(t)
<1> DEFINE p == Pipeline(s)
           p2 == Pipeline(t)
<1>1. /\ Len(p2) = Len(p) - 1 /\ Len(p) \in Nat \ {0}
      /\ \A i \in 1 .. Len(p2) : p2[i] = p[i + 1] /\ i + 1 \in 1 .. Len(p)
      /\ 1 \in 1 .. Len(p)
  BY PoppedMembers
<1>2. Recs(t) = Recs(s) BY DEF SameHandles
<1>3. \A q \in Recs(s) : t.m_instances[q].pending.id # NoCommand =>
        /\ t.m_instances[q].pending = s.m_instances[q].pending
        /\ t.m_instances[q].state = s.m_instances[q].state
        /\ CommandOf(t, q) = CommandOf(s, q)
  BY DEF SameHandles, CommandOf, HandleOf
<1>4. \A i \in 1 .. Len(p) : Slotted(p[i]) => p[i].slot.scene \in Scene
  BY PipelineTyped
<1> HIDE DEF p, p2
<1>5. ASSUME NEW i \in 1 .. Len(p2), Slotted(p2[i])
      PROVE  /\ t.life[p2[i].slot.scene] \notin Unbuilt
             /\ p2[i].id < t.m_nextCommandId
             /\ p2[i].slot.scene = t.m_spawner =>
                  p2[i].id # NoCommand /\ \E x \in Recs(t) : t.m_instances[x].pending.id = p2[i].id
             /\ p2[i].id # NoCommand => \A x \in Recs(t) :
                  t.m_instances[x].pending.id = p2[i].id => p2[i] = CommandOf(t, x)
             /\ p2[i].id # NoCommand => \A j \in 1 .. Len(p2) :
                  (Slotted(p2[j]) /\ p2[j].id = p2[i].id) => j = i
  <2>1. /\ i + 1 \in 1 .. Len(p) /\ p2[i] = p[i + 1] /\ i + 1 # 1 /\ Slotted(p[i + 1])
    BY <1>1, <1>5
  <2>2. /\ s.life[p[i + 1].slot.scene] \notin Unbuilt /\ p[i + 1].id < s.m_nextCommandId
        /\ p[i + 1].slot.scene = s.m_spawner =>
             p[i + 1].id # NoCommand /\ \E x \in Recs(s) : s.m_instances[x].pending.id = p[i + 1].id
        /\ p[i + 1].id # NoCommand => \A x \in Recs(s) :
             s.m_instances[x].pending.id = p[i + 1].id => p[i + 1] = CommandOf(s, x)
        /\ p[i + 1].id # NoCommand => \A j \in 1 .. Len(p) :
             (Slotted(p[j]) /\ p[j].id = p[i + 1].id) => j = i + 1
    BY <2>1 DEF Queue, p
  <2>3. (Slotted(p[1]) /\ p[1].id = p[i + 1].id) => p[i + 1].id = NoCommand
    BY <1>1, <2>1, <2>2
  <2>4. \A x \in Recs(s) : (s.m_instances[x].pending.id = p[i + 1].id /\ p[i + 1].id # NoCommand) =>
          t.m_instances[x].pending.id = p[i + 1].id
    BY <2>3 DEF p
  <2>5. p[i + 1].id # NoCommand => \A x \in Recs(t) :
          t.m_instances[x].pending.id = p[i + 1].id => p[i + 1] = CommandOf(t, x)
    BY <1>2, <1>3, <2>2
  <2>6. ASSUME p2[i].id # NoCommand, NEW j \in 1 .. Len(p2), Slotted(p2[j]), p2[j].id = p2[i].id
        PROVE  j = i
    <3>1. j + 1 \in 1 .. Len(p) /\ p2[j] = p[j + 1] BY <1>1
    <3>2. j + 1 = i + 1 BY <2>1, <2>2, <2>6, <3>1
    <3> QED BY <3>2
  <2> QED BY <1>2, <1>4, <2>1, <2>2, <2>4, <2>5, <2>6
<1>6. ASSUME NEW x \in Recs(t), ~IsIdle(t, x)
      PROVE  /\ t.m_instances[x].pending.id < t.m_nextCommandId
             /\ <<t.m_instances[x].state, t.m_instances[x].pending.type>> \in Steps
             /\ \A y \in Recs(t) : t.m_instances[y].pending.id = t.m_instances[x].pending.id => y = x
  <2>1. /\ t.m_instances[x].pending.id # NoCommand /\ x \in Recs(s)
        /\ t.m_instances[x].pending = s.m_instances[x].pending
        /\ t.m_instances[x].state = s.m_instances[x].state
    BY <1>2, <1>3, <1>6 DEF IsIdle
  <2>2. ~IsIdle(s, x) BY <2>1 DEF IsIdle
  <2> QED BY <1>2, <1>3, <2>1, <2>2 DEF Queue
<1>7. t.m_nextCommandId > 0 BY DEF Queue
<1> QED BY <1>5, <1>6, <1>7 DEF Queue, p2

(* The detachments left still have their releases behind them.             *)
Detaching(s) ==
  LET p == Pipeline(s) IN
  \A k \in 1 .. Len(p) :
    (p[k].type = "Detach" /\ s.life[p[k].slot.scene] = "Alive" /\ ~Holds(s, p[k].slot)) =>
      \E m \in 1 .. Len(p) : m > k /\ ReleaseOf(p[m], p[k].slot)

(* Popping a command keeps that.                                           *)
LEMMA DetachingPopped ==
  ASSUME NEW s \in State, NEW t, Detaching(s), Pipeline(s) # <<>>, Pipeline(t) = Tail(Pipeline(s)),
         \A i \in 1 .. Len(Pipeline(t)) :
           (/\ Pipeline(t)[i].type = "Detach" /\ t.life[Pipeline(t)[i].slot.scene] = "Alive"
            /\ ~Holds(t, Pipeline(t)[i].slot)) =>
             s.life[Pipeline(t)[i].slot.scene] = "Alive" /\ ~Holds(s, Pipeline(t)[i].slot)
  PROVE  Detaching(t)
<1> DEFINE p == Pipeline(s)
           q == Pipeline(t)
<1>1. /\ Len(q) = Len(p) - 1 /\ Len(p) \in Nat \ {0}
      /\ \A i \in 1 .. Len(q) : q[i] = p[i + 1] /\ i + 1 \in 1 .. Len(p)
      /\ 1 \in 1 .. Len(p)
      /\ \A i \in 1 .. Len(p) : i # 1 => i - 1 \in 1 .. Len(q) /\ q[i - 1] = p[i]
  BY PoppedMembers
<1> HIDE DEF p, q
<1>2. ASSUME NEW k \in 1 .. Len(q), q[k].type = "Detach", t.life[q[k].slot.scene] = "Alive",
             ~Holds(t, q[k].slot)
      PROVE  \E m \in 1 .. Len(q) : m > k /\ ReleaseOf(q[m], q[k].slot)
  <2>1. k + 1 \in 1 .. Len(p) /\ q[k] = p[k + 1] BY <1>1
  <2>2. s.life[q[k].slot.scene] = "Alive" /\ ~Holds(s, q[k].slot) BY <1>2 DEF q
  <2>3. PICK m \in 1 .. Len(p) : m > k + 1 /\ ReleaseOf(p[m], p[k + 1].slot)
    BY <1>2, <2>1, <2>2 DEF Detaching, p
  <2>4. m - 1 \in 1 .. Len(q) /\ q[m - 1] = p[m] /\ m - 1 > k BY <1>1, <2>3
  <2> QED BY <2>1, <2>3, <2>4
<1> QED BY <1>2 DEF Detaching, q

(* A tick pops a slot command and executes it.                             *)
ProcessedSlot(s, valid) == Execute(PopCommand(s), Head(s.draining), valid)
Popped(s, t) ==
  /\ t.m_nextCommandId = s.m_nextCommandId /\ SameComponent(s, t) /\ SameTickets(s, t)
  /\ SameBoundaries(s, t) /\ SameAnswers(s, t)
  /\ Pipeline(t) = Tail(Pipeline(s)) /\ Pipeline(s) # <<>> /\ Pipeline(s)[1] = Head(s.draining)

(* What that changes.                                                      *)
LEMMA ProcessedEffect ==
  ASSUME NEW s \in State, NEW valid, s.draining # <<>>, Head(s.draining) \in SlotCommand
  PROVE  /\ ProcessedSlot(s, valid) \in State /\ Popped(s, ProcessedSlot(s, valid))
         /\ ProcessedSlot(s, valid).life = s.life
         /\ ProcessedSlot(s, valid).m_instances = s.m_instances
         /\ Result(PopCommand(s), Head(s.draining), valid) = Result(s, Head(s.draining), valid)
         /\ Executed(s, ProcessedSlot(s, valid), Head(s.draining), Result(s, Head(s.draining), valid))
<1> DEFINE c == Head(s.draining)
           u == PopCommand(s)
           w == Execute(u, c, valid)
           scene == c.slot.scene
           i == c.slot.slot
<1>0. w = ProcessedSlot(s, valid) BY DEF ProcessedSlot
<1>1. /\ u \in State /\ u.draining = Tail(s.draining) /\ u.m_commands = s.m_commands
      /\ u.m_nextCommandId = s.m_nextCommandId /\ SameScenes(s, u) /\ SameComponent(s, u)
      /\ SameTickets(s, u) /\ SameBoundaries(s, u) /\ SameAnswers(s, u)
      /\ u.m_instances = s.m_instances
      /\ Pipeline(u) = Tail(Pipeline(s)) /\ Pipeline(s) # <<>> /\ Pipeline(s)[1] = c
  BY PopEffect
<1> HIDE DEF u, c
<1>2. u.life = s.life /\ u.slots = s.slots /\ u.controllers = s.controllers
  BY <1>1 DEF SameScenes
<1>3. c \in SlotCommand BY DEF c
<1>4. Result(u, c, valid) = Result(s, c, valid) /\ (FindScene(u, scene) <=> FindScene(s, scene))
  BY <1>2 DEF Result, FindScene, FindSlot, BlockedByControllers, HasControllers, Aliased
<1>5. w \in State /\ SameButScene(u, w) /\ Executed(u, w, c, Result(u, c, valid))
  BY <1>1, <1>3, ExecuteEffect
<1> HIDE DEF w
<1>6. /\ w.life = s.life /\ w.m_nextCommandId = s.m_nextCommandId
      /\ SameComponent(s, w) /\ SameTickets(s, w) /\ SameBoundaries(s, w) /\ SameAnswers(s, w)
      /\ w.m_instances = s.m_instances /\ Pipeline(w) = Pipeline(u)
  BY <1>1, <1>2, <1>5
  DEF SameButScene, SamePipe, SameComponent, SameTickets, SameBoundaries, SameAnswers, Pipeline
<1>7. Executed(s, w, c, Result(s, c, valid)) BY <1>2, <1>4, <1>5 DEF Executed, OtherSlots
<1>8. Popped(s, w) BY <1>1, <1>6 DEF Popped, c
<1> QED BY <1>0, <1>4, <1>5, <1>6, <1>7, <1>8 DEF c, u

(* The leases after a command.                                             *)
LEMMA LeasesExecuted ==
  ASSUME NEW s \in State, NEW t, Leases(s), NEW c \in SlotCommand, NEW result,
         Executed(s, t, c, result), t.life = s.life, t.m_spawner = s.m_spawner, SameHandles(s, t),
         result = "Success" => FindScene(s, c.slot.scene) /\ FindSlot(s, c.slot),
         c.slot.scene # s.m_spawner \/ \E r \in Recs(s) : s.m_instances[r].instance = Instance(c)
  PROVE  Leases(t)
<1> DEFINE scene == c.slot.scene
           i == c.slot.slot
           done == result = "Success"
<1>1. /\ OtherSlots(s, t, scene, i)
      /\ t.slots[scene][i] =
           IF done /\ c.type \notin {"Attach", "Detach"}
           THEN Renewed(s.slots[scene][i], c) ELSE s.slots[scene][i]
      /\ t.controllers =
           IF c.type = "Detach" /\ FindScene(s, scene) THEN s.controllers \ {Instance(c)}
           ELSE IF c.type = "Attach" /\ done /\ c.entities # NoEntities
           THEN s.controllers \union {Instance(c)} ELSE s.controllers
  BY DEF Executed
<1>2. done => FindScene(s, scene) /\ FindSlot(s, c.slot) OBVIOUS
<1>3. /\ scene \in Scene /\ i \in Slot /\ s.slots[scene][i] \in RuntimeSlot
      /\ Instance(c).slot = c.slot
  BY Typed DEF SlotCommand, SlotHandle, Instance
<1>4. c.type \notin {"Attach", "Detach"} =>
        LET new == Renewed(s.slots[scene][i], c) IN
        /\ c.type # "Release" => new.reserved = s.slots[scene][i].reserved
        /\ c.type = "Release" => new.bound = NoEntities
  BY <1>3, RenewedSlot
<1> HIDE DEF done
<1>5. \A x \in Scene, j \in Slot : ~t.slots[x][j].reserved => t.slots[x][j].bound = NoEntities
  <2> SUFFICES ASSUME NEW x \in Scene, NEW j \in Slot, ~t.slots[x][j].reserved
               PROVE  t.slots[x][j].bound = NoEntities
    OBVIOUS
  <2>1. CASE x = scene /\ j = i
    <3>1. CASE done /\ c.type \notin {"Attach", "Detach"}
      <4>1. s.slots[scene][i].reserved BY <1>2, <3>1 DEF FindSlot
      <4>2. c.type = "Release" BY <1>1, <1>4, <2>1, <3>1, <4>1
      <4> QED BY <1>1, <1>4, <2>1, <3>1, <4>2
    <3>2. CASE ~(done /\ c.type \notin {"Attach", "Detach"})
      BY <1>1, <2>1, <3>2 DEF Leases
    <3> QED BY <3>1, <3>2
  <2>2. CASE ~(x = scene /\ j = i) BY <1>1, <2>2 DEF Leases, OtherSlots
  <2> QED BY <2>1, <2>2
<1>6. \A x \in Scene : t.life[x] \in Unbuilt => \A j \in Slot : ~t.slots[x][j].reserved
  <2> SUFFICES ASSUME NEW x \in Scene, s.life[x] \in Unbuilt, NEW j \in Slot
               PROVE  ~t.slots[x][j].reserved
    OBVIOUS
  <2>1. ~s.slots[x][j].reserved BY DEF Leases
  <2>2. x = scene => ~done BY <1>2 DEF FindScene, Unbuilt
  <2> QED BY <1>1, <2>1, <2>2 DEF OtherSlots
<1>7. \A instance \in t.controllers : t.life[instance.slot.scene] \notin Unbuilt
  <2>1. done => s.life[scene] \notin Unbuilt BY <1>2 DEF FindScene, Unbuilt
  <2>2. \A instance \in s.controllers : s.life[instance.slot.scene] \notin Unbuilt
    BY DEF Leases
  <2> QED BY <1>1, <1>3, <2>1, <2>2
<1>8. \A instance \in t.controllers : instance \in s.controllers \/ instance = Instance(c)
  BY <1>1
<1>9. \A x \in Recs(s) : HandleOf(t, x) = HandleOf(s, x) BY DEF HandleOf, SameHandles
<1>10. Living(t) <=> Living(s) BY DEF Living
<1>11. Recs(t) = Recs(s) BY DEF SameHandles
<1>12. Living(t) => \A instance \in t.controllers : instance.slot.scene = t.m_spawner =>
         \E x \in Recs(t) : t.m_instances[x].instance = instance
  BY <1>3, <1>8, <1>10, <1>11 DEF Leases, SameHandles
<1> QED BY <1>5, <1>6, <1>7, <1>9, <1>11, <1>12 DEF Leases

(* A command of another scene than the component's: nobody waits for it.   *)
LEMMA UnawaitedKeeps ==
  ASSUME NEW s, NEW valid, Inv(s, {}), s.draining # <<>>, Head(s.draining) \in SlotCommand,
         Head(s.draining).slot.scene # s.m_spawner
  PROVE  Inv(ProcessedSlot(s, valid), {})
<1> DEFINE c == Head(s.draining)
           w == ProcessedSlot(s, valid)
           scene == c.slot.scene
           i == c.slot.slot
           done == Result(s, c, valid) = "Success"
           p == Pipeline(s)
           q == Pipeline(w)
<1>0. s \in State /\ Shared(s) BY DEF Inv, Shared
<1>1. /\ w \in State /\ w.life = s.life /\ w.m_nextCommandId = s.m_nextCommandId
      /\ SameComponent(s, w) /\ SameTickets(s, w) /\ SameBoundaries(s, w) /\ SameAnswers(s, w)
      /\ w.m_instances = s.m_instances
      /\ q = Tail(p) /\ p # <<>> /\ p[1] = c
      /\ Executed(s, w, c, Result(s, c, valid)) /\ OtherSlots(s, w, scene, i)
      /\ w.slots[scene][i] =
           IF done /\ c.type \notin {"Attach", "Detach"}
           THEN Renewed(s.slots[scene][i], c) ELSE s.slots[scene][i]
      /\ w.controllers =
           IF c.type = "Detach" /\ FindScene(s, scene) THEN s.controllers \ {Instance(c)}
           ELSE IF c.type = "Attach" /\ done /\ c.entities # NoEntities
           THEN s.controllers \union {Instance(c)} ELSE s.controllers
  <2>1. /\ w \in State /\ Popped(s, w) /\ w.life = s.life /\ w.m_instances = s.m_instances
        /\ Executed(s, w, c, Result(s, c, valid))
    BY <1>0, ProcessedEffect
  <2> HIDE DEF w, c
  <2> QED BY <2>1 DEF Popped, Executed, c
<1>2. /\ done => /\ FindScene(s, scene) /\ FindSlot(s, c.slot)
      /\ (/\ FindScene(s, scene) /\ FindSlot(s, c.slot) /\ c.type = "Release" /\ ~done) => HasControllers(s, c.slot)
  BY ResultFacts
<1>3. /\ scene \in Scene /\ i \in Slot /\ s.slots[scene][i] \in RuntimeSlot /\ c.slot \in SlotHandle
      /\ c.slot = [scene |-> scene, slot |-> i, generation |-> c.slot.generation]
      /\ Instance(c).slot = c.slot /\ c \in SlotCommand /\ Slotted(c)
  BY <1>0, Typed DEF SlotCommand, SlotHandle, Instance, Slotted
<1>4. c.type \notin {"Attach", "Detach"} =>
        LET new == Renewed(s.slots[scene][i], c) IN
        /\ c.type # "Release" => /\ new.reserved = s.slots[scene][i].reserved
                                 /\ new.generation = s.slots[scene][i].generation
        /\ c.type = "Release" => ~new.reserved
        /\ c.type \in {"Unbind", "Reset", "Release"} => new.bound = NoEntities
  <2> HIDE DEF c
  <2> QED BY <1>3, RenewedSlot
<1> HIDE DEF c, w, done
<1>5. Recs(w) = Recs(s) /\ SameHandles(s, w) /\ NoNewLife(s, w)
  BY <1>1 DEF Recs, SameHandles, NoNewLife
<1>6. Living(w) <=> Living(s) BY <1>1 DEF SameComponent, Living
<1>7. Lifecycle(w) BY <1>0, <1>1, <1>5, LifecycleKept DEF Shared
<1>8. Answering(w) BY <1>0, <1>1, <1>5, AnsweringKept DEF Shared
<1>9. Boundaries(w) BY <1>0, <1>1, BoundariesKept DEF Shared
<1>10. Tickets(w) BY <1>0, <1>1, <1>5, TicketsKept DEF Shared, SameAnswers, SameComponent
<1>11. Queue(w) BY <1>0, <1>1, <1>5, QueuePopped DEF Shared, SameComponent
<1>12. done => FindScene(s, c.slot.scene) /\ FindSlot(s, c.slot) BY <1>2
<1>13. Leases(w)
  <2>1. c.slot.scene # s.m_spawner BY DEF c
  <2> QED BY <1>0, <1>1, <1>3, <1>5, <1>12, <2>1, LeasesExecuted DEF Shared, SameComponent, done
<1>14. \A h : Holds(w, h) <=> Holds(s, h) BY <1>1, <1>5 DEF Holds, HandleOf
<1>15. ~Holds(s, c.slot)
  <2>1. \A x \in Recs(s) : HandleOf(s, x).scene = s.m_spawner BY <1>0, SceneOfRecord DEF Shared
  <2> QED BY <2>1 DEF Holds, c
<1>16. Detaching(w)
  <2>1. Detaching(s) BY <1>0 DEF Shared, Stranding, Detaching
  <2> QED BY <1>0, <1>1, <1>14, <2>1, DetachingPopped
<1>17. /\ 1 \in 1 .. Len(p)
       /\ \A k \in 1 .. Len(p) : k # 1 => k - 1 \in 1 .. Len(q) /\ q[k - 1] = p[k]
  BY <1>0, <1>1, PoppedMembers
<1>18. ASSUME NEW x \in Scene, NEW j \in Slot, w.life[x] = "Alive", w.slots[x][j].reserved
       PROVE  LET h == [scene |-> x, slot |-> j, generation |-> w.slots[x][j].generation]
              IN  \/ Holds(w, h) \/ HasControllers(w, h)
                  \/ \E k \in 1 .. Len(q) : ReleaseOf(q[k], h)
  <2> DEFINE h == [scene |-> x, slot |-> j, generation |-> w.slots[x][j].generation]
  <2>1. s.slots[x][j].reserved /\ s.slots[x][j].generation = w.slots[x][j].generation
    <3>1. CASE x = scene /\ j = i
      <4>1. CASE done /\ c.type \notin {"Attach", "Detach"}
        BY <1>1, <1>4, <1>18, <3>1, <4>1
      <4>2. CASE ~(done /\ c.type \notin {"Attach", "Detach"})
        BY <1>1, <1>18, <3>1, <4>2
      <4> QED BY <4>1, <4>2
    <3>2. CASE ~(x = scene /\ j = i) BY <1>1, <1>18, <3>2 DEF OtherSlots
    <3> QED BY <3>1, <3>2
  <2>2. h.scene = x /\ h.slot = j /\ h.generation = s.slots[x][j].generation
        /\ s.life[x] = "Alive" /\ h = [scene |-> x, slot |-> j, generation |-> s.slots[x][j].generation]
    BY <1>1, <1>18, <2>1
  <2> HIDE DEF h
  <2>3. Holds(s, h) \/ HasControllers(s, h) \/ \E k \in 1 .. Len(p) : ReleaseOf(p[k], h)
    BY <1>0, <2>1, <2>2 DEF Shared, Stranding
  <2>4. ASSUME HasControllers(s, h), ~HasControllers(w, h)
        PROVE  \E k \in 1 .. Len(q) : ReleaseOf(q[k], h)
    <3>1. PICK instance \in s.controllers : instance.slot = h BY <2>4 DEF HasControllers
    <3>2. instance \notin w.controllers BY <2>4, <3>1 DEF HasControllers
    <3>3. c.type = "Detach" /\ FindScene(s, scene) /\ instance = Instance(c) BY <1>1, <3>1, <3>2
    <3>4. c.slot = h BY <1>3, <3>1, <3>3
    <3>5. PICK m \in 1 .. Len(p) : m > 1 /\ ReleaseOf(p[m], c.slot)
      BY <1>0, <1>1, <1>15, <1>17, <3>3 DEF Shared, Stranding, FindScene
    <3>6. m # 1 BY <3>5
    <3> QED BY <1>17, <3>4, <3>5, <3>6
  <2>5. ASSUME NEW k \in 1 .. Len(p), ReleaseOf(p[k], h)
        PROVE  HasControllers(w, h) \/ \E m \in 1 .. Len(q) : ReleaseOf(q[m], h)
    <3>1. CASE k # 1 BY <1>17, <2>5, <3>1
    <3>2. CASE k = 1
      <4>1. c.type = "Release" /\ c.slot = h BY <1>1, <2>5, <3>2 DEF ReleaseOf
      <4>2. scene = x /\ i = j /\ FindScene(s, scene) /\ FindSlot(s, c.slot)
        BY <2>1, <2>2, <4>1 DEF FindScene, FindSlot
      <4>3. ~done BY <1>1, <1>4, <1>18, <4>1, <4>2
      <4>4. HasControllers(s, h) BY <1>2, <4>1, <4>2, <4>3
      <4>5. w.controllers = s.controllers BY <1>1, <4>1
      <4> QED BY <4>4, <4>5 DEF HasControllers
    <3> QED BY <3>1, <3>2
  <2>6. Holds(w, h) \/ HasControllers(w, h) \/ \E k \in 1 .. Len(q) : ReleaseOf(q[k], h)
    BY <1>14, <2>3, <2>4, <2>5
  <2> QED BY <2>6 DEF h
<1>19. Stranding(w) BY <1>16, <1>18 DEF Stranding, Detaching
<1>20. ASSUME NEW r \in Recs(w) PROVE Fits(w, r, w.m_instances[r].state)
  <2>1. r \in Recs(s) /\ w.m_instances[r] = s.m_instances[r] /\ Fits(s, r, s.m_instances[r].state)
    BY <1>1, <1>5 DEF Inv
  <2>2. /\ HandleOf(s, r).scene = s.m_spawner /\ HandleOf(s, r).scene \in Scene
        /\ HandleOf(s, r).slot \in Slot /\ s.m_instances[r].instance.slot = HandleOf(s, r)
    BY <1>0, <2>1, RecordTyped, SceneOfRecord DEF Shared, HandleOf
  <2>3. scene # s.m_spawner BY DEF c
  <2>4. LET h == HandleOf(s, r) IN w.slots[h.scene][h.slot] = s.slots[h.scene][h.slot]
    BY <1>1, <2>2, <2>3 DEF OtherSlots
  <2>5. s.m_instances[r].instance # Instance(c) BY <1>3, <2>2, <2>3
  <2>6. s.m_instances[r].instance \in w.controllers <=> s.m_instances[r].instance \in s.controllers
    BY <1>1, <2>5
  <2>7. Undisturbed(s, w, r)
    BY <1>1, <1>5, <1>6, <2>1, <2>4, <2>6
    DEF Undisturbed, SameComponent, SameTickets, SameBoundaries, SameAnswers
  <2> QED BY ONLY <2>1, <2>7, OthersFit
<1>21. Inv(w, {}) BY <1>1, <1>7, <1>8, <1>9, <1>10, <1>11, <1>13, <1>19, <1>20 DEF Inv, Shared
<1> QED BY <1>21 DEF w

-----------------------------------------------------------------------------
(* The command a record waits for                                          *)

Settled(s, r) == [s EXCEPT !.m_instances[r].pending = Idle]

(* The record waits no longer.                                             *)
LEMMA SettledEffect ==
  ASSUME NEW s \in State, NEW r \in Recs(s)
  PROVE  LET t == Settled(s, r) IN
         Rewrites(s, t, r) /\ t.m_instances[r] = [s.m_instances[r] EXCEPT !.pending = Idle]
<1> DEFINE record == [s.m_instances[r] EXCEPT !.pending = Idle]
<1>1. s.m_instances[r] \in InstanceRecord BY RecordTyped
<1>2. Idle \in [id : Nat, type : SlotTypes] BY DEF Idle, NoCommand, SlotTypes
<1>3. record \in InstanceRecord /\ record.instance = s.m_instances[r].instance
  BY <1>1, <1>2 DEF InstanceRecord
<1>4. Settled(s, r) = [s EXCEPT !.m_instances[r] = record] BY DEF Settled
<1> HIDE DEF record
<1>5. LET t == [s EXCEPT !.m_instances[r] = record] IN Rewrites(s, t, r) /\ t.m_instances[r] = record
  BY <1>3, RecordWritten
<1> QED BY <1>4, <1>5 DEF record

Served(s, r, valid) == Settled(ProcessedSlot(s, valid), r)
SameRecord(s, t, r) ==
  LET new == t.m_instances[r]
      old == s.m_instances[r]
  IN  /\ new.instance = old.instance /\ new.state = old.state /\ new.ticket = old.ticket
      /\ new.terminal = old.terminal /\ new.attached = old.attached
      /\ new.declares = old.declares /\ new.despawn = old.despawn /\ new.failed = old.failed
Awaited(s, r) ==
  /\ s.draining # <<>> /\ Head(s.draining) \in SlotCommand /\ Head(s.draining).id # NoCommand
  /\ r \in Recs(s) /\ s.m_instances[r].pending.id = Head(s.draining).id

(* What serving the record changes.                                        *)
LEMMA ServedEffect ==
  ASSUME NEW s \in State, NEW r, NEW valid, Awaited(s, r)
  PROVE  LET t == Served(s, r, valid) IN
         /\ t \in State /\ Popped(s, t) /\ t.life = s.life
         /\ Executed(s, t, Head(s.draining), Result(s, Head(s.draining), valid))
         /\ Recs(t) = Recs(s) /\ \A q \in Recs(s) : q # r => t.m_instances[q] = s.m_instances[q]
         /\ t.m_instances[r].pending = Idle /\ SameRecord(s, t, r)
<1> DEFINE w == ProcessedSlot(s, valid)
           t == Settled(w, r)
           c == Head(s.draining)
<1>0. t = Served(s, r, valid) BY DEF Served
<1>1. /\ w \in State /\ Popped(s, w) /\ w.life = s.life /\ w.m_instances = s.m_instances
      /\ Executed(s, w, c, Result(s, c, valid))
  BY ProcessedEffect DEF Awaited
<1> HIDE DEF w, c
<1>2. r \in Recs(w) BY <1>1 DEF Awaited, Recs
<1>3. Rewrites(w, t, r) /\ t.m_instances[r] = [w.m_instances[r] EXCEPT !.pending = Idle]
  BY <1>1, <1>2, SettledEffect
<1> HIDE DEF t
<1>4. t \in State /\ t.life = w.life /\ t.slots = w.slots /\ t.controllers = w.controllers
  BY <1>3 DEF Rewrites, SameButRecords, SameScenes
<1>5. Popped(s, t)
  BY <1>1, <1>3 DEF Popped, Rewrites, SameButRecords, SamePipe, SameComponent, SameTickets,
                    SameBoundaries, SameAnswers, Pipeline
<1>6. Executed(s, t, c, Result(s, c, valid)) BY <1>1, <1>4 DEF Executed, OtherSlots
<1>7. Recs(t) = Recs(s) /\ \A q \in Recs(s) : q # r => t.m_instances[q] = s.m_instances[q]
  BY <1>1, <1>3 DEF Rewrites, OtherRecords, Recs
<1>8. t.m_instances[r].pending = Idle /\ SameRecord(s, t, r)
  <2>1. s.m_instances[r] \in InstanceRecord BY RecordTyped DEF Awaited
  <2> QED BY <1>1, <1>3, <2>1 DEF SameRecord, InstanceRecord
<1> QED BY <1>0, <1>1, <1>4, <1>5, <1>6, <1>7, <1>8 DEF c

(* The command at hand is the one the record waits for.                    *)
LEMMA AwaitedCommand ==
  ASSUME NEW s, NEW r, Inv(s, {}), Awaited(s, r)
  PROVE  LET c == Head(s.draining) IN
         /\ s \in State /\ r \in Recs(s) /\ c \in SlotCommand /\ c = CommandOf(s, r)
         /\ c.slot = HandleOf(s, r) /\ c.entities = r /\ Instance(c) = s.m_instances[r].instance
         /\ c.slot.scene = s.m_spawner /\ s.m_spawner \in Scene /\ c.slot.slot \in Slot
         /\ <<s.m_instances[r].state, c.type>> \in Steps
         /\ Fits(s, r, s.m_instances[r].state)
         /\ FindScene(s, c.slot.scene) <=> Living(s)
<1> DEFINE c == Head(s.draining)
<1>0. s \in State /\ Shared(s) /\ r \in Recs(s) /\ c \in SlotCommand BY DEF Inv, Shared, Awaited
<1>1. Pipeline(s)[1] = c /\ 1 \in 1 .. Len(Pipeline(s))
  <2>1. Pipeline(s) # <<>> /\ c = Pipeline(s)[1] BY <1>0, PopEffect DEF Awaited
  <2>2. Pipeline(s) \in Seq(Command) BY <1>0, PipelineTyped
  <2> QED BY <2>1, <2>2
<1>2. Slotted(c) BY <1>0 DEF SlotCommand, Slotted
<1>3. c = CommandOf(s, r) BY <1>0, <1>1, <1>2 DEF Shared, Queue, Awaited
<1>4. ~IsIdle(s, r) BY DEF Awaited, IsIdle
<1>5. <<s.m_instances[r].state, s.m_instances[r].pending.type>> \in Steps
  BY <1>0, <1>4 DEF Shared, Queue
<1> HIDE DEF c
<1>6. /\ c.slot = HandleOf(s, r) /\ c.entities = r /\ c.type = s.m_instances[r].pending.type
      /\ c.owner = s.m_instances[r].instance.generation
  BY <1>3 DEF CommandOf
<1>7. Instance(c) = s.m_instances[r].instance
  <2>1. s.m_instances[r].instance \in InstanceHandle BY <1>0, RecordTyped
  <2> QED BY <1>6, <2>1 DEF Instance, InstanceHandle, HandleOf
<1>8. /\ HandleOf(s, r).scene = s.m_spawner /\ s.m_spawner \in Scene /\ HandleOf(s, r).slot \in Slot
      /\ FindScene(s, s.m_spawner) <=> Living(s)
  BY <1>0, RecordTyped, SceneOfRecord DEF Shared
<1>9. Fits(s, r, s.m_instances[r].state) BY <1>0 DEF Inv
<1> QED BY <1>0, <1>3, <1>5, <1>6, <1>7, <1>8, <1>9 DEF c

(* Once its command is executed the record may be moved.                   *)
LEMMA ServedKeeps ==
  ASSUME NEW s, NEW r, NEW valid, Inv(s, {}), Awaited(s, r)
  PROVE  Loose(Served(s, r, valid), r)
<1> DEFINE t == Served(s, r, valid)
           c == Head(s.draining)
           result == Result(s, c, valid)
           p == Pipeline(s)
           z == Pipeline(t)
<1>0. s \in State /\ Shared(s) BY DEF Inv, Shared
<1>1. /\ r \in Recs(s) /\ c \in SlotCommand
      /\ c.slot = HandleOf(s, r) /\ c.entities = r /\ Instance(c) = s.m_instances[r].instance
      /\ c.slot.scene = s.m_spawner /\ s.m_spawner \in Scene /\ c.slot.slot \in Slot
  BY AwaitedCommand
<1>2. /\ t \in State /\ Popped(s, t) /\ t.life = s.life /\ Executed(s, t, c, result)
      /\ Recs(t) = Recs(s) /\ \A q \in Recs(s) : q # r => t.m_instances[q] = s.m_instances[q]
      /\ t.m_instances[r].pending = Idle /\ SameRecord(s, t, r)
  BY <1>0, ServedEffect
<1>3. result = "Success" => FindScene(s, c.slot.scene) /\ FindSlot(s, c.slot)
  BY <1>1, ResultFacts
<1>4. c.id # NoCommand /\ s.m_instances[r].pending.id = c.id /\ Slotted(c)
  BY <1>1 DEF Awaited, SlotCommand, Slotted
<1> HIDE DEF t, c, result
<1>5. /\ t.m_nextCommandId = s.m_nextCommandId /\ SameComponent(s, t) /\ SameTickets(s, t)
      /\ SameBoundaries(s, t) /\ SameAnswers(s, t) /\ z = Tail(p) /\ p # <<>> /\ p[1] = c
  BY <1>2 DEF Popped, c
<1>6. SameHandles(s, t) /\ NoNewLife(s, t) /\ t.m_spawner = s.m_spawner
  BY <1>2, <1>5 DEF SameHandles, NoNewLife, SameRecord, SameComponent
<1>7. Lifecycle(t) BY <1>0, <1>5, <1>6, LifecycleKept DEF Shared
<1>8. Answering(t)
  <2>1. \A q \in Recs(t) : t.m_instances[q].despawn = s.m_instances[q].despawn
    BY <1>2 DEF SameRecord
  <2> QED BY <1>0, <1>2, <1>5, <2>1, AnsweringKept DEF Shared
<1>9. Boundaries(t) BY <1>0, <1>5, BoundariesKept DEF Shared
<1>10. Tickets(t) BY <1>0, <1>2, <1>5, TicketsKept DEF Shared, SameAnswers, SameComponent
<1>11. Queue(t)
  <2>1. t.m_instances[r].pending.id = NoCommand BY <1>2 DEF Idle
  <2> QED BY <1>0, <1>2, <1>4, <1>5, <1>6, <2>1, QueuePopped DEF Shared
<1>12. Leases(t)
  BY <1>0, <1>1, <1>2, <1>3, <1>6, LeasesExecuted DEF Shared
<1>13. \A h : Holds(t, h) <=> Holds(s, h) BY <1>6 DEF Holds, HandleOf, SameHandles
<1>14. Holds(t, c.slot) BY <1>1, <1>13 DEF Holds
<1>15. Detaching(t)
  <2>1. Detaching(s) BY <1>0 DEF Shared, Stranding, Detaching
  <2> QED BY <1>0, <1>2, <1>5, <1>13, <2>1, DetachingPopped
<1>16. ASSUME NEW x \in Scene, NEW j \in Slot, t.life[x] = "Alive", t.slots[x][j].reserved
       PROVE  LET h == [scene |-> x, slot |-> j, generation |-> t.slots[x][j].generation]
              IN  \/ Holds(t, h) \/ HasControllers(t, h)
                  \/ \E k \in 1 .. Len(z) : ReleaseOf(z[k], h)
  <2> DEFINE h == [scene |-> x, slot |-> j, generation |-> t.slots[x][j].generation]
  <2>0. h.scene = x /\ h.slot = j /\ h.generation = t.slots[x][j].generation OBVIOUS
  <2>1. CASE h = c.slot BY <1>14, <2>1
  <2>2. CASE h # c.slot
    <3>1. s.slots[x][j].reserved /\ s.slots[x][j].generation = t.slots[x][j].generation
      <4>1. CASE x = c.slot.scene /\ j = c.slot.slot
        <5>1. c.slot = [scene |-> c.slot.scene, slot |-> c.slot.slot, generation |-> c.slot.generation]
          BY <1>1 DEF SlotCommand, SlotHandle
        <5>2. t.slots[x][j] # s.slots[x][j] =>
                result = "Success" /\ c.type \notin {"Attach", "Detach"}
                /\ t.slots[x][j] = Renewed(s.slots[x][j], c)
          BY <1>2, <4>1 DEF Executed
        <5>3. CASE t.slots[x][j] = s.slots[x][j] BY <1>16, <5>3
        <5>4. CASE t.slots[x][j] # s.slots[x][j]
          <6>0. s.slots[x][j] \in RuntimeSlot BY <1>0, Typed
          <6>1. c.type # "Release" => t.slots[x][j].reserved = s.slots[x][j].reserved
                                      /\ t.slots[x][j].generation = s.slots[x][j].generation
            BY <1>1, <5>2, <5>4, <6>0, RenewedSlot
          <6>2. c.type = "Release" => ~t.slots[x][j].reserved
            BY <1>1, <5>2, <5>4, <6>0, RenewedSlot
          <6> QED BY <1>16, <6>1, <6>2
        <5> QED BY <5>3, <5>4
      <4>2. CASE ~(x = c.slot.scene /\ j = c.slot.slot)
        BY <1>2, <1>16, <4>2 DEF Executed, OtherSlots
      <4> QED BY <4>1, <4>2
    <3>2. h = [scene |-> x, slot |-> j, generation |-> s.slots[x][j].generation] BY <3>1
    <3> HIDE DEF h
    <3>3. Holds(s, h) \/ HasControllers(s, h) \/ \E k \in 1 .. Len(p) : ReleaseOf(p[k], h)
      BY <1>0, <1>2, <1>16, <3>1, <3>2 DEF Shared, Stranding
    <3>4. HasControllers(s, h) => HasControllers(t, h)
      <4>1. Instance(c).slot = c.slot BY DEF Instance
      <4>2. \A instance \in s.controllers : instance # Instance(c) => instance \in t.controllers
        BY <1>2 DEF Executed
      <4> QED BY <2>2, <4>1, <4>2 DEF HasControllers
    <3>5. ASSUME NEW k \in 1 .. Len(p), ReleaseOf(p[k], h)
          PROVE  \E m \in 1 .. Len(z) : ReleaseOf(z[m], h)
      <4>1. k # 1 BY <1>5, <2>2, <3>5 DEF ReleaseOf
      <4>2. k - 1 \in 1 .. Len(z) /\ z[k - 1] = p[k] BY <1>0, <1>5, <4>1, PoppedMembers
      <4> QED BY <3>5, <4>2
    <3>6. Holds(t, h) \/ HasControllers(t, h) \/ \E k \in 1 .. Len(z) : ReleaseOf(z[k], h)
      BY <1>13, <3>3, <3>4, <3>5
    <3> QED BY <3>6 DEF h
  <2> QED BY <2>1, <2>2
<1>17. Stranding(t) BY <1>15, <1>16 DEF Stranding, Detaching
<1>18. ASSUME NEW q \in Recs(t), q # r PROVE Fits(t, q, t.m_instances[q].state)
  <2>1. q \in Recs(s) /\ t.m_instances[q] = s.m_instances[q] /\ Fits(s, q, s.m_instances[q].state)
    BY <1>2, <1>18 DEF Inv
  <2>2. /\ HandleOf(s, q).scene = s.m_spawner /\ HandleOf(s, q).scene \in Scene
        /\ HandleOf(s, q).slot \in Slot
    BY <1>0, <2>1, RecordTyped, SceneOfRecord DEF Shared
  <2>3. HandleOf(s, q).slot # HandleOf(s, r).slot
    BY <1>0, <1>1, <1>18, <2>1 DEF Shared, Leases
  <2>4. LET h == HandleOf(s, q) IN t.slots[h.scene][h.slot] = s.slots[h.scene][h.slot]
    BY <1>1, <1>2, <2>2, <2>3 DEF Executed, OtherSlots
  <2>5. s.m_instances[q].instance # Instance(c)
    BY <1>0, <1>1, <1>18, <2>1, InstancesDiffer DEF Shared
  <2>6. s.m_instances[q].instance \in t.controllers <=> s.m_instances[q].instance \in s.controllers
    BY <1>2, <2>5 DEF Executed
  <2>7. Living(t) <=> Living(s) BY <1>2, <1>6 DEF Living
  <2>8. Undisturbed(s, t, q)
    BY <1>2, <1>5, <1>6, <2>1, <2>4, <2>6, <2>7
    DEF Undisturbed, SameComponent, SameTickets, SameBoundaries, SameAnswers
  <2> QED BY ONLY <2>1, <2>8, OthersFit
<1>19. Inv(t, {r})
  BY <1>2, <1>7, <1>8, <1>9, <1>10, <1>11, <1>12, <1>17, <1>18 DEF Inv, Shared
<1>20. Loose(t, r) BY <1>1, <1>2, <1>19 DEF Loose, IsIdle, Idle
<1> QED BY <1>20 DEF t

SlotOf(s, r) == s.slots[HandleOf(s, r).scene][HandleOf(s, r).slot]
(* What the command of a type has done for record r.                       *)
ServedAs(s, t, r, type, result) ==
  LET instance == s.m_instances[r].instance
      done == result = "Success"
  IN
  /\ SameRecord(s, t, r) /\ HandleOf(t, r) = HandleOf(s, r) /\ t.m_spawner = s.m_spawner
  /\ SameTickets(s, t) /\ SameBoundaries(s, t) /\ SameAnswers(s, t)
  /\ Living(t) <=> Living(s)
  /\ done => Living(s)
  /\ (~done \/ type \in {"Attach", "Detach"}) => SlotOf(t, r) = SlotOf(s, r)
  /\ (done /\ type = "Release") => ~FindSlot(t, HandleOf(t, r))
  /\ (FindSlot(s, HandleOf(s, r)) /\ ~(done /\ type = "Release")) => FindSlot(t, HandleOf(t, r))
  /\ (done /\ type \in {"Unbind", "Reset", "Release"}) => SlotOf(t, r).bound = NoEntities
  /\ (done /\ type = "Place") => SlotOf(t, r).bound = SlotOf(s, r).bound /\ SlotOf(t, r).placed
  /\ (done /\ type = "Bind") => SlotOf(t, r).bound = r /\ SlotOf(t, r).placed = SlotOf(s, r).placed
  /\ (type = "Detach" /\ Living(s)) => instance \notin t.controllers
  /\ (type = "Attach" /\ done) => instance \in t.controllers
  /\ (type # "Detach" /\ ~(type = "Attach" /\ done)) =>
       (instance \in t.controllers <=> instance \in s.controllers)
  /\ (/\ type \in {"Unbind", "Reset", "Release"} /\ Living(s) /\ instance \notin s.controllers
      /\ FindSlot(s, HandleOf(s, r))) => done

(* Only its own controllers can stand on a record's slot.                  *)
LEMMA OwnControllers ==
  ASSUME NEW s, NEW r \in Recs(s), Shared(s), Living(s), HasControllers(s, HandleOf(s, r))
  PROVE  s.m_instances[r].instance \in s.controllers
<1>1. PICK instance \in s.controllers : instance.slot = HandleOf(s, r) BY DEF HasControllers
<1>2. instance.slot.scene = s.m_spawner BY <1>1, SceneOfRecord DEF Shared
<1>3. PICK q \in Recs(s) : s.m_instances[q].instance = instance BY <1>2 DEF Shared, Leases
<1>4. HandleOf(s, q) = HandleOf(s, r) BY <1>1, <1>3 DEF HandleOf
<1>5. q = r BY <1>4 DEF Shared, Leases
<1> QED BY <1>3, <1>5

(* The command at the head of the queue does that for the record.          *)
LEMMA ServedAsCommand ==
  ASSUME NEW s, NEW r, NEW valid, Inv(s, {}), Awaited(s, r)
  PROVE  ServedAs(s, Served(s, r, valid), r, Head(s.draining).type,
                  Result(s, Head(s.draining), valid))
<1> DEFINE t == Served(s, r, valid)
           c == Head(s.draining)
           result == Result(s, c, valid)
           instance == s.m_instances[r].instance
<1>0. s \in State /\ Shared(s) BY DEF Inv, Shared
<1>1. /\ r \in Recs(s) /\ c \in SlotCommand
      /\ c.slot = HandleOf(s, r) /\ c.entities = r /\ Instance(c) = instance
      /\ c.slot.scene = s.m_spawner /\ s.m_spawner \in Scene /\ c.slot.slot \in Slot
      /\ FindScene(s, c.slot.scene) <=> Living(s)
  BY AwaitedCommand
<1>2. /\ t \in State /\ Popped(s, t) /\ t.life = s.life /\ Executed(s, t, c, result)
      /\ SameRecord(s, t, r)
  BY <1>0, ServedEffect
<1>3. /\ result = "Success" => FindScene(s, c.slot.scene) /\ FindSlot(s, c.slot)
      /\ (/\ FindScene(s, c.slot.scene) /\ FindSlot(s, c.slot) /\ ~HasControllers(s, c.slot)
          /\ c.type \in {"Unbind", "Reset", "Release"}) => result = "Success"
  BY <1>1, ResultFacts
<1> HIDE DEF t, c, result
<1>4. r # NoEntities /\ NoEntities = 0 BY <1>0, <1>1, RecordTyped, Numbers
<1>5. /\ SameRecord(s, t, r) /\ HandleOf(t, r) = HandleOf(s, r) /\ t.m_spawner = s.m_spawner
      /\ SameTickets(s, t) /\ SameBoundaries(s, t) /\ SameAnswers(s, t)
      /\ Living(t) <=> Living(s)
  BY <1>2 DEF Popped, SameRecord, HandleOf, SameComponent, Living
<1>6. /\ SlotOf(t, r) = t.slots[c.slot.scene][c.slot.slot]
      /\ SlotOf(s, r) = s.slots[c.slot.scene][c.slot.slot] /\ SlotOf(s, r) \in RuntimeSlot
      /\ FindSlot(t, HandleOf(t, r)) <=>
           SlotOf(t, r).reserved /\ SlotOf(t, r).generation = c.slot.generation
      /\ FindSlot(s, HandleOf(s, r)) <=>
           SlotOf(s, r).reserved /\ SlotOf(s, r).generation = c.slot.generation
  BY <1>0, <1>1, <1>5, Typed DEF SlotOf, FindSlot
<1>7. SlotOf(t, r) = IF result = "Success" /\ c.type \notin {"Attach", "Detach"}
                     THEN Renewed(SlotOf(s, r), c) ELSE SlotOf(s, r)
  BY <1>2, <1>6 DEF Executed
<1>8. t.controllers =
        IF c.type = "Detach" /\ FindScene(s, c.slot.scene) THEN s.controllers \ {instance}
        ELSE IF c.type = "Attach" /\ result = "Success" THEN s.controllers \union {instance}
        ELSE s.controllers
  BY <1>1, <1>2, <1>4 DEF Executed
<1>9. (result = "Success" /\ c.type \notin {"Attach", "Detach"}) =>
        /\ c.type # "Release" => /\ SlotOf(t, r).reserved = SlotOf(s, r).reserved
                                 /\ SlotOf(t, r).generation = SlotOf(s, r).generation
        /\ c.type = "Release" => ~SlotOf(t, r).reserved
        /\ c.type \in {"Unbind", "Reset", "Release"} => SlotOf(t, r).bound = NoEntities
        /\ c.type = "Place" => SlotOf(t, r).bound = SlotOf(s, r).bound /\ SlotOf(t, r).placed
        /\ c.type = "Bind" => SlotOf(t, r).bound = r /\ SlotOf(t, r).placed = SlotOf(s, r).placed
  BY <1>1, <1>6, <1>7, RenewedSlot
<1>10. /\ (result # "Success" \/ c.type \in {"Attach", "Detach"}) => SlotOf(t, r) = SlotOf(s, r)
       /\ (result = "Success" /\ c.type = "Release") => ~FindSlot(t, HandleOf(t, r))
       /\ (FindSlot(s, HandleOf(s, r)) /\ ~(result = "Success" /\ c.type = "Release")) =>
            FindSlot(t, HandleOf(t, r))
  BY <1>6, <1>7, <1>9
<1>11. /\ (c.type = "Detach" /\ Living(s)) => instance \notin t.controllers
       /\ (c.type = "Attach" /\ result = "Success") => instance \in t.controllers
       /\ (c.type # "Detach" /\ ~(c.type = "Attach" /\ result = "Success")) =>
            (instance \in t.controllers <=> instance \in s.controllers)
  BY <1>1, <1>8
<1>12. (/\ c.type \in {"Unbind", "Reset", "Release"} /\ Living(s) /\ instance \notin s.controllers
        /\ FindSlot(s, HandleOf(s, r))) => result = "Success"
  BY <1>0, <1>1, <1>3, OwnControllers
<1>13. result = "Success" => Living(s) BY <1>1, <1>3
<1>14. ServedAs(s, t, r, c.type, result)
  BY <1>5, <1>9, <1>10, <1>11, <1>12, <1>13 DEF ServedAs
<1> QED BY <1>14 DEF t, c, result

(* Its answers and ticket are as before.                                   *)
LEMMA ServedRest ==
  ASSUME NEW s, NEW t, NEW r, NEW type, NEW result, ServedAs(s, t, r, type, result), NEW state
  PROVE  /\ Owes(s, r, state) => Owes(t, r, state)
         /\ TicketIn(s, r, state) => TicketIn(t, r, state)
<1>1. SameRecord(s, t, r) /\ SameTickets(s, t) /\ SameBoundaries(s, t) /\ SameAnswers(s, t)
  BY DEF ServedAs
<1>2. Owes(s, r, state) => Owes(t, r, state)
  BY <1>1 DEF Owes, SameRecord, SameBoundaries, SameAnswers
<1>3. TicketIn(s, r, state) => TicketIn(t, r, state)
  BY <1>1 DEF TicketIn, SameRecord, SameTickets, SameAnswers
<1> QED BY <1>2, <1>3

(* What a record counts on in its slot, by the slot's name.                *)
LEMMA SlotInOf ==
  ASSUME NEW s, NEW r, NEW state
  PROVE  SlotIn(s, r, state) <=>
           /\ state \in Starting => ~s.m_instances[r].attached
           /\ state = "AttachingControllers" => s.m_instances[r].declares
           /\ Living(s) =>
                /\ FindSlot(s, HandleOf(s, r))
                /\ SlotOf(s, r).bound # NoEntities => SlotOf(s, r).bound = r /\ r \in s.entities
                /\ state \in {"Resetting", "Placing", "Spawning", "DespawningEntities",
                              "CleanupResetting", "Releasing"} => SlotOf(s, r).bound = NoEntities
                /\ state \in {"Spawning", "Binding", "AttachingControllers", "Active"} =>
                     SlotOf(s, r).placed
                /\ state \in {"AttachingControllers", "Active"} => SlotOf(s, r).bound = r
                /\ state \notin {"Active", "DetachingControllers"} =>
                     s.m_instances[r].instance \notin s.controllers
                /\ state = "Active" =>
                     /\ s.m_instances[r].declares <=> s.m_instances[r].attached
                     /\ s.m_instances[r].declares <=> s.m_instances[r].instance \in s.controllers
BY DEF SlotIn, SlotOf

(* A command that failed leaves the record where it was.                   *)
LEMMA FailedServed ==
  ASSUME NEW s, NEW t, NEW r, NEW type, NEW result, ServedAs(s, t, r, type, result), NEW state,
         Fits(s, r, state), result # "Success", type # "Detach"
  PROVE  Fits(t, r, state)
<1>1. Owes(t, r, state) /\ TicketIn(t, r, state) BY ServedRest DEF Fits
<1>2. SameRecord(s, t, r) /\ SlotOf(t, r) = SlotOf(s, r) /\ (Living(t) <=> Living(s))
      /\ (FindSlot(s, HandleOf(s, r)) => FindSlot(t, HandleOf(t, r)))
      /\ (s.m_instances[r].instance \in t.controllers <=> s.m_instances[r].instance \in s.controllers)
      /\ t.entities = s.entities
  BY DEF ServedAs, SameTickets
<1>3. SlotIn(s, r, state) BY DEF Fits
<1>4. SlotIn(t, r, state) BY <1>2, <1>3, SlotInOf DEF SameRecord
<1> QED BY <1>1, <1>4 DEF Fits

(* A command that succeeded takes the spawn to its next state.             *)
LEMMA StartServed ==
  ASSUME NEW s, NEW t, NEW r, NEW type, NEW result, ServedAs(s, t, r, type, result),
         result = "Success"
  PROVE  /\ (type = "Reset" /\ Fits(s, r, "Resetting")) => Fits(t, r, "Placing")
         /\ (type = "Place" /\ Fits(s, r, "Placing")) => Fits(t, r, "Placing") /\ Placed(t, r)
         /\ (type = "Bind" /\ Fits(s, r, "Binding") /\ s.m_instances[r].declares) =>
              Fits(t, r, "AttachingControllers")
<1>1. /\ SameRecord(s, t, r) /\ (Living(t) <=> Living(s)) /\ t.entities = s.entities
      /\ (FindSlot(s, HandleOf(s, r)) /\ type # "Release") => FindSlot(t, HandleOf(t, r))
  BY DEF ServedAs, SameTickets
<1>2. CASE type = "Reset" /\ Fits(s, r, "Resetting")
  <2>1. Owes(s, r, "Placing") /\ TicketIn(s, r, "Placing")
    BY <1>2 DEF Fits, Owes, TicketIn, Starting, Cleaning
  <2>2. SlotOf(t, r).bound = NoEntities
        /\ (s.m_instances[r].instance \in t.controllers <=> s.m_instances[r].instance \in s.controllers)
    BY <1>2 DEF ServedAs
  <2>3. SlotIn(s, r, "Resetting") BY <1>2 DEF Fits
  <2>4. SlotIn(t, r, "Placing") BY <1>1, <1>2, <2>2, <2>3, SlotInOf DEF SameRecord, Starting
  <2> QED BY <1>2, <2>1, <2>4, ServedRest DEF Fits
<1>3. CASE type = "Place" /\ Fits(s, r, "Placing")
  <2>1. Owes(s, r, "Placing") /\ TicketIn(s, r, "Placing") /\ SlotIn(s, r, "Placing")
    BY <1>3 DEF Fits
  <2>2. SlotOf(t, r).bound = SlotOf(s, r).bound /\ SlotOf(t, r).placed
        /\ (s.m_instances[r].instance \in t.controllers <=> s.m_instances[r].instance \in s.controllers)
    BY <1>3 DEF ServedAs
  <2>3. SlotIn(t, r, "Placing") BY <1>1, <1>3, <2>1, <2>2, SlotInOf DEF SameRecord, Starting
  <2>4. Placed(t, r) BY <2>2 DEF Placed, SlotOf
  <2> QED BY <1>3, <2>1, <2>3, <2>4, ServedRest DEF Fits
<1>4. CASE type = "Bind" /\ Fits(s, r, "Binding") /\ s.m_instances[r].declares
  <2>1. Owes(s, r, "AttachingControllers") /\ TicketIn(s, r, "AttachingControllers") /\ r \in s.entities
    BY <1>4 DEF Fits, Owes, TicketIn, Starting, Cleaning
  <2>2. SlotOf(t, r).bound = r /\ SlotOf(t, r).placed = SlotOf(s, r).placed
        /\ (s.m_instances[r].instance \in t.controllers <=> s.m_instances[r].instance \in s.controllers)
    BY <1>4 DEF ServedAs
  <2>3. SlotIn(s, r, "Binding") BY <1>4 DEF Fits
  <2>4. SlotIn(t, r, "AttachingControllers")
    BY <1>1, <1>4, <2>1, <2>2, <2>3, SlotInOf DEF SameRecord, Starting
  <2> QED BY <1>4, <2>1, <2>4, ServedRest DEF Fits
<1> QED BY <1>2, <1>3, <1>4

(* The last command of a spawn completes the instance.                     *)
LEMMA LastServed ==
  ASSUME NEW s, NEW t, NEW r, NEW type, NEW result, ServedAs(s, t, r, type, result),
         result = "Success", NEW record, record.instance = t.m_instances[r].instance,
         record.declares = t.m_instances[r].declares,
         \/ /\ type = "Bind" /\ Fits(s, r, "Binding") /\ ~s.m_instances[r].declares
            /\ record.attached = t.m_instances[r].attached
         \/ type = "Attach" /\ Fits(s, r, "AttachingControllers") /\ record.attached = TRUE
  PROVE  /\ t.answers[r] = <<>> /\ t.boundary[r] = "Committed" /\ TicketIn(t, r, "Active")
         /\ Complete(t, r, record)
<1>1. /\ SameRecord(s, t, r) /\ (Living(t) <=> Living(s)) /\ t.entities = s.entities
      /\ HandleOf(t, r) = HandleOf(s, r) /\ t.answers = s.answers /\ t.boundary = s.boundary
      /\ (FindSlot(s, HandleOf(s, r)) /\ type # "Release") => FindSlot(t, HandleOf(t, r))
  BY DEF ServedAs, SameTickets, SameBoundaries, SameAnswers
<1>2. /\ t.answers[r] = <<>> /\ t.boundary[r] = "Committed" /\ TicketIn(s, r, "Active")
      /\ r \in s.entities
  BY <1>1 DEF Fits, Owes, TicketIn, Starting, Cleaning
<1>3. TicketIn(t, r, "Active") BY <1>2, ServedRest
<1>4. record.instance.slot = HandleOf(t, r)
      /\ SlotOf(t, r) = t.slots[HandleOf(t, r).scene][HandleOf(t, r).slot]
  BY DEF HandleOf, SlotOf
<1>5. SlotIn(s, r, "Binding") \/ SlotIn(s, r, "AttachingControllers") BY DEF Fits
<1>6. ASSUME Living(t)
      PROVE  /\ FindSlot(t, HandleOf(t, r)) /\ SlotOf(t, r).placed /\ SlotOf(t, r).bound = r
             /\ r \in t.entities
  <2>1. CASE type = "Bind" /\ Fits(s, r, "Binding")
    <3>1. SlotOf(t, r).bound = r /\ SlotOf(t, r).placed = SlotOf(s, r).placed BY <2>1 DEF ServedAs
    <3>2. SlotIn(s, r, "Binding") BY <2>1 DEF Fits
    <3> QED BY <1>1, <1>2, <1>6, <2>1, <3>1, <3>2, SlotInOf
  <2>2. CASE type = "Attach" /\ Fits(s, r, "AttachingControllers")
    <3>1. SlotOf(t, r) = SlotOf(s, r) BY <2>2 DEF ServedAs
    <3>2. SlotIn(s, r, "AttachingControllers") BY <2>2 DEF Fits
    <3> QED BY <1>1, <1>2, <1>6, <2>2, <3>1, <3>2, SlotInOf
  <2> QED BY <2>1, <2>2
<1>7. ASSUME Living(t)
      PROVE  /\ record.declares <=> record.attached
             /\ record.declares <=> record.instance \in t.controllers
  <2>1. CASE type = "Bind" /\ Fits(s, r, "Binding") /\ ~s.m_instances[r].declares
             /\ record.attached = t.m_instances[r].attached
    <3>1. SlotIn(s, r, "Binding") BY <2>1 DEF Fits
    <3>2. ~s.m_instances[r].attached /\ s.m_instances[r].instance \notin s.controllers
      BY <1>1, <1>7, <3>1, SlotInOf DEF Starting
    <3>3. s.m_instances[r].instance \notin t.controllers BY <2>1, <3>2 DEF ServedAs
    <3> QED BY <1>1, <2>1, <3>2, <3>3 DEF SameRecord
  <2>2. CASE type = "Attach" /\ Fits(s, r, "AttachingControllers") /\ record.attached = TRUE
    <3>1. SlotIn(s, r, "AttachingControllers") BY <2>2 DEF Fits
    <3>2. s.m_instances[r].declares BY <3>1, SlotInOf
    <3>3. s.m_instances[r].instance \in t.controllers BY <2>2 DEF ServedAs
    <3> QED BY <1>1, <2>2, <3>2, <3>3 DEF SameRecord
  <2> QED BY <2>1, <2>2
<1>8. Complete(t, r, record) BY <1>4, <1>6, <1>7 DEF Complete
<1> QED BY <1>2, <1>3, <1>8

(* The commands of the cleanup.                                            *)
LEMMA CleanupServed ==
  ASSUME NEW s, NEW t, NEW r, NEW type, NEW result, ServedAs(s, t, r, type, result)
  PROVE  /\ (type = "Unbind" /\ Fits(s, r, "Unbinding")) => Fits(t, r, "Unbinding") /\ Unbound(t, r)
         /\ (type = "Reset" /\ Fits(s, r, "CleanupResetting")) => Fits(t, r, "Releasing")
         /\ (type = "Release" /\ Fits(s, r, "Releasing")) =>
              /\ Owes(t, r, "Releasing") /\ TicketIn(t, r, "Releasing")
              /\ Living(t) => ~FindSlot(t, HandleOf(t, r)) /\ t.m_instances[r].instance \notin t.controllers
<1>1. /\ SameRecord(s, t, r) /\ (Living(t) <=> Living(s)) /\ t.entities = s.entities
      /\ (FindSlot(s, HandleOf(s, r)) /\ type # "Release") => FindSlot(t, HandleOf(t, r))
  BY DEF ServedAs, SameTickets
<1>2. ASSUME NEW state \in {"Unbinding", "CleanupResetting", "Releasing"}, Fits(s, r, state),
             type \in {"Unbind", "Reset", "Release"}
      PROVE  Living(t) => /\ result = "Success" /\ s.m_instances[r].instance \notin t.controllers
                          /\ FindSlot(s, HandleOf(s, r)) /\ SlotOf(t, r).bound = NoEntities
  <2>1. SlotIn(s, r, state) BY <1>2 DEF Fits
  <2>2. Living(s) => FindSlot(s, HandleOf(s, r)) /\ s.m_instances[r].instance \notin s.controllers
    BY <1>2, <2>1, SlotInOf
  <2>3. Living(s) => result = "Success" BY <1>2, <2>2 DEF ServedAs
  <2>4. /\ s.m_instances[r].instance \in t.controllers <=> s.m_instances[r].instance \in s.controllers
        /\ result = "Success" => SlotOf(t, r).bound = NoEntities
    BY <1>2 DEF ServedAs
  <2> QED BY <1>1, <2>2, <2>3, <2>4
<1>3. CASE type = "Unbind" /\ Fits(s, r, "Unbinding")
  <2>1. Owes(t, r, "Unbinding") /\ TicketIn(t, r, "Unbinding") BY <1>3, ServedRest DEF Fits
  <2>2. SlotIn(t, r, "Unbinding") BY <1>1, <1>2, <1>3, SlotInOf DEF SameRecord, Starting
  <2>3. Unbound(t, r) BY <1>2, <1>3 DEF Unbound, SlotOf
  <2> QED BY <1>3, <2>1, <2>2, <2>3 DEF Fits
<1>4. CASE type = "Reset" /\ Fits(s, r, "CleanupResetting")
  <2>0. Owes(s, r, "Releasing") /\ TicketIn(s, r, "Releasing") BY <1>4, ResetFitsRelease DEF Fits
  <2>1. Owes(t, r, "Releasing") /\ TicketIn(t, r, "Releasing") BY <2>0, ServedRest
  <2>2. SlotIn(t, r, "Releasing") BY <1>1, <1>2, <1>4, SlotInOf DEF SameRecord, Starting
  <2> QED BY <1>4, <2>1, <2>2 DEF Fits
<1>5. CASE type = "Release" /\ Fits(s, r, "Releasing")
  <2>1. Owes(t, r, "Releasing") /\ TicketIn(t, r, "Releasing") BY <1>5, ServedRest DEF Fits
  <2>2. result = "Success" => ~FindSlot(t, HandleOf(t, r)) BY <1>5 DEF ServedAs
  <2> QED BY <1>1, <1>2, <1>5, <2>1, <2>2 DEF SameRecord
<1> QED BY <1>3, <1>4, <1>5

Detached(s, r, failed) ==
  [s EXCEPT !.m_instances[r] = [s.m_instances[r] EXCEPT !.attached = FALSE,
                                       !.failed = s.m_instances[r].failed \/ failed]]

(* Controllers that are gone leave a record that may be unbound.           *)
LEMMA DetachedKeeps ==
  ASSUME NEW s, NEW r, NEW failed \in BOOLEAN, Loose(s, r), Owes(s, r, "DetachingControllers"),
         TicketIn(s, r, "DetachingControllers"),
         Living(s) => /\ FindSlot(s, HandleOf(s, r)) /\ s.m_instances[r].instance \notin s.controllers
                      /\ SlotOf(s, r).bound # NoEntities => SlotOf(s, r).bound = r /\ r \in s.entities
  PROVE  Loose(Detached(s, r, failed), r) /\ Fits(Detached(s, r, failed), r, "Unbinding")
<1> DEFINE old == s.m_instances[r]
           record == [old EXCEPT !.attached = FALSE, !.failed = old.failed \/ failed]
           t == [s EXCEPT !.m_instances[r] = record]
<1>0. s \in State /\ r \in Recs(s) /\ IsIdle(s, r) /\ Inv(s, {r}) BY DEF Loose, Inv, Shared
<1>1. old \in InstanceRecord BY <1>0, RecordTyped
<1>2. /\ record \in InstanceRecord /\ record.instance = old.instance /\ record.pending = old.pending
      /\ record.despawn = old.despawn /\ record.terminal = old.terminal /\ record.ticket = old.ticket
      /\ record.state = old.state
  BY <1>1 DEF InstanceRecord
<1>3. t = Detached(s, r, failed) BY DEF Detached
<1> HIDE DEF record
<1>4. Rewrites(s, t, r) /\ t.m_instances[r] = record BY <1>0, <1>2, RecordWritten
<1> HIDE DEF t
<1>5. Inv(t, {r}) /\ Undisturbed(s, t, r) /\ Recs(t) = Recs(s)
  BY <1>0, <1>2, <1>4, Rewritten
<1>6. Loose(t, r) BY <1>0, <1>2, <1>4, <1>5 DEF Loose, IsIdle
<1>7. Owes(s, r, "Unbinding") /\ TicketIn(s, r, "Unbinding")
  BY DEF Owes, TicketIn, Starting, Cleaning
<1>8. Owes(t, r, "Unbinding") /\ TicketIn(t, r, "Unbinding")
  BY <1>2, <1>4, <1>5, <1>7, OwesKept, TicketInKept
<1>9. HandleOf(t, r) = HandleOf(s, r) /\ t.slots = s.slots /\ t.controllers = s.controllers
      /\ t.entities = s.entities /\ (Living(t) <=> Living(s))
  BY <1>2, <1>4 DEF Rewrites, SameButRecords, SameScenes, SameTickets, SameComponent, HandleOf, Living
<1>10. SlotIn(t, r, "Unbinding")
  <2>1. SlotOf(t, r) = SlotOf(s, r) /\ (FindSlot(t, HandleOf(t, r)) <=> FindSlot(s, HandleOf(s, r)))
    BY <1>9 DEF SlotOf, FindSlot
  <2> QED BY <1>2, <1>4, <1>9, <2>1, SlotInOf DEF Starting
<1> QED BY <1>3, <1>6, <1>8, <1>10 DEF Fits

(* The two ways a spawn succeeds.                                          *)
LEMMA SucceedForms ==
  ASSUME NEW s, NEW r, Loose(s, r), s.answers[r] = <<>>
  PROVE  /\ MarkActive(s, r) = Succeed(s, r, [s.m_instances[r] EXCEPT !.state = "Active"])
         /\ [MarkActive(s, r) EXCEPT !.m_instances[r].attached = TRUE] =
              Succeed(s, r, [s.m_instances[r] EXCEPT !.state = "Active", !.attached = TRUE])
<1> DEFINE old == s.m_instances[r]
           record == [old EXCEPT !.state = "Active"]
           active == MarkActive(s, r)
           attached == [record EXCEPT !.attached = TRUE]
<1>0. s \in State /\ r \in Recs(s) /\ r \in DOMAIN s.m_instances /\ r \in Requests
  BY RecordTyped DEF Loose, Inv, Shared, Recs
<1>1. old \in InstanceRecord BY <1>0, RecordTyped
<1>2. Append(s.answers[r], "Succeeded") = <<"Succeeded">> OBVIOUS
<1>3. record.instance = old.instance /\ [old EXCEPT !.state = "Active"].instance = old.instance
  BY <1>1 DEF InstanceRecord
<1>4. /\ r \in DOMAIN s.answers /\ r \in DOMAIN s.instanceOf
      /\ DOMAIN s = {"life", "slots", "controllers", "m_commands", "draining", "m_nextCommandId",
           "m_lifecycle", "m_generation", "m_spawner", "m_instances", "m_nextSpawnRequest",
           "m_nextDespawnRequest", "boundary", "prepared", "service", "entities", "queued",
           "answers", "despawnAnswers", "instanceOf", "cancelled"}
  BY <1>0 DEF State
<1> DEFINE base == [s EXCEPT !.m_instances[r].state = "Active"]
<1>5. base.m_instances[r] = record /\ base.answers = s.answers
  BY <1>0, <1>4
<1>6. active = Succeed(s, r, record)
  BY <1>0, <1>1, <1>2, <1>3, <1>4 DEF MarkActive, OnSpawnSucceeded, Succeed, State
<1>7. [active EXCEPT !.m_instances[r].attached = TRUE] = Succeed(s, r, attached)
  <2>1. [Succeed(s, r, record) EXCEPT !.m_instances[r].attached = TRUE] = Succeed(s, r, attached)
    BY <1>0, <1>4 DEF Succeed
  <2> HIDE DEF active, record, attached
  <2> QED BY <1>6, <2>1
<1> QED BY <1>6, <1>7

(* The branches of a completion.                                           *)
Branches(t, r, state, ok, result, ticketValid, next) ==
  /\ (state \in {"Resetting", "Placing", "Binding", "AttachingControllers"} /\ ~ok) =>
       next = BeginSpawnFailure(t, r)
  /\ (state \in {"Resetting", "Placing"} /\ ok /\ t.boundary[r] = "Cancelled") =>
       next = BeginSpawnFailure(t, r)
  /\ (state = "Resetting" /\ ok /\ t.boundary[r] # "Cancelled") => next = SubmitPlace(t, r)
  /\ (state = "Placing" /\ ok /\ t.boundary[r] # "Cancelled") =>
       next = BeginEntitySpawn(t, r, ticketValid)
  /\ (state = "Binding" /\ ok) =>
       next = IF t.m_instances[r].declares THEN SubmitAttachControllers(t, r) ELSE MarkActive(t, r)
  /\ (state = "AttachingControllers" /\ ok) =>
       next = [MarkActive(t, r) EXCEPT !.m_instances[r].attached = TRUE]
  /\ state = "DetachingControllers" => next = SubmitUnbind(Detached(t, r, result # "Success"), r)
  /\ state = "Unbinding" => next = BeginEntityDespawn(IF ~ok THEN CleanupFailed(t, r) ELSE t, r)
  /\ state = "CleanupResetting" => next = SubmitRelease(IF ~ok THEN CleanupFailed(t, r) ELSE t, r)
  /\ state = "Releasing" => next = FinishRelease(t, r, result)

(* Resume takes them.                                                      *)
LEMMA ResumeBranches ==
  ASSUME NEW t, NEW r, NEW result, NEW ticketValid, NEW state, state = t.m_instances[r].state
  PROVE  Branches(t, r, state, result = "Success", result, ticketValid, Resume(t, r, result, ticketValid))
<1> DEFINE ok == result = "Success"
           next == Resume(t, r, result, ticketValid)
<1>1. CASE state = "Resetting" BY <1>1 DEF Resume, Branches
<1>2. CASE state = "Placing" BY <1>2 DEF Resume, Branches
<1>3. CASE state = "Binding" BY <1>3 DEF Resume, Branches
<1>4. CASE state = "AttachingControllers" BY <1>4 DEF Resume, Branches
<1>5. CASE state = "DetachingControllers" BY <1>5 DEF Resume, Branches, Detached
<1>6. CASE state = "Unbinding" BY <1>6 DEF Resume, Branches
<1>7. CASE state = "CleanupResetting" BY <1>7 DEF Resume, Branches
<1>8. CASE state = "Releasing" BY <1>8 DEF Resume, Branches
<1> QED BY <1>1, <1>2, <1>3, <1>4, <1>5, <1>6, <1>7, <1>8 DEF Branches

(* A completed command keeps the invariant, whatever its result.           *)
LEMMA CompletedKeeps ==
  ASSUME NEW s, NEW r, NEW valid, NEW ticketValid, Inv(s, {}), Awaited(s, r)
  PROVE  Inv(Completed(ProcessedSlot(s, valid), r, Result(s, Head(s.draining), valid), ticketValid), {})
<1> DEFINE c == Head(s.draining)
           result == Result(s, c, valid)
           type == c.type
           t == Served(s, r, valid)
           next == Resume(t, r, result, ticketValid)
           state == s.m_instances[r].state
           ok == result = "Success"
<1>0. next = Completed(ProcessedSlot(s, valid), r, result, ticketValid)
  BY DEF Completed, Served, Settled
<1>1. <<state, type>> \in Steps /\ Fits(s, r, state) BY AwaitedCommand
<1>2. Loose(t, r) BY ServedKeeps
<1>3. ServedAs(s, t, r, type, result) BY ServedAsCommand
<1>4. SameRecord(s, t, r) /\ (result = "Success" => Living(s)) BY <1>3 DEF ServedAs
<1>5. t.m_instances[r].state = state BY <1>4 DEF SameRecord
<1> HIDE DEF t, result, type, state
<1>6. Branches(t, r, state, ok, result, ticketValid, next) BY <1>5, ResumeBranches
<1>a. SUFFICES Inv(next, {}) BY <1>0 DEF result, c
<1> HIDE DEF next
<1>7. /\ t \in State /\ r \in Recs(t) /\ t.m_instances[r] \in InstanceRecord
  <2>1. t \in State /\ r \in Recs(t) BY <1>2 DEF Loose, Inv, Shared
  <2> QED BY <2>1, RecordTyped
<1>8. CASE state \in {"Resetting", "Placing", "Binding", "AttachingControllers"} /\ ~ok
  <2>1. type # "Detach" BY <1>1, <1>8 DEF Steps
  <2>2. Fits(t, r, state) BY <1>1, <1>3, <1>8, <2>1, FailedServed
  <2>3. MayFail(t, r) BY <1>8, <2>2, StartingMayFail
  <2> QED BY <1>2, <1>6, <1>8, <2>3, BeginSpawnFailureKeeps DEF Branches
<1>9. CASE state = "Resetting" /\ ok
  <2>1. type = "Reset" BY <1>1, <1>9 DEF Steps
  <2>2. Fits(t, r, "Placing") BY <1>1, <1>3, <1>9, <2>1, StartServed
  <2>3. MayFail(t, r) BY <2>2, StartingMayFail
  <2>4. Inv(BeginSpawnFailure(t, r), {}) BY <1>2, <2>3, BeginSpawnFailureKeeps
  <2>5. Inv(SubmitPlace(t, r), {}) BY <1>2, <2>2, SubmitKeeps
  <2> QED BY <1>6, <1>9, <2>4, <2>5 DEF Branches
<1>10. CASE state = "Placing" /\ ok
  <2>1. type = "Place" BY <1>1, <1>10 DEF Steps
  <2>2. Fits(t, r, "Placing") /\ Placed(t, r) BY <1>1, <1>3, <1>10, <2>1, StartServed
  <2>3. MayFail(t, r) BY <2>2, StartingMayFail
  <2>4. Inv(BeginSpawnFailure(t, r), {}) BY <1>2, <2>3, BeginSpawnFailureKeeps
  <2>5. Inv(BeginEntitySpawn(t, r, ticketValid), {}) BY <1>2, <2>2, BeginEntitySpawnKeeps
  <2> QED BY <1>6, <1>10, <2>4, <2>5 DEF Branches
<1>11. ASSUME ok, NEW record \in InstanceRecord,
              record.instance = t.m_instances[r].instance, record.pending = t.m_instances[r].pending,
              record.despawn = t.m_instances[r].despawn, record.ticket = t.m_instances[r].ticket,
              record.state = "Active", record.declares = t.m_instances[r].declares,
              \/ /\ state = "Binding" /\ ~t.m_instances[r].declares
                 /\ record.attached = t.m_instances[r].attached
              \/ state = "AttachingControllers" /\ record.attached = TRUE
       PROVE  Inv(Succeed(t, r, record), {}) /\ t.answers[r] = <<>>
  <2>1. \/ /\ type = "Bind" /\ Fits(s, r, "Binding") /\ ~s.m_instances[r].declares
           /\ record.attached = t.m_instances[r].attached
        \/ type = "Attach" /\ Fits(s, r, "AttachingControllers") /\ record.attached = TRUE
    <3>1. state = "Binding" => type = "Bind" BY <1>1 DEF Steps
    <3>2. state = "AttachingControllers" => type = "Attach" BY <1>1 DEF Steps
    <3> QED BY <1>1, <1>4, <1>11, <3>1, <3>2 DEF SameRecord
  <2>2. /\ t.answers[r] = <<>> /\ t.boundary[r] = "Committed" /\ TicketIn(t, r, "Active")
        /\ Complete(t, r, record)
    BY <1>3, <1>11, <2>1, LastServed
  <2> QED BY <1>2, <1>11, <2>2, SucceedKeeps
<1>12. CASE state = "Binding" /\ ok
  <2>1. type = "Bind" BY <1>1, <1>12 DEF Steps
  <2>2. CASE t.m_instances[r].declares
    <3>1. Fits(t, r, "AttachingControllers")
      BY <1>1, <1>3, <1>4, <1>12, <2>1, <2>2, StartServed DEF SameRecord
    <3> QED BY <1>2, <1>6, <1>12, <2>2, <3>1, SubmitKeeps DEF Branches
  <2>3. CASE ~t.m_instances[r].declares
    <3> DEFINE record == [t.m_instances[r] EXCEPT !.state = "Active"]
    <3>1. /\ record \in InstanceRecord
          /\ record.instance = t.m_instances[r].instance /\ record.pending = t.m_instances[r].pending
          /\ record.despawn = t.m_instances[r].despawn /\ record.ticket = t.m_instances[r].ticket
          /\ record.state = "Active" /\ record.declares = t.m_instances[r].declares
          /\ record.attached = t.m_instances[r].attached
      BY <1>7 DEF InstanceRecord, RecordStates
    <3>2. t.answers[r] = <<>> => MarkActive(t, r) = Succeed(t, r, record) BY <1>2, SucceedForms, Zenon
    <3> HIDE DEF record
    <3>3. Inv(Succeed(t, r, record), {}) /\ t.answers[r] = <<>> BY <1>11, <1>12, <2>3, <3>1
    <3> QED BY <1>6, <1>12, <2>3, <3>2, <3>3 DEF Branches
  <2> QED BY <2>2, <2>3
<1>13. CASE state = "AttachingControllers" /\ ok
  <2> DEFINE record == [t.m_instances[r] EXCEPT !.state = "Active", !.attached = TRUE]
  <2>1. /\ record \in InstanceRecord
        /\ record.instance = t.m_instances[r].instance /\ record.pending = t.m_instances[r].pending
        /\ record.despawn = t.m_instances[r].despawn /\ record.ticket = t.m_instances[r].ticket
        /\ record.state = "Active" /\ record.declares = t.m_instances[r].declares
        /\ record.attached = TRUE
    BY <1>7 DEF InstanceRecord, RecordStates
  <2>2. t.answers[r] = <<>> =>
          [MarkActive(t, r) EXCEPT !.m_instances[r].attached = TRUE] = Succeed(t, r, record)
    BY <1>2, SucceedForms, Zenon
  <2> HIDE DEF record
  <2>3. Inv(Succeed(t, r, record), {}) /\ t.answers[r] = <<>> BY <1>11, <1>13, <2>1
  <2> QED BY <1>6, <1>13, <2>2, <2>3 DEF Branches
<1>14. CASE state = "DetachingControllers"
  <2>1. type = "Detach" BY <1>1, <1>14 DEF Steps
  <2>2. Owes(t, r, "DetachingControllers") /\ TicketIn(t, r, "DetachingControllers")
    BY <1>1, <1>3, <1>14, ServedRest DEF Fits
  <2>3. SlotIn(s, r, "DetachingControllers") BY <1>1, <1>14 DEF Fits
  <2>4. Living(t) => /\ FindSlot(t, HandleOf(t, r)) /\ t.m_instances[r].instance \notin t.controllers
                     /\ SlotOf(t, r).bound # NoEntities => SlotOf(t, r).bound = r /\ r \in t.entities
    BY <1>3, <2>1, <2>3, SlotInOf DEF ServedAs, SameRecord, SameTickets
  <2>5. (result # "Success") \in BOOLEAN OBVIOUS
  <2>6. Loose(Detached(t, r, result # "Success"), r) /\ Fits(Detached(t, r, result # "Success"), r, "Unbinding")
    BY <1>2, <2>2, <2>4, <2>5, DetachedKeeps
  <2> QED BY <1>6, <1>14, <2>6, SubmitUnbindKeeps DEF Branches
<1>15. LET u == CleanupFailed(t, r) IN
       /\ Loose(u, r) /\ \A x : Fits(t, r, x) => Fits(u, r, x)
       /\ SameScenes(t, u) /\ SameComponent(t, u) /\ HandleOf(u, r) = HandleOf(t, r)
  BY <1>2, CleanupFailedKeeps
<1>16. CASE state = "Unbinding"
  <2>1. type = "Unbind" BY <1>1, <1>16 DEF Steps
  <2>2. Fits(t, r, "Unbinding") /\ Unbound(t, r) BY <1>1, <1>3, <1>16, <2>1, CleanupServed
  <2>3. Inv(BeginEntityDespawn(t, r), {}) BY <1>2, <2>2, BeginEntityDespawnKeeps
  <2>4. Unbound(CleanupFailed(t, r), r)
    BY <1>15, <2>2 DEF Unbound, SameScenes, SameComponent, Living
  <2>5. Inv(BeginEntityDespawn(CleanupFailed(t, r), r), {})
    BY <1>15, <2>2, <2>4, BeginEntityDespawnKeeps
  <2> QED BY <1>6, <1>16, <2>3, <2>5 DEF Branches
<1>17. CASE state = "CleanupResetting"
  <2>1. type = "Reset" BY <1>1, <1>17 DEF Steps
  <2>2. Fits(t, r, "Releasing") BY <1>1, <1>3, <1>17, <2>1, CleanupServed
  <2>3. Inv(SubmitRelease(t, r), {}) BY <1>2, <2>2, SubmitReleaseKeeps
  <2>4. Inv(SubmitRelease(CleanupFailed(t, r), r), {}) BY <1>15, <2>2, SubmitReleaseKeeps
  <2> QED BY <1>6, <1>17, <2>3, <2>4 DEF Branches
<1>18. CASE state = "Releasing"
  <2>1. type = "Release" BY <1>1, <1>18 DEF Steps
  <2>2. /\ Owes(t, r, "Releasing") /\ TicketIn(t, r, "Releasing")
        /\ Living(t) => ~FindSlot(t, HandleOf(t, r)) /\ t.m_instances[r].instance \notin t.controllers
    BY <1>1, <1>3, <1>18, <2>1, CleanupServed
  <2> QED BY <1>2, <1>6, <1>18, <2>2, FinishReleaseKeeps DEF Branches
<1>19. state \in {"Resetting", "Placing", "Binding", "AttachingControllers", "DetachingControllers",
                  "Unbinding", "CleanupResetting", "Releasing"}
  BY <1>1 DEF Steps
<1> QED BY <1>8, <1>9, <1>10, <1>12, <1>13, <1>14, <1>16, <1>17, <1>18, <1>19

(* A tick's slot command: popped, executed and answered.                   *)
LEMMA SlotCommandKeeps ==
  ASSUME NEW s, NEW valid, NEW ticketValid, Inv(s, {}), s.draining # <<>>,
         NextCommand(s).type \notin {"Create", "Destroy"}
  PROVE  LET c == NextCommand(s) IN
         /\ c.id = NoCommand => Inv(Process(s, valid), {})
         /\ c.id # NoCommand =>
              Inv(OnScenePolytreeCommandCompleted(Process(s, valid), c,
                    Result(PopCommand(s), c, valid), ticketValid), {})
<1> DEFINE c == Head(s.draining)
           w == ProcessedSlot(s, valid)
           result == Result(s, c, valid)
<1>0. s \in State /\ Shared(s) BY DEF Inv, Shared
<1>1. c \in SlotCommand
  <2>1. c \in Command BY <1>0, Typed
  <2> QED BY <2>1 DEF Command, SceneCommand, NextCommand
<1>2. Process(s, valid) = w /\ c = NextCommand(s) BY DEF Process, NextCommand, ProcessedSlot
<1>3. w.m_instances = s.m_instances /\ Result(PopCommand(s), c, valid) = result
  BY <1>0, <1>1, ProcessedEffect
<1>4. Pipeline(s)[1] = c /\ 1 \in 1 .. Len(Pipeline(s)) /\ Slotted(c)
  <2>1. Pipeline(s) # <<>> /\ c = Pipeline(s)[1] BY <1>0, PopEffect
  <2>2. Pipeline(s) \in Seq(Command) BY <1>0, PipelineTyped
  <2> QED BY <1>1, <2>1, <2>2 DEF SlotCommand, Slotted
<1>5. (c.id = NoCommand \/ \A r \in Recs(s) : s.m_instances[r].pending.id # c.id) => Inv(w, {})
  <2> HAVE c.id = NoCommand \/ \A r \in Recs(s) : s.m_instances[r].pending.id # c.id
  <2>1. c.slot.scene # s.m_spawner BY <1>0, <1>4 DEF Shared, Queue
  <2> QED BY <1>1, <2>1, UnawaitedKeeps
<1>6. ASSUME c.id # NoCommand
      PROVE  Inv(OnScenePolytreeCommandCompleted(w, c, result, ticketValid), {})
  <2>1. \A r \in Awaiting(w, c) : Awaited(s, r)
    BY <1>1, <1>3, <1>6 DEF Awaiting, Awaited, Recs
  <2>2. CASE Awaiting(w, c) = {}
    <3>1. ASSUME NEW r \in Recs(s), s.m_instances[r].pending.id = c.id PROVE FALSE
      <4>1. c = CommandOf(s, r) BY <1>0, <1>4, <1>6, <3>1 DEF Shared, Queue
      <4>2. s.m_instances[r].pending \in [id : Nat, type : SlotTypes] BY <1>0, RecordTyped
      <4>3. s.m_instances[r].pending = [id |-> c.id, type |-> c.type]
        BY <4>1, <4>2 DEF CommandOf
      <4> QED BY <1>3, <2>2, <4>3 DEF Awaiting, Recs
    <3> QED BY <1>5, <2>2, <3>1 DEF OnScenePolytreeCommandCompleted
  <2>3. CASE Awaiting(w, c) # {}
    <3> DEFINE r == CHOOSE x \in Awaiting(w, c) : TRUE
    <3>1. r \in Awaiting(w, c) BY <2>3
    <3>2. Awaited(s, r) BY <2>1, <3>1
    <3>3. OnScenePolytreeCommandCompleted(w, c, result, ticketValid) = Completed(w, r, result, ticketValid)
      BY <2>3 DEF OnScenePolytreeCommandCompleted
    <3> HIDE DEF r
    <3>4. Inv(Completed(w, r, result, ticketValid), {}) BY <3>2, CompletedKeeps
    <3> QED BY <3>3, <3>4
  <2> QED BY <2>2, <2>3
<1> HIDE DEF w, result
<1> QED BY <1>2, <1>3, <1>5, <1>6

-----------------------------------------------------------------------------
(* Scenes                                                                  *)

ReleaseQueued(s, h) == \E k \in 1 .. Len(Pipeline(s)) : ReleaseOf(Pipeline(s)[k], h)

(* What a record counts on depends on its scene only while that lives.     *)
LEMMA FitsKept ==
  ASSUME NEW s, NEW t, NEW r, NEW state, Fits(s, r, state),
         t.m_instances[r] = s.m_instances[r], t.answers = s.answers, t.boundary = s.boundary,
         SameTickets(s, t), t.queued = s.queued,
         Living(t) =>
           /\ Living(s) /\ SlotOf(t, r) = SlotOf(s, r)
           /\ s.m_instances[r].instance \in t.controllers <=> s.m_instances[r].instance \in s.controllers
  PROVE  Fits(t, r, state)
<1>1. Owes(t, r, state) BY DEF Fits, Owes
<1>2. TicketIn(t, r, state) BY DEF Fits, TicketIn, SameTickets
<1>3. HandleOf(t, r) = HandleOf(s, r) BY DEF HandleOf
<1>4. (Living(t) /\ FindSlot(s, HandleOf(s, r))) => FindSlot(t, HandleOf(t, r))
  BY <1>3 DEF FindSlot, SlotOf
<1>5. t.entities = s.entities /\ SlotIn(s, r, state) BY DEF SameTickets, Fits
<1>6. SlotIn(t, r, state) BY <1>4, <1>5, SlotInOf
<1> QED BY <1>1, <1>2, <1>6 DEF Fits

(* One scene's life moves on: it is built, or it goes with all it holds.   *)
LEMMA LifeMoved ==
  ASSUME NEW s, NEW t \in State, NEW scene \in Scene, Inv(s, {}),
         SameComponent(s, t), SameTickets(s, t), SameBoundaries(s, t), SameAnswers(s, t),
         t.m_instances = s.m_instances, Queue(t), Detaching(t),
         \A h : ReleaseQueued(s, h) => ReleaseQueued(t, h),
         \A x \in Scene : x # scene => t.slots[x] = s.slots[x] /\ t.life[x] = s.life[x],
         t.slots[scene] \in {s.slots[scene], DormantSlots},
         t.controllers \subseteq s.controllers,
         \A instance \in s.controllers : instance.slot.scene # scene => instance \in t.controllers,
         t.life[scene] = "Alive" =>
           \/ s.life[scene] = "Pending"
           \/ s.life[scene] = "Alive" /\ t.slots = s.slots /\ t.controllers = s.controllers,
         s.life[scene] \notin Unbuilt => t.life[scene] \notin Unbuilt
  PROVE  Inv(t, {})
<1>0. s \in State /\ Shared(s) BY DEF Inv, Shared
<1>1. Recs(t) = Recs(s) /\ SameHandles(s, t) /\ t.m_spawner = s.m_spawner
      /\ \A r \in Recs(s) : HandleOf(t, r) = HandleOf(s, r)
  BY DEF Recs, SameHandles, SameComponent, HandleOf
<1>2. \A x \in Scene : s.life[x] \notin Unbuilt => t.life[x] \notin Unbuilt OBVIOUS
<1>3. Lifecycle(t)
  BY <1>0, <1>1, <1>2 DEF Shared, Lifecycle, SameComponent
<1>4. Living(t) => /\ Living(s)
                   /\ s.m_spawner # scene \/ (t.slots = s.slots /\ t.controllers = s.controllers)
  <2> HAVE Living(t)
  <2>1. s.m_spawner \in Scene /\ t.life[s.m_spawner] = "Alive" BY <1>1 DEF Living
  <2>2. s.m_lifecycle = "Ready" BY <1>0, <2>1, Numbers DEF Shared, Lifecycle
  <2>3. s.life[s.m_spawner] \notin Unbuilt BY <1>0, <2>2 DEF Shared, Lifecycle
  <2> QED BY <2>1, <2>3 DEF Living, Unbuilt
<1>5. Answering(t) BY <1>0, <1>1, AnsweringKept DEF Shared
<1>6. Boundaries(t) BY <1>0, BoundariesKept DEF Shared
<1>7. Tickets(t) BY <1>0, <1>1, TicketsKept DEF Shared, SameAnswers, SameComponent
<1>8. \A j \in Slot : ~DormantSlots[j].reserved /\ DormantSlots[j].bound = NoEntities
  BY DEF DormantSlots, DormantSlot
<1>9. Leases(t)
  <2>1. \A x \in Scene, j \in Slot : ~t.slots[x][j].reserved => t.slots[x][j].bound = NoEntities
    BY <1>0, <1>8 DEF Shared, Leases
  <2>2. \A x \in Scene : t.life[x] \in Unbuilt => \A j \in Slot : ~t.slots[x][j].reserved
    BY <1>0, <1>2, <1>8 DEF Shared, Leases
  <2>3. \A instance \in t.controllers : t.life[instance.slot.scene] \notin Unbuilt
    <3>1. \A instance \in s.controllers : instance.slot.scene \in Scene
      BY <1>0, Typed DEF InstanceHandle, SlotHandle
    <3> QED BY <1>0, <1>2, <3>1 DEF Shared, Leases
  <2> QED BY <1>0, <1>1, <1>4, <2>1, <2>2, <2>3 DEF Shared, Leases
<1>10. \A h : Holds(s, h) => Holds(t, h) BY <1>1 DEF Holds
<1>11. ASSUME NEW x \in Scene, NEW i \in Slot, t.life[x] = "Alive", t.slots[x][i].reserved
       PROVE  LET h == [scene |-> x, slot |-> i, generation |-> t.slots[x][i].generation]
              IN  \/ Holds(t, h) \/ HasControllers(t, h)
                  \/ \E k \in 1 .. Len(Pipeline(t)) : ReleaseOf(Pipeline(t)[k], h)
  <2> DEFINE h == [scene |-> x, slot |-> i, generation |-> t.slots[x][i].generation]
  <2>1. CASE x = scene /\ s.life[scene] = "Pending"
    <3>1. s.life[scene] \in Unbuilt BY <1>11, <2>1 DEF Unbuilt
    <3>2. ~s.slots[scene][i].reserved BY <1>0, <3>1 DEF Shared, Leases
    <3> QED BY <1>8, <1>11, <2>1, <3>2
  <2>2. CASE ~(x = scene /\ s.life[scene] = "Pending")
    <3>1. s.life[x] = "Alive" /\ s.slots[x] = t.slots[x] BY <1>11, <2>2
    <3>2. h.scene # scene \/ t.controllers = s.controllers BY <1>11, <2>2
    <3>3. h = [scene |-> x, slot |-> i, generation |-> s.slots[x][i].generation] BY <3>1
    <3> HIDE DEF h
    <3>4. Holds(s, h) \/ HasControllers(s, h) \/ ReleaseQueued(s, h)
      BY <1>0, <1>11, <3>1, <3>3 DEF Shared, Stranding, ReleaseQueued
    <3>5. HasControllers(s, h) => HasControllers(t, h) BY <3>2 DEF HasControllers
    <3>6. Holds(t, h) \/ HasControllers(t, h) \/ ReleaseQueued(t, h) BY <1>10, <3>4, <3>5
    <3> QED BY <3>6 DEF h, ReleaseQueued
  <2> QED BY <2>1, <2>2
<1>12. Stranding(t) BY <1>11 DEF Stranding, Detaching
<1>13. ASSUME NEW r \in Recs(t) PROVE Fits(t, r, t.m_instances[r].state)
  <2>1. r \in Recs(s) /\ Fits(s, r, s.m_instances[r].state) /\ t.m_instances[r] = s.m_instances[r]
    BY <1>1 DEF Inv
  <2>2. HandleOf(s, r).scene = s.m_spawner /\ s.m_spawner \in Scene
        /\ s.m_instances[r].instance.slot = HandleOf(s, r)
    BY <1>0, <2>1, SceneOfRecord DEF Shared, HandleOf
  <2>3. Living(t) => SlotOf(t, r) = SlotOf(s, r) BY <1>1, <1>4, <2>1, <2>2 DEF SlotOf
  <2>4. Living(t) =>
          (s.m_instances[r].instance \in t.controllers <=> s.m_instances[r].instance \in s.controllers)
    BY <1>4, <2>2
  <2>5. t.answers = s.answers /\ t.boundary = s.boundary /\ t.queued = s.queued
    BY DEF SameAnswers, SameBoundaries
  <2> QED BY <1>4, <2>1, <2>3, <2>4, <2>5, FitsKept
<1> QED BY <1>3, <1>5, <1>6, <1>7, <1>9, <1>12, <1>13 DEF Inv, Shared

(* A scene's command joins the queue.                                      *)
LEMMA SceneCommandAppended ==
  ASSUME NEW s \in State, NEW t, NEW c \in Command, ~Slotted(c), Queue(s), Detaching(s),
         Pipeline(t) = Append(Pipeline(s), c),
         t.m_nextCommandId = s.m_nextCommandId, t.m_spawner = s.m_spawner,
         t.m_instances = s.m_instances,
         \A x \in Scene : /\ s.life[x] \notin Unbuilt => t.life[x] \notin Unbuilt
                          /\ t.life[x] = "Alive" => s.life[x] = "Alive"
  PROVE  Queue(t) /\ Detaching(t) /\ \A h : ReleaseQueued(s, h) => ReleaseQueued(t, h)
<1> DEFINE p == Pipeline(s)
           q == Pipeline(t)
<1>1. /\ p \in Seq(Command) /\ Len(p) \in Nat
      /\ \A i \in 1 .. Len(p) : Slotted(p[i]) => p[i].slot.scene \in Scene
  BY PipelineTyped
<1> HIDE DEF p, q
<1>2. /\ q = Append(p, c) BY DEF p, q
<1>3. /\ Len(q) = Len(p) + 1 /\ q[Len(q)] = c
      /\ \A i \in 1 .. Len(p) : q[i] = p[i] /\ i \in 1 .. Len(q)
  BY <1>1, <1>2
<1>4. \A i \in 1 .. Len(q) : Slotted(q[i]) => i \in 1 .. Len(p) /\ q[i] = p[i]
  BY <1>1, <1>3
<1>5. Recs(t) = Recs(s) /\ \A r \in Recs(s) : /\ CommandOf(t, r) = CommandOf(s, r)
                                              /\ IsIdle(t, r) <=> IsIdle(s, r)
  BY DEF Recs, CommandOf, HandleOf, IsIdle
<1>6. Queue(t)
  <2>1. ASSUME NEW i \in 1 .. Len(q), Slotted(q[i])
        PROVE  /\ t.life[q[i].slot.scene] \notin Unbuilt
               /\ q[i].id < t.m_nextCommandId
               /\ q[i].slot.scene = t.m_spawner =>
                    q[i].id # NoCommand /\ \E r \in Recs(t) : t.m_instances[r].pending.id = q[i].id
               /\ q[i].id # NoCommand => \A r \in Recs(t) :
                    t.m_instances[r].pending.id = q[i].id => q[i] = CommandOf(t, r)
               /\ q[i].id # NoCommand => \A j \in 1 .. Len(q) :
                    (Slotted(q[j]) /\ q[j].id = q[i].id) => j = i
    <3>1. i \in 1 .. Len(p) /\ q[i] = p[i] BY <1>4, <2>1
    <3>2. /\ s.life[p[i].slot.scene] \notin Unbuilt
          /\ p[i].id < s.m_nextCommandId
          /\ p[i].slot.scene = s.m_spawner =>
               p[i].id # NoCommand /\ \E r \in Recs(s) : s.m_instances[r].pending.id = p[i].id
          /\ p[i].id # NoCommand => \A r \in Recs(s) :
               s.m_instances[r].pending.id = p[i].id => p[i] = CommandOf(s, r)
          /\ p[i].id # NoCommand => \A j \in 1 .. Len(p) :
               (Slotted(p[j]) /\ p[j].id = p[i].id) => j = i
      BY <2>1, <3>1 DEF Queue, p
    <3>3. p[i].id # NoCommand => \A j \in 1 .. Len(q) : (Slotted(q[j]) /\ q[j].id = p[i].id) => j = i
      BY <1>4, <3>2
    <3> QED BY <1>1, <1>5, <2>1, <3>1, <3>2, <3>3
  <2>2. ASSUME NEW r \in Recs(t), ~IsIdle(t, r)
        PROVE  /\ t.m_instances[r].pending.id < t.m_nextCommandId
               /\ <<t.m_instances[r].state, t.m_instances[r].pending.type>> \in Steps
               /\ \A x \in Recs(t) : t.m_instances[x].pending.id = t.m_instances[r].pending.id => x = r
    BY <1>5, <2>2 DEF Queue
  <2> QED BY <2>1, <2>2 DEF Queue, q
<1>7. \A h : Holds(s, h) => Holds(t, h) BY <1>5 DEF Holds, HandleOf
<1>8. Detaching(t)
  <2>1. ASSUME NEW k \in 1 .. Len(q), q[k].type = "Detach", t.life[q[k].slot.scene] = "Alive",
               ~Holds(t, q[k].slot)
        PROVE  \E m \in 1 .. Len(q) : m > k /\ ReleaseOf(q[m], q[k].slot)
    <3>1. k \in 1 .. Len(p) /\ q[k] = p[k] /\ Slotted(p[k]) BY <1>4, <2>1 DEF Slotted, SlotTypes
    <3>2. s.life[p[k].slot.scene] = "Alive" BY <1>1, <2>1, <3>1
    <3>3. PICK m \in 1 .. Len(p) : m > k /\ ReleaseOf(p[m], p[k].slot)
      BY <1>7, <2>1, <3>1, <3>2 DEF Detaching, p
    <3> QED BY <1>3, <3>1, <3>3
  <2> QED BY <2>1 DEF Detaching, q
<1>9. \A h : ReleaseQueued(s, h) => ReleaseQueued(t, h)
  BY <1>3 DEF ReleaseQueued, p, q
<1> QED BY <1>6, <1>8, <1>9

SameButLife(s, t) ==
  /\ t.slots = s.slots /\ t.controllers = s.controllers /\ SamePipe(s, t) /\ SameComponent(s, t)
  /\ SameTickets(s, t) /\ SameBoundaries(s, t) /\ SameAnswers(s, t)
  /\ t.m_instances = s.m_instances

(* A scene's life is written.                                              *)
LEMMA LifeWritten ==
  ASSUME NEW s \in State, NEW scene \in Scene, NEW x \in Lives
  PROVE  LET t == [s EXCEPT !.life[scene] = x] IN
         /\ t \in State /\ SameButLife(s, t) /\ t.life[scene] = x
         /\ \A y \in Scene : y # scene => t.life[y] = s.life[y]
<1> DEFINE f == [s.life EXCEPT ![scene] = x]
           t == [s EXCEPT !.life = f]
<1>1. /\ f \in [Scene -> Lives] /\ f[scene] = x
      /\ \A y \in Scene : y # scene => f[y] = s.life[y]
  BY Typed
<1>2. t = [s EXCEPT !.life[scene] = x] OBVIOUS
<1> HIDE DEF f
<1>3. t \in State /\ t.life = f BY <1>1 DEF State
<1>4. SameButLife(s, t)
  BY DEF State, SameButLife, SamePipe, SameComponent, SameTickets, SameBoundaries, SameAnswers
<1> QED BY <1>1, <1>2, <1>3, <1>4

(* The level asks for a scene to be built or destroyed.                    *)
LEMMA SceneQueuedKeeps ==
  ASSUME NEW s, Inv(s, {}), NEW scene \in Scene, NEW x \in Lives, x # "Alive",
         s.life[scene] \notin Unbuilt => x \notin Unbuilt, NEW c \in SceneCommand
  PROVE  Inv(Enqueue([s EXCEPT !.life[scene] = x], c), {})
<1> DEFINE u == [s EXCEPT !.life[scene] = x]
           m == Append(u.m_commands, c)
           t == [u EXCEPT !.m_commands = m]
<1>0. s \in State /\ Shared(s) BY DEF Inv, Shared
<1>1. /\ u \in State /\ SameButLife(s, u) /\ u.life[scene] = x
      /\ \A y \in Scene : y # scene => u.life[y] = s.life[y]
  BY <1>0, LifeWritten
<1>2. t = Enqueue(u, c) BY DEF Enqueue
<1> HIDE DEF u
<1>3. c \in Command /\ ~Slotted(c) BY DEF Command, SceneCommand, Slotted, SlotTypes
<1>4. m \in Seq(Command) BY <1>1, <1>3, Typed
<1> HIDE DEF m
<1>5. t \in State /\ t.m_commands = m BY <1>1, <1>4 DEF State
<1>6. /\ t.draining = u.draining /\ t.m_nextCommandId = u.m_nextCommandId
      /\ SameScenes(u, t) /\ SameComponent(u, t) /\ SameTickets(u, t) /\ SameBoundaries(u, t)
      /\ SameAnswers(u, t) /\ t.m_instances = u.m_instances
  BY <1>1 DEF State, SameScenes, SameComponent, SameTickets, SameBoundaries, SameAnswers
<1> HIDE DEF t
<1>7. /\ t.draining = s.draining /\ t.m_commands = Append(s.m_commands, c)
      /\ t.m_nextCommandId = s.m_nextCommandId /\ t.slots = s.slots /\ t.controllers = s.controllers
      /\ t.life = u.life /\ t.m_instances = s.m_instances
      /\ SameComponent(s, t) /\ SameTickets(s, t) /\ SameBoundaries(s, t) /\ SameAnswers(s, t)
  BY <1>1, <1>5, <1>6 DEF m, SameButLife, SamePipe, SameScenes, SameComponent, SameTickets,
                          SameBoundaries, SameAnswers
<1>8. \A y \in Scene : /\ s.life[y] \notin Unbuilt => t.life[y] \notin Unbuilt
                       /\ t.life[y] = "Alive" => s.life[y] = "Alive"
  BY <1>1, <1>7
<1>9. Pipeline(t) = Append(Pipeline(s), c) BY <1>0, <1>3, <1>7, PipelineAppend
<1>10. Queue(t) /\ Detaching(t) /\ \A h : ReleaseQueued(s, h) => ReleaseQueued(t, h)
  <2>1. Queue(s) /\ Detaching(s) BY <1>0 DEF Shared, Stranding, Detaching
  <2>2. t.m_spawner = s.m_spawner BY <1>7 DEF SameComponent
  <2> QED BY <1>0, <1>3, <1>7, <1>8, <1>9, <2>1, <2>2, SceneCommandAppended
<1>11. Inv(t, {})
  BY <1>1, <1>5, <1>7, <1>8, <1>10, LifeMoved
<1> QED BY <1>2, <1>11 DEF u

(* The first command is a scene's: popping it loses no slot command.       *)
LEMMA SceneCommandPopped ==
  ASSUME NEW s \in State, NEW t, Queue(s), Detaching(s), Pipeline(s) # <<>>,
         ~Slotted(Pipeline(s)[1]), Pipeline(t) = Tail(Pipeline(s)),
         t.m_nextCommandId = s.m_nextCommandId, t.m_spawner = s.m_spawner,
         t.m_instances = s.m_instances,
         \A x \in Scene : /\ s.life[x] \notin Unbuilt => t.life[x] \notin Unbuilt
                          /\ t.life[x] = "Alive" => s.life[x] \in {"Pending", "Alive"}
  PROVE  Queue(t) /\ Detaching(t) /\ \A h : ReleaseQueued(s, h) => ReleaseQueued(t, h)
<1> DEFINE p == Pipeline(s)
           q == Pipeline(t)
<1>1. SameHandles(s, t) /\ \A h : Holds(s, h) => Holds(t, h)
  BY DEF SameHandles, Recs, Holds, HandleOf
<1>2. Queue(t) BY <1>1, QueuePopped
<1>3. /\ \A i \in 1 .. Len(q) : q[i] = p[i + 1] /\ i + 1 \in 1 .. Len(p)
      /\ \A i \in 1 .. Len(p) : i # 1 => i - 1 \in 1 .. Len(q) /\ q[i - 1] = p[i]
  BY PoppedMembers
<1>4. \A i \in 1 .. Len(p) : Slotted(p[i]) => p[i].slot.scene \in Scene /\ s.life[p[i].slot.scene] \notin Unbuilt
  BY PipelineTyped DEF Queue
<1>5. ASSUME NEW i \in 1 .. Len(q), q[i].type = "Detach", t.life[q[i].slot.scene] = "Alive",
             ~Holds(t, q[i].slot)
      PROVE  s.life[q[i].slot.scene] = "Alive" /\ ~Holds(s, q[i].slot)
  <2>1. Slotted(q[i]) BY <1>5 DEF Slotted, SlotTypes
  <2>2. q[i].slot.scene \in Scene /\ s.life[q[i].slot.scene] \notin Unbuilt BY <1>3, <1>4, <2>1
  <2> QED BY <1>1, <1>5, <2>2 DEF Unbuilt
<1>6. Detaching(t) BY <1>5, DetachingPopped
<1>7. ASSUME NEW h, ReleaseQueued(s, h) PROVE ReleaseQueued(t, h)
  <2>1. PICK k \in 1 .. Len(p) : ReleaseOf(p[k], h) BY <1>7 DEF ReleaseQueued
  <2>2. k # 1 BY <2>1 DEF ReleaseOf, Slotted, SlotTypes
  <2> QED BY <1>3, <2>1, <2>2 DEF ReleaseQueued
<1> QED BY <1>2, <1>6, <1>7

(* A tick's scene command is popped and what it does to the scene's life.  *)
LEMMA SceneProcessed ==
  ASSUME NEW s, NEW valid, Inv(s, {}), s.draining # <<>>,
         NextCommand(s).type \in {"Create", "Destroy"}
  PROVE  LET c == NextCommand(s)
             w == Process(s, valid)
         IN  /\ Inv(w, {}) /\ c.scene \in Scene /\ SameComponent(s, w) /\ w.m_instances = s.m_instances
             /\ (c.type = "Create" /\ s.life[c.scene] = "Pending") =>
                  /\ w.life[c.scene] = IF valid THEN "Alive" ELSE "Erased"
                  /\ Pipeline(w) = Tail(Pipeline(s)) /\ Pipeline(s) # <<>>
                  /\ w.controllers = s.controllers
<1> DEFINE c == NextCommand(s)
           w == Process(s, valid)
           u == PopCommand(s)
           scene == c.scene
<1>0. s \in State /\ Shared(s) BY DEF Inv, Shared
<1>1. c \in SceneCommand
  <2>1. c \in Command BY <1>0, Typed DEF NextCommand
  <2> QED BY <2>1 DEF Command, SlotCommand, SlotTypes
<1>2. /\ u \in State /\ u.m_commands = s.m_commands
      /\ u.m_nextCommandId = s.m_nextCommandId /\ SameScenes(s, u) /\ SameComponent(s, u)
      /\ SameTickets(s, u) /\ SameBoundaries(s, u) /\ SameAnswers(s, u)
      /\ u.m_instances = s.m_instances
      /\ Pipeline(u) = Tail(Pipeline(s)) /\ Pipeline(s) # <<>> /\ Pipeline(s)[1] = c
  BY <1>0, PopEffect DEF NextCommand
<1>3. w = IF c.type = "Create" THEN ProcessCreate(u, c, valid) ELSE ProcessDestroy(u, c)
  BY DEF Process, NextCommand
<1> HIDE DEF c, u, w
<1>4. scene \in Scene /\ ~Slotted(c) /\ c.type \in {"Create", "Destroy"}
  BY <1>1 DEF SceneCommand, Slotted, SlotTypes
<1>5. u.life = s.life /\ u.slots = s.slots /\ u.controllers = s.controllers BY <1>2 DEF SameScenes
<1>6. ASSUME NEW t \in State, SamePipe(u, t), SameComponent(u, t), SameTickets(u, t),
             SameBoundaries(u, t), SameAnswers(u, t), t.m_instances = u.m_instances,
             \A x \in Scene : x # scene => t.slots[x] = s.slots[x] /\ t.life[x] = s.life[x],
             t.slots[scene] \in {s.slots[scene], DormantSlots},
             t.controllers \subseteq s.controllers,
             \A instance \in s.controllers : instance.slot.scene # scene => instance \in t.controllers,
             t.life[scene] = "Alive" =>
               \/ s.life[scene] = "Pending"
               \/ s.life[scene] = "Alive" /\ t.slots = s.slots /\ t.controllers = s.controllers,
             s.life[scene] \notin Unbuilt => t.life[scene] \notin Unbuilt
      PROVE  Inv(t, {}) /\ SameComponent(s, t) /\ t.m_instances = s.m_instances
             /\ Pipeline(t) = Tail(Pipeline(s))
  <2>1. /\ SameComponent(s, t) /\ SameTickets(s, t) /\ SameBoundaries(s, t) /\ SameAnswers(s, t)
        /\ t.m_instances = s.m_instances /\ t.m_spawner = s.m_spawner
        /\ t.m_nextCommandId = s.m_nextCommandId /\ Pipeline(t) = Tail(Pipeline(s))
    BY <1>2, <1>6 DEF SamePipe, SameComponent, SameTickets, SameBoundaries, SameAnswers, Pipeline
  <2>2. \A x \in Scene : /\ s.life[x] \notin Unbuilt => t.life[x] \notin Unbuilt
                         /\ t.life[x] = "Alive" => s.life[x] \in {"Pending", "Alive"}
    BY <1>6
  <2>3. Queue(s) /\ Detaching(s) BY <1>0 DEF Shared, Stranding, Detaching
  <2>4. Queue(t) /\ Detaching(t) /\ \A h : ReleaseQueued(s, h) => ReleaseQueued(t, h)
    BY <1>0, <1>2, <1>4, <2>1, <2>2, <2>3, SceneCommandPopped
  <2>5. Inv(t, {}) BY <1>4, <1>6, <2>1, <2>4, LifeMoved
  <2> QED BY <2>1, <2>5
<1>7. CASE c.type = "Create" /\ s.life[scene] = "Pending"
  <2> DEFINE x == IF valid THEN "Alive" ELSE "Erased"
             t == [u EXCEPT !.life[scene] = x]
  <2>1. w = t BY <1>3, <1>5, <1>7 DEF ProcessCreate
  <2>2. x \in Lives /\ x \notin Unbuilt BY DEF Lives, Unbuilt
  <2> HIDE DEF x
  <2>3. /\ t \in State /\ SameButLife(u, t) /\ t.life[scene] = x
        /\ \A y \in Scene : y # scene => t.life[y] = u.life[y]
    BY <1>2, <1>4, <2>2, LifeWritten
  <2> HIDE DEF t
  <2>4. Inv(t, {}) /\ SameComponent(s, t) /\ t.m_instances = s.m_instances
        /\ Pipeline(t) = Tail(Pipeline(s))
    BY <1>5, <1>6, <1>7, <2>2, <2>3 DEF SameButLife
  <2>5. t.controllers = s.controllers BY <1>5, <2>3 DEF SameButLife
  <2> QED BY <1>2, <1>4, <2>1, <2>3, <2>4, <2>5 DEF x, c, w
<1>8. CASE c.type = "Create" /\ s.life[scene] # "Pending"
  <2>1. w = u BY <1>3, <1>5, <1>8 DEF ProcessCreate
  <2>2. /\ SamePipe(u, u) /\ SameComponent(u, u) /\ SameTickets(u, u)
        /\ SameBoundaries(u, u) /\ SameAnswers(u, u)
    BY DEF SamePipe, SameComponent, SameTickets, SameBoundaries, SameAnswers
  <2>3. Inv(u, {}) /\ SameComponent(s, u) /\ u.m_instances = s.m_instances
    BY <1>2, <1>5, <1>6, <2>2
  <2> QED BY <1>4, <1>8, <2>1, <2>3 DEF c, w
<1>9. CASE c.type = "Destroy"
  <2> DEFINE C == {i \in u.controllers : i.slot.scene # scene}
             a == [u EXCEPT !.life[scene] = "Erased"]
             S == [a.slots EXCEPT ![scene] = DormantSlots]
             b == [a EXCEPT !.slots = S]
             t == [b EXCEPT !.controllers = C]
  <2>1. w = t BY <1>2, <1>3, <1>9 DEF ProcessDestroy, State
  <2>2. /\ a \in State /\ SameButLife(u, a) /\ a.life[scene] = "Erased"
        /\ \A y \in Scene : y # scene => a.life[y] = u.life[y]
    <3>1. "Erased" \in Lives BY DEF Lives
    <3> QED BY <1>2, <1>4, <3>1, LifeWritten
  <2> HIDE DEF a
  <2>3. DormantSlots \in [Slot -> RuntimeSlot]
    BY GenerationAssumption DEF DormantSlots, DormantSlot, RuntimeSlot, Generations, NoEntities
  <2>4. /\ S \in [Scene -> [Slot -> RuntimeSlot]] /\ S[scene] = DormantSlots
        /\ \A y \in Scene : y # scene => S[y] = a.slots[y]
    BY <1>4, <2>2, <2>3, Typed
  <2>5. C \subseteq InstanceHandle BY <1>2, Typed
  <2> HIDE DEF S
  <2>6. b \in State /\ b.slots = S BY <2>2, <2>4 DEF State
  <2>7. /\ b.life = a.life /\ b.controllers = a.controllers /\ SamePipe(a, b) /\ SameComponent(a, b)
        /\ SameTickets(a, b) /\ SameBoundaries(a, b) /\ SameAnswers(a, b)
        /\ b.m_instances = a.m_instances
    BY <2>2 DEF State, SamePipe, SameComponent, SameTickets, SameBoundaries, SameAnswers
  <2> HIDE DEF b, C
  <2>8. t \in State /\ t.controllers = C BY <2>5, <2>6 DEF State
  <2>9. /\ t.life = b.life /\ t.slots = b.slots /\ SamePipe(b, t) /\ SameComponent(b, t)
        /\ SameTickets(b, t) /\ SameBoundaries(b, t) /\ SameAnswers(b, t)
        /\ t.m_instances = b.m_instances
    BY <2>6 DEF State, SamePipe, SameComponent, SameTickets, SameBoundaries, SameAnswers
  <2> HIDE DEF t
  <2>10. /\ SamePipe(u, t) /\ SameComponent(u, t) /\ SameTickets(u, t)
         /\ SameBoundaries(u, t) /\ SameAnswers(u, t) /\ t.m_instances = u.m_instances
    BY <2>2, <2>7, <2>9
    DEF SameButLife, SamePipe, SameComponent, SameTickets, SameBoundaries, SameAnswers
  <2>11. /\ \A x \in Scene : x # scene => t.slots[x] = s.slots[x] /\ t.life[x] = s.life[x]
         /\ t.slots[scene] \in {s.slots[scene], DormantSlots} /\ t.life[scene] = "Erased"
    BY <1>5, <2>2, <2>4, <2>6, <2>7, <2>9 DEF SameButLife
  <2>12. /\ t.controllers \subseteq s.controllers
         /\ \A instance \in s.controllers : instance.slot.scene # scene => instance \in t.controllers
    BY <1>5, <2>8 DEF C
  <2>13. Inv(t, {}) /\ SameComponent(s, t) /\ t.m_instances = s.m_instances
    BY <1>6, <2>8, <2>10, <2>11, <2>12 DEF Unbuilt
  <2> QED BY <1>4, <1>9, <2>1, <2>13 DEF c, w
<1> QED BY <1>4, <1>7, <1>8, <1>9

-----------------------------------------------------------------------------
(* The component's lifecycle                                               *)

SameButComponent(s, t) ==
  /\ SameScenes(s, t) /\ SamePipe(s, t) /\ SameTickets(s, t) /\ SameBoundaries(s, t)
  /\ SameAnswers(s, t) /\ t.m_nextSpawnRequest = s.m_nextSpawnRequest
  /\ t.m_nextDespawnRequest = s.m_nextDespawnRequest

(* Without records the component's state may change, within what it says   *)
(* of its scene.                                                           *)
LEMMA LifecycleMoved ==
  ASSUME NEW s, NEW t \in State, Inv(s, {}), SameButComponent(s, t), Recs(s) = {}, Recs(t) = {},
         t.m_lifecycle # "Ready" => t.m_spawner = NoScene,
         t.m_lifecycle = "Registering" => t.m_nextSpawnRequest + InitialSpawnCount <= MaxSpawns + 1,
         t.m_lifecycle = "Ready" =>
           /\ t.m_spawner \in Scene /\ t.life[t.m_spawner] \notin Unbuilt
           /\ \A i \in 1 .. Len(Pipeline(s)) :
                Slotted(Pipeline(s)[i]) => Pipeline(s)[i].slot.scene # t.m_spawner
           /\ \A instance \in s.controllers : instance.slot.scene # t.m_spawner
  PROVE  Inv(t, {})
<1>0. s \in State /\ Shared(s) BY DEF Inv, Shared
<1>1. /\ t.life = s.life /\ t.slots = s.slots /\ t.controllers = s.controllers
      /\ Pipeline(t) = Pipeline(s) /\ t.m_nextCommandId = s.m_nextCommandId
      /\ t.queued = s.queued /\ t.answers = s.answers /\ t.despawnAnswers = s.despawnAnswers
      /\ SameTickets(s, t) /\ SameBoundaries(s, t) /\ SameAnswers(s, t)
      /\ t.m_nextSpawnRequest = s.m_nextSpawnRequest
      /\ t.m_nextDespawnRequest = s.m_nextDespawnRequest
  BY DEF SameButComponent, SameScenes, SamePipe, SameAnswers, Pipeline
<1>2. Lifecycle(t) BY <1>0, <1>1 DEF Shared, Lifecycle
<1>3. Answering(t) BY <1>0, <1>1 DEF Shared, Answering
<1>4. Boundaries(t) BY <1>0, <1>1, BoundariesKept DEF Shared
<1>5. Tickets(t) BY <1>0, <1>1, TicketsKept DEF Shared
<1>6. \A i \in 1 .. Len(Pipeline(t)) : Slotted(Pipeline(t)[i]) => Pipeline(t)[i].slot.scene # t.m_spawner
  BY <1>0, <1>1, PipelineTyped, Numbers
<1>7. Queue(t) BY <1>0, <1>1, <1>6 DEF Shared, Queue
<1>8. \A instance \in t.controllers : instance.slot.scene # t.m_spawner \/ ~Living(t)
  BY <1>1, Numbers DEF Living
<1>9. Leases(t) BY <1>0, <1>1, <1>8 DEF Shared, Leases
<1>10. \A h : Holds(t, h) <=> Holds(s, h) BY DEF Holds
<1>11. Stranding(t) BY <1>0, <1>1, <1>10 DEF Shared, Stranding, HasControllers
<1> QED BY <1>2, <1>3, <1>4, <1>5, <1>7, <1>9, <1>11 DEF Inv, Shared

(* Writing the lifecycle.                                                  *)
LEMMA LifecycleWritten ==
  ASSUME NEW s \in State, NEW x \in {"Inactive", "Registering", "Ready", "Failed"}
  PROVE  LET t == [s EXCEPT !.m_lifecycle = x] IN
         /\ t \in State /\ SameButComponent(s, t) /\ t.m_instances = s.m_instances
         /\ t.m_lifecycle = x /\ t.m_spawner = s.m_spawner
<1> DEFINE t == [s EXCEPT !.m_lifecycle = x]
<1>1. t \in State BY DEF State
<1>2. /\ SameButComponent(s, t) /\ t.m_instances = s.m_instances
      /\ t.m_lifecycle = x /\ t.m_spawner = s.m_spawner
  BY DEF State, SameButComponent, SameScenes, SamePipe, SameTickets, SameBoundaries, SameAnswers
<1> QED BY <1>1, <1>2

(* Writing the lifecycle and the scene.                                    *)
LEMMA ComponentWritten ==
  ASSUME NEW s \in State, NEW x \in {"Inactive", "Registering", "Ready", "Failed"},
         NEW scene \in Scene \union {NoScene}
  PROVE  LET t == [s EXCEPT !.m_lifecycle = x, !.m_spawner = scene] IN
         /\ t \in State /\ SameButComponent(s, t) /\ t.m_instances = s.m_instances
         /\ t.m_lifecycle = x /\ t.m_spawner = scene
<1> DEFINE t == [s EXCEPT !.m_lifecycle = x, !.m_spawner = scene]
<1>1. t \in State BY DEF State
<1>2. /\ SameButComponent(s, t) /\ t.m_instances = s.m_instances
      /\ t.m_lifecycle = x /\ t.m_spawner = scene
  BY DEF State, SameButComponent, SameScenes, SamePipe, SameTickets, SameBoundaries, SameAnswers
<1> QED BY <1>1, <1>2

(* The registration fails.                                                 *)
LEMMA RegistrationFailedKeeps ==
  ASSUME NEW s, NEW scene, Inv(s, {})
  PROVE  /\ s.m_lifecycle = "Registering" => Inv([s EXCEPT !.m_lifecycle = "Failed"], {})
         /\ Inv(OnScenePolytreeRegistrationFailed(s, scene), {})
<1>1. ASSUME s.m_lifecycle = "Registering" PROVE Inv([s EXCEPT !.m_lifecycle = "Failed"], {})
  <2> DEFINE t == [s EXCEPT !.m_lifecycle = "Failed"]
  <2>1. s \in State /\ Recs(s) = {} /\ s.m_spawner = NoScene BY <1>1 DEF Inv, Shared, Lifecycle
  <2>2. /\ t \in State /\ SameButComponent(s, t) /\ t.m_instances = s.m_instances
        /\ t.m_lifecycle = "Failed" /\ t.m_spawner = s.m_spawner
    <3>1. "Failed" \in {"Inactive", "Registering", "Ready", "Failed"} OBVIOUS
    <3> QED BY <2>1, <3>1, LifecycleWritten, Zenon
  <2> HIDE DEF t
  <2>3. Recs(t) = {} BY <2>1, <2>2 DEF Recs
  <2>4. Inv(t, {}) BY <2>1, <2>2, <2>3, LifecycleMoved
  <2> QED BY <2>4 DEF t
<1> QED BY <1>1 DEF OnScenePolytreeRegistrationFailed

(* The registration is ready: the scene is the component's, and the        *)
(* initial spawns begin.                                                   *)
LEMMA RegistrationReadyKeeps ==
  ASSUME NEW s, NEW scene \in Scene, NEW usable, Inv(s, {}), s.life[scene] = "Alive",
         \A i \in 1 .. Len(Pipeline(s)) :
           Slotted(Pipeline(s)[i]) => Pipeline(s)[i].slot.scene # scene,
         \A instance \in s.controllers : instance.slot.scene # scene
  PROVE  Inv(OnScenePolytreeRegistrationReady(s, scene, usable), {})
<1> DEFINE t == [s EXCEPT !.m_lifecycle = "Ready", !.m_spawner = scene]
<1>1. CASE s.m_lifecycle # "Registering" \/ scene # SceneOf(s.m_generation)
  BY <1>1 DEF OnScenePolytreeRegistrationReady
<1>2. CASE s.m_lifecycle = "Registering" /\ scene = SceneOf(s.m_generation) /\ ~usable
  <2>1. OnScenePolytreeRegistrationReady(s, scene, usable) = [s EXCEPT !.m_lifecycle = "Failed"]
    BY <1>2 DEF OnScenePolytreeRegistrationReady
  <2> QED BY <1>2, <2>1, RegistrationFailedKeeps
<1>3. CASE s.m_lifecycle = "Registering" /\ scene = SceneOf(s.m_generation) /\ usable
  <2>0. OnScenePolytreeRegistrationReady(s, scene, usable) = BeginInitialSpawns(t)
    BY <1>3 DEF OnScenePolytreeRegistrationReady
  <2>1. /\ s \in State /\ Recs(s) = {} /\ s.m_spawner = NoScene
        /\ s.m_nextSpawnRequest + InitialSpawnCount <= MaxSpawns + 1
    BY <1>3 DEF Inv, Shared, Lifecycle
  <2>2. /\ t \in State /\ SameButComponent(s, t) /\ t.m_instances = s.m_instances
        /\ t.m_lifecycle = "Ready" /\ t.m_spawner = scene
    <3>1. "Ready" \in {"Inactive", "Registering", "Ready", "Failed"} OBVIOUS
    <3> QED BY <2>1, <3>1, ComponentWritten, Zenon
  <2> HIDE DEF t
  <2>3. Recs(t) = {} BY <2>1, <2>2 DEF Recs
  <2>4. t.life = s.life /\ t.m_nextSpawnRequest = s.m_nextSpawnRequest
    BY <2>2 DEF SameButComponent, SameScenes
  <2>5. Inv(t, {}) BY <2>1, <2>2, <2>3, <2>4, LifecycleMoved DEF Unbuilt
  <2>6. Inv(BeginInitialSpawns(t), {}) BY <2>1, <2>2, <2>4, <2>5, BeginInitialSpawnsKeeps
  <2> QED BY <2>0, <2>6
<1> QED BY <1>1, <1>2, <1>3

(* A tick's scene command and what the component makes of it.              *)
LEMMA SceneCommandKeeps ==
  ASSUME NEW s, NEW valid, NEW usable, Inv(s, {}), s.draining # <<>>,
         NextCommand(s).type \in {"Create", "Destroy"}
  PROVE  LET c == NextCommand(s)
             w == Process(s, valid)
         IN  Inv(IF c.type = "Destroy" \/ s.life[c.scene] # "Pending" THEN w
                 ELSE IF w.life[c.scene] = "Alive"
                 THEN OnScenePolytreeRegistrationReady(w, c.scene, usable)
                 ELSE OnScenePolytreeRegistrationFailed(w, c.scene), {})
<1> DEFINE c == NextCommand(s)
           w == Process(s, valid)
<1>0. s \in State /\ Shared(s) BY DEF Inv, Shared
<1>1. /\ Inv(w, {}) /\ c.scene \in Scene
      /\ (c.type = "Create" /\ s.life[c.scene] = "Pending") =>
           /\ Pipeline(w) = Tail(Pipeline(s)) /\ Pipeline(s) # <<>>
           /\ w.controllers = s.controllers
  BY SceneProcessed
<1>2. c.type \in {"Create", "Destroy"} OBVIOUS
<1> HIDE DEF c, w
<1>3. CASE c.type = "Create" /\ s.life[c.scene] = "Pending" /\ w.life[c.scene] = "Alive"
  <2>1. s.life[c.scene] \in Unbuilt BY <1>3 DEF Unbuilt
  <2>2. \A i \in 1 .. Len(Pipeline(s)) :
          Slotted(Pipeline(s)[i]) => Pipeline(s)[i].slot.scene # c.scene
    BY <1>0, <2>1 DEF Shared, Queue
  <2>3. \A i \in 1 .. Len(Pipeline(w)) :
          Slotted(Pipeline(w)[i]) => Pipeline(w)[i].slot.scene # c.scene
    BY <1>0, <1>1, <1>3, <2>2, PoppedMembers
  <2>4. \A instance \in w.controllers : instance.slot.scene # c.scene
    BY <1>0, <1>1, <1>3, <2>1 DEF Shared, Leases
  <2>5. Inv(OnScenePolytreeRegistrationReady(w, c.scene, usable), {})
    BY <1>1, <1>3, <2>3, <2>4, RegistrationReadyKeeps
  <2> QED BY <1>3, <2>5 DEF c, w
<1>4. Inv(OnScenePolytreeRegistrationFailed(w, c.scene), {}) BY <1>1, RegistrationFailedKeeps
<1> QED BY <1>1, <1>2, <1>3, <1>4 DEF c, w

-----------------------------------------------------------------------------
(* The spawn service                                                       *)

(* All that a step of the service for request r may change.                *)
ServedRequest(s, t, r) ==
  /\ SameScenes(s, t) /\ SamePipe(s, t) /\ SameComponent(s, t)
  /\ t.m_instances = s.m_instances /\ t.answers = s.answers
  /\ t.despawnAnswers = s.despawnAnswers /\ t.cancelled = s.cancelled
  /\ \A q \in Requests : q # r =>
       /\ t.service[q] = s.service[q] /\ (q \in t.entities <=> q \in s.entities)
       /\ t.boundary[q] = s.boundary[q] /\ t.prepared[q] = s.prepared[q]
  /\ \/ t.queued = s.queued
     \/ /\ NoCallback(s, r)
        /\ \E f \in SpawnedFunction \union DespawnedFunction :
             f.request.value = r /\ t.queued = Append(s.queued, f)

(* What must be shown of the request's ticket and boundary after it.       *)
ServedWell(t, r) ==
  /\ LET v == t.service[r] IN
     /\ Len(v) <= 2
     /\ Len(v) = 2 => v[2].op = "Drop" /\ v[1].op # "Drop"
     /\ (r \notin Recs(t) /\ (r \in t.entities \/ v # <<>>)) => v # <<>> /\ v[Len(v)].op = "Drop"
     /\ r < t.m_nextSpawnRequest
  /\ r \in t.cancelled => t.boundary[r] = "Cancelled"
  /\ (t.answers[r] = <<"Succeeded">> \/ t.prepared[r] = "yes") => t.boundary[r] = "Committed"
  /\ \A i \in 1 .. Len(t.queued) :
       (IsCallback(t.queued[i]) /\ t.queued[i].request.value = r) =>
         /\ t.service[r] # <<>> => t.service[r][1].op = "Drop"
         /\ (t.queued[i].kind = "Spawned" /\ ~t.queued[i].error) => t.boundary[r] = "Committed"
  /\ r \in Recs(t) => Fits(t, r, t.m_instances[r].state)

(* That is enough.                                                         *)
LEMMA ServiceKeeps ==
  ASSUME NEW s, NEW t \in State, NEW r \in Requests, Inv(s, {}), ServedRequest(s, t, r),
         ServedWell(t, r)
  PROVE  Inv(t, {})
<1>0. s \in State /\ Shared(s) BY DEF Inv, Shared
<1>1. /\ SameScenes(s, t) /\ SamePipe(s, t) /\ SameComponent(s, t)
      /\ t.m_instances = s.m_instances /\ t.answers = s.answers
      /\ t.despawnAnswers = s.despawnAnswers /\ t.cancelled = s.cancelled
      /\ \A q \in Requests : q # r =>
           /\ t.service[q] = s.service[q] /\ (q \in t.entities <=> q \in s.entities)
           /\ t.boundary[q] = s.boundary[q] /\ t.prepared[q] = s.prepared[q]
  BY DEF ServedRequest
<1>2. Recs(t) = Recs(s) /\ SameHandles(s, t) /\ NoNewLife(s, t) /\ Pipeline(t) = Pipeline(s)
      /\ t.m_spawner = s.m_spawner /\ t.m_nextSpawnRequest = s.m_nextSpawnRequest
      /\ t.m_nextDespawnRequest = s.m_nextDespawnRequest /\ t.m_nextCommandId = s.m_nextCommandId
  BY <1>1 DEF Recs, SameHandles, NoNewLife, SameScenes, SamePipe, Pipeline, SameComponent
<1>3. Lifecycle(t) BY <1>0, <1>1, <1>2, LifecycleKept DEF Shared
<1>4. Queue(t)
  BY <1>0, <1>1, <1>2, QueueKept DEF Shared
<1>5. Leases(t) BY <1>0, <1>1, <1>2, LeasesKept DEF Shared, SameScenes
<1>6. Stranding(t) BY <1>0, <1>1, <1>2, StrandingKept DEF Shared, SameScenes
<1>7. Len(s.queued) \in Nat /\ Len(t.queued) \in Nat
      /\ (\A i \in 1 .. Len(s.queued) : IsCallback(s.queued[i]) => s.queued[i].request.value \in Requests)
      /\ (\A i \in 1 .. Len(t.queued) : IsCallback(t.queued[i]) => t.queued[i].request.value \in Requests)
  BY <1>0, QueuedTyped
<1>8. \A i \in 1 .. Len(t.queued) :
        \/ i \in 1 .. Len(s.queued) /\ t.queued[i] = s.queued[i]
        \/ /\ NoCallback(s, r) /\ i = Len(s.queued) + 1
           /\ IsCallback(t.queued[i]) /\ t.queued[i].request.value = r
  <2>1. CASE t.queued = s.queued BY <2>1
  <2>2. CASE /\ NoCallback(s, r)
             /\ \E f \in SpawnedFunction \union DespawnedFunction :
                  f.request.value = r /\ t.queued = Append(s.queued, f)
    <3>1. PICK f \in SpawnedFunction \union DespawnedFunction :
            f.request.value = r /\ t.queued = Append(s.queued, f)
      BY <2>2
    <3>2. IsCallback(f) BY DEF SpawnedFunction, DespawnedFunction, IsCallback
    <3>3. /\ Len(t.queued) = Len(s.queued) + 1 /\ t.queued[Len(s.queued) + 1] = f
          /\ \A i \in 1 .. Len(s.queued) : t.queued[i] = s.queued[i]
      BY <1>0, <3>1, QueuedTyped
    <3> QED BY <1>7, <2>2, <3>1, <3>2, <3>3
  <2> QED BY <2>1, <2>2 DEF ServedRequest
<1>9. \A i \in 1 .. Len(t.queued) : ~IsCallback(t.queued[i]) \/ t.queued[i].request.value # r =>
        i \in 1 .. Len(s.queued) /\ t.queued[i] = s.queued[i]
  BY <1>8
<1>10. Answering(t)
  <2>1. ASSUME NEW i \in 1 .. Len(t.queued), NEW j \in 1 .. Len(t.queued),
               Purpose(t.queued[i]) = Purpose(t.queued[j])
        PROVE  i = j
    <3>1. CASE i \in 1 .. Len(s.queued) /\ t.queued[i] = s.queued[i]
               /\ j \in 1 .. Len(s.queued) /\ t.queued[j] = s.queued[j]
      BY <1>0, <2>1, <3>1 DEF Shared, Answering
    <3>2. ASSUME NEW k \in 1 .. Len(s.queued), NEW f, IsCallback(f), f.request.value = r,
                 NoCallback(s, r), Purpose(s.queued[k]) = Purpose(f)
          PROVE  FALSE
      <4>1. Purpose(f) = <<"Ticket", r>> BY <3>2 DEF Purpose
      <4>2. IsCallback(s.queued[k]) => s.queued[k].request.value # r BY <3>2 DEF NoCallback
      <4>3. ~IsCallback(s.queued[k]) => s.queued[k].kind \in {"SpawnFailed", "DespawnFailed"}
        BY <1>0, QueuedTyped DEF IsCallback
      <4> QED BY <3>2, <4>1, <4>2, <4>3 DEF Purpose
    <3> QED BY <1>8, <2>1, <3>1, <3>2
  <2>2. \A i \in 1 .. Len(t.queued) :
          /\ t.queued[i].kind = "SpawnFailed" =>
               /\ t.queued[i].answers < t.m_nextSpawnRequest /\ t.answers[t.queued[i].answers] = <<>>
               /\ t.queued[i].answers \notin Recs(t)
          /\ t.queued[i].kind = "DespawnFailed" =>
               /\ t.queued[i].answers < t.m_nextDespawnRequest
               /\ t.despawnAnswers[t.queued[i].answers] = <<>>
               /\ \A x \in Recs(t) : t.m_instances[x].despawn # t.queued[i].answers
    BY <1>0, <1>1, <1>2, <1>9 DEF Shared, Answering, IsCallback
  <2> QED BY <1>0, <1>1, <1>2, <2>1, <2>2 DEF Shared, Answering
<1>11. Boundaries(t)
  <2>1. ASSUME NEW q \in t.cancelled PROVE t.boundary[q] = "Cancelled"
    <3>1. q \in Requests /\ q \in s.cancelled BY <1>0, <1>1, Typed
    <3>2. CASE q = r BY <3>2, <2>1 DEF ServedWell
    <3>3. CASE q # r
      <4>1. s.boundary[q] = "Cancelled" BY <1>0, <3>1 DEF Shared, Boundaries
      <4> QED BY <1>1, <3>1, <3>3, <4>1
    <3> QED BY <3>2, <3>3
  <2>2. \A q \in Requests :
          (t.answers[q] = <<"Succeeded">> \/ t.prepared[q] = "yes") => t.boundary[q] = "Committed"
    BY <1>0, <1>1 DEF Shared, Boundaries, ServedWell
  <2>3. ASSUME NEW i \in 1 .. Len(t.queued), t.queued[i].kind = "Spawned", ~t.queued[i].error
        PROVE  t.boundary[t.queued[i].request.value] = "Committed"
    <3>1. IsCallback(t.queued[i]) /\ t.queued[i].request.value \in Requests
      BY <1>7, <2>3 DEF IsCallback
    <3>2. CASE t.queued[i].request.value = r BY <2>3, <3>1, <3>2 DEF ServedWell
    <3>3. CASE t.queued[i].request.value # r
      BY <1>0, <1>1, <1>9, <2>3, <3>1, <3>3 DEF Shared, Boundaries
    <3> QED BY <3>2, <3>3
  <2> QED BY <2>1, <2>2, <2>3 DEF Boundaries
<1>12. Tickets(t)
  <2>1. ASSUME NEW q \in Requests
        PROVE  LET v == t.service[q] IN
               /\ Len(v) <= 2
               /\ Len(v) = 2 => v[2].op = "Drop" /\ v[1].op # "Drop"
               /\ (q \notin Recs(t) /\ (q \in t.entities \/ v # <<>>)) => v # <<>> /\ v[Len(v)].op = "Drop"
               /\ q >= t.m_nextSpawnRequest => v = <<>> /\ q \notin t.entities
    <3>1. CASE q = r
      <4>1. ~(r >= t.m_nextSpawnRequest)
        <5>1. r < t.m_nextSpawnRequest BY DEF ServedWell
        <5> QED BY <5>1, Typed, Numbers
      <4> QED BY <3>1, <4>1 DEF ServedWell
    <3>2. CASE q # r BY <1>0, <1>1, <1>2, <3>2 DEF Shared, Tickets
    <3> QED BY <3>1, <3>2
  <2>2. ASSUME NEW i \in 1 .. Len(t.queued), IsCallback(t.queued[i])
        PROVE  LET q == t.queued[i].request.value IN
               /\ q < t.m_nextSpawnRequest
               /\ t.service[q] # <<>> => t.service[q][1].op = "Drop"
    <3>1. CASE t.queued[i].request.value = r BY <2>2, <3>1 DEF ServedWell
    <3>2. CASE t.queued[i].request.value # r
      <4> DEFINE q == t.queued[i].request.value
      <4>1. i \in 1 .. Len(s.queued) /\ t.queued[i] = s.queued[i] /\ q \in Requests
        BY <1>7, <1>9, <2>2, <3>2
      <4>2. q < s.m_nextSpawnRequest /\ (s.service[q] # <<>> => s.service[q][1].op = "Drop")
        BY <1>0, <2>2, <4>1 DEF Shared, Tickets
      <4>3. t.service[q] = s.service[q] BY <1>1, <3>2, <4>1
      <4> QED BY <1>2, <4>2, <4>3
    <3> QED BY <3>1, <3>2
  <2> QED BY <2>1, <2>2 DEF Tickets
<1>13. ASSUME NEW q \in Recs(t) PROVE Fits(t, q, t.m_instances[q].state)
  <2>1. CASE q = r BY <1>13, <2>1 DEF ServedWell
  <2>2. CASE q # r
    <3>1. q \in Recs(s) /\ q \in Requests /\ Fits(s, q, s.m_instances[q].state)
          /\ t.m_instances[q] = s.m_instances[q]
      BY <1>0, <1>1, <1>2, RecordTyped DEF Inv
    <3>2. \A i \in 1 .. Len(t.queued) :
            (IsCallback(t.queued[i]) /\ t.queued[i].request.value = q) =>
              \E j \in 1 .. Len(s.queued) : s.queued[j] = t.queued[i]
      BY <1>9, <2>2
    <3>3. Living(t) <=> Living(s) BY <1>1, <1>2 DEF Living, SameScenes
    <3>4. Undisturbed(s, t, q)
      BY <1>1, <1>2, <2>2, <3>1, <3>2, <3>3 DEF Undisturbed, SameScenes
    <3> QED BY ONLY <3>1, <3>4, OthersFit
  <2> QED BY <2>1, <2>2
<1> QED BY <1>3, <1>4, <1>5, <1>6, <1>10, <1>11, <1>12, <1>13 DEF Inv, Shared

(* The fields such a step writes.                                          *)
Serve(s, r, v, b, p, E, Q) ==
  [s EXCEPT !.service = [s.service EXCEPT ![r] = v], !.boundary = [s.boundary EXCEPT ![r] = b],
            !.prepared = [s.prepared EXCEPT ![r] = p], !.entities = E, !.queued = Q]

ServeWrites(s, t, r, v, b, p, E, Q) ==
  /\ t \in State /\ SameScenes(s, t) /\ SamePipe(s, t) /\ SameComponent(s, t)
  /\ t.m_instances = s.m_instances /\ t.answers = s.answers
  /\ t.despawnAnswers = s.despawnAnswers /\ t.cancelled = s.cancelled
  /\ t.service[r] = v /\ t.boundary[r] = b /\ t.prepared[r] = p
  /\ t.entities = E /\ t.queued = Q
  /\ \A q \in Requests : q # r => /\ t.service[q] = s.service[q] /\ t.boundary[q] = s.boundary[q]
                                  /\ t.prepared[q] = s.prepared[q]

(* What they are afterwards.                                               *)
LEMMA ServeEffect ==
  ASSUME NEW s \in State, NEW r \in Requests, NEW v \in Seq(ServiceRequest),
         NEW b \in {"Cancelable", "Cancelled", "Committed"}, NEW p \in {"no", "yes", "error"},
         NEW E \in SUBSET Requests, NEW Q \in Seq(Function)
  PROVE  ServeWrites(s, Serve(s, r, v, b, p, E, Q), r, v, b, p, E, Q)
<1> DEFINE V == [s.service EXCEPT ![r] = v]
           B == [s.boundary EXCEPT ![r] = b]
           P == [s.prepared EXCEPT ![r] = p]
           t == [s EXCEPT !.service = V, !.boundary = B, !.prepared = P, !.entities = E, !.queued = Q]
<1>1. V \in [Requests -> Seq(ServiceRequest)] /\ V[r] = v
      /\ \A q \in Requests : q # r => V[q] = s.service[q]
  BY Typed
<1>2. B \in [Requests -> {"Cancelable", "Cancelled", "Committed"}] /\ B[r] = b
      /\ \A q \in Requests : q # r => B[q] = s.boundary[q]
  BY Typed
<1>3. P \in [Requests -> {"no", "yes", "error"}] /\ P[r] = p
      /\ \A q \in Requests : q # r => P[q] = s.prepared[q]
  BY Typed
<1>4. t = Serve(s, r, v, b, p, E, Q) BY DEF Serve
<1> HIDE DEF V, B, P
<1>5. t \in State /\ t.service = V /\ t.boundary = B /\ t.prepared = P /\ t.entities = E /\ t.queued = Q
  BY <1>1, <1>2, <1>3 DEF State
<1>6. /\ SameScenes(s, t) /\ SamePipe(s, t) /\ SameComponent(s, t)
      /\ t.m_instances = s.m_instances /\ t.answers = s.answers
      /\ t.despawnAnswers = s.despawnAnswers /\ t.cancelled = s.cancelled
  BY DEF State, SameScenes, SamePipe, SameComponent
<1> HIDE DEF t
<1> QED BY <1>1, <1>2, <1>3, <1>4, <1>5, <1>6 DEF ServeWrites

(* What the service's queue of a ticket tells.                             *)
LEMMA ServiceHead ==
  ASSUME NEW s, NEW r \in Requests, Inv(s, {}), s.service[r] # <<>>, NEW v, v = s.service[r]
  PROVE  /\ r < s.m_nextSpawnRequest /\ v \in Seq(ServiceRequest) /\ Head(v) = v[1]
         /\ v[1] \in ServiceRequest /\ v[1].generation \in Nat /\ Len(v) \in {1, 2}
         /\ Tail(v) \in Seq(ServiceRequest)
         /\ Len(v) = 1 => Tail(v) = <<>>
         /\ Len(v) = 2 => /\ v[2].op = "Drop" /\ v[1].op # "Drop"
                          /\ Len(Tail(v)) = 1 /\ Tail(v)[1] = v[2]
         /\ r \notin Recs(s) => v[Len(v)].op = "Drop"
         /\ r \in Recs(s) =>
              /\ Len(v) = 1 /\ s.m_instances[r].ticket
              /\ \/ /\ s.m_instances[r].state = "Spawning" /\ v[1].op \in {"Spawn", "Insert"}
                    /\ r \notin s.entities
                 \/ s.m_instances[r].state = "DespawningEntities" /\ v[1].op = "Despawn"
         /\ v[1].op # "Drop" => NoCallback(s, r)
<1>0. s \in State /\ Shared(s) /\ Tickets(s) BY DEF Inv, Shared
<1>1. v \in Seq(ServiceRequest) /\ v # <<>> BY <1>0, Typed
<1>2. /\ Tail(v) \in Seq(ServiceRequest) /\ Len(Tail(v)) = Len(v) - 1 /\ Len(v) \in Nat \ {0}
      /\ Head(v) = v[1] /\ v[1] \in ServiceRequest
      /\ \A i \in 1 .. Len(v) - 1 : Tail(v)[i] = v[i + 1]
  BY <1>1, Shifted
<1>3. /\ Len(v) <= 2 /\ (Len(v) = 2 => v[2].op = "Drop" /\ v[1].op # "Drop")
      /\ (r \notin Recs(s) => v[Len(v)].op = "Drop")
      /\ ~(r >= s.m_nextSpawnRequest)
  BY <1>0, <1>1 DEF Tickets
<1>4. r < s.m_nextSpawnRequest BY <1>0, <1>3, Typed, Numbers
<1>5. ASSUME Len(v) = 1 PROVE Tail(v) = <<>>
  <2>1. Len(Tail(v)) = 0 BY <1>2, <1>5
  <2>2. Tail(v) # <<>> => Len(Tail(v)) \in Nat \ {0} BY <1>2, EmptySeq, Zenon
  <2> QED BY <2>1, <2>2
<1>6. ASSUME Len(v) = 2 PROVE Len(Tail(v)) = 1 /\ Tail(v)[1] = v[2]
  <2>1. Tail(v)[1] = v[1 + 1] BY <1>2, <1>6
  <2> QED BY <1>2, <1>6, <2>1
<1>7. v[1].op # "Drop" => NoCallback(s, r) BY <1>0, <1>1 DEF Tickets, NoCallback
<1>8. ASSUME r \in Recs(s)
      PROVE  /\ Len(v) = 1 /\ s.m_instances[r].ticket
             /\ \/ /\ s.m_instances[r].state = "Spawning" /\ v[1].op \in {"Spawn", "Insert"}
                   /\ r \notin s.entities
                \/ s.m_instances[r].state = "DespawningEntities" /\ v[1].op = "Despawn"
  <2>1. TicketIn(s, r, s.m_instances[r].state) BY <1>8 DEF Inv, Fits
  <2>2. Len(v) <= 1 /\ s.m_instances[r].ticket
        /\ \/ /\ s.m_instances[r].state = "Spawning" /\ v[1].op \in {"Spawn", "Insert"}
              /\ r \notin s.entities
           \/ s.m_instances[r].state = "DespawningEntities" /\ v[1].op = "Despawn"
    BY <1>1, <2>1 DEF TicketIn
  <2>3. Len(v) = 1 BY ONLY <1>2, <2>2
  <2> QED BY ONLY <2>2, <2>3
<1>9. v[1].generation \in Nat BY <1>2 DEF ServiceRequest
<1>10. Len(v) \in {1, 2} BY ONLY <1>2, <1>3
<1> QED BY ONLY <1>1, <1>2, <1>3, <1>4, <1>5, <1>6, <1>7, <1>8, <1>9, <1>10

(* A record whose ticket the service has only sees its ticket change.      *)
LEMMA FitsServed ==
  ASSUME NEW s, NEW t, NEW r, NEW state \in {"Spawning", "DespawningEntities"},
         Fits(s, r, state), SameScenes(s, t), t.m_spawner = s.m_spawner,
         t.m_instances = s.m_instances, t.answers = s.answers, TicketIn(t, r, state)
  PROVE  Fits(t, r, state)
<1>1. Owes(t, r, state) BY DEF Fits, Owes
<1>2. SlotIn(t, r, state)
  <2>1. Living(t) <=> Living(s) BY DEF Living, SameScenes
  <2>2. HandleOf(t, r) = HandleOf(s, r) BY DEF HandleOf
  <2>3. SlotOf(t, r) = SlotOf(s, r) BY <2>2 DEF SlotOf, SameScenes
  <2>4. FindSlot(t, HandleOf(t, r)) <=> FindSlot(s, HandleOf(s, r)) BY <2>2 DEF FindSlot, SameScenes
  <2>5. SlotIn(s, r, state) BY DEF Fits
  <2> QED BY <2>1, <2>3, <2>4, <2>5, SlotInOf DEF SameScenes
<1> QED BY <1>1, <1>2 DEF Fits

(* The step is one of those, with the given values.                        *)
LEMMA ServeRequest ==
  ASSUME NEW s, NEW r \in Requests, Inv(s, {}), NEW v \in Seq(ServiceRequest),
         NEW b \in {"Cancelable", "Cancelled", "Committed"}, NEW p \in {"no", "yes", "error"},
         NEW E \in SUBSET Requests, NEW Q \in Seq(Function),
         \A q \in Requests : q # r => (q \in E <=> q \in s.entities),
         \/ Q = s.queued
         \/ /\ NoCallback(s, r)
            /\ \E f \in SpawnedFunction \union DespawnedFunction :
                 f.request.value = r /\ Q = Append(s.queued, f),
         ServedWell(Serve(s, r, v, b, p, E, Q), r)
  PROVE  Inv(Serve(s, r, v, b, p, E, Q), {})
<1> DEFINE t == Serve(s, r, v, b, p, E, Q)
<1>1. s \in State BY DEF Inv, Shared
<1>2. /\ t \in State /\ SameScenes(s, t) /\ SamePipe(s, t) /\ SameComponent(s, t)
      /\ t.m_instances = s.m_instances /\ t.answers = s.answers
      /\ t.despawnAnswers = s.despawnAnswers /\ t.cancelled = s.cancelled
      /\ t.entities = E /\ t.queued = Q
      /\ \A q \in Requests : q # r => /\ t.service[q] = s.service[q] /\ t.boundary[q] = s.boundary[q]
                                      /\ t.prepared[q] = s.prepared[q]
  <2>1. ServeWrites(s, t, r, v, b, p, E, Q) BY <1>1, ServeEffect
  <2> HIDE DEF t
  <2> QED BY <2>1 DEF ServeWrites
<1>3. ServedWell(t, r) OBVIOUS
<1> HIDE DEF t
<1>4. ServedRequest(s, t, r) BY <1>2 DEF ServedRequest
<1>5. Inv(t, {}) BY <1>2, <1>3, <1>4, ServiceKeeps
<1> QED BY <1>5 DEF t

(* What ServicePrepares does.                                              *)
PrepareStep(s, r, valid) == [Prepare(s, r, valid) EXCEPT !.service[r][1].op = "Insert"]
(* PreparePrefabInstance commits an open boundary.                         *)
LEMMA PreparesKeeps ==
  ASSUME NEW s, NEW r \in Requests, NEW valid, Inv(s, {}), s.service[r] # <<>>,
         Head(s.service[r]).op = "Spawn"
  PROVE  Inv(PrepareStep(s, r, valid), {})
<1> DEFINE v == s.service[r]
           open == s.boundary[r] = "Cancelable"
           b == IF open THEN "Committed" ELSE s.boundary[r]
           p == IF open THEN (IF valid THEN "yes" ELSE "error") ELSE s.prepared[r]
           w == [v EXCEPT ![1].op = "Insert"]
           t == Serve(s, r, w, b, p, s.entities, s.queued)
<1>0. s \in State /\ Shared(s) BY DEF Inv, Shared
<1>1. /\ r < s.m_nextSpawnRequest /\ v \in Seq(ServiceRequest) /\ Head(v) = v[1]
      /\ v[1] \in ServiceRequest /\ Len(v) \in {1, 2} /\ v[1].op = "Spawn"
      /\ Len(v) = 2 => v[2].op = "Drop" /\ v[1].op # "Drop"
  BY ServiceHead
<1>2. /\ r \notin Recs(s) => v[Len(v)].op = "Drop"
      /\ r \in Recs(s) => Len(v) = 1 /\ s.m_instances[r].ticket /\ s.m_instances[r].state = "Spawning"
                          /\ r \notin s.entities
      /\ NoCallback(s, r)
  BY <1>1, ServiceHead
<1>3. /\ w \in Seq(ServiceRequest) /\ Len(w) = Len(v) /\ w[1].op = "Insert" /\ w # <<>>
      /\ Len(v) = 2 => w[2] = v[2]
  <2> DEFINE e == [v[1] EXCEPT !.op = "Insert"]
  <2>1. e \in ServiceRequest /\ e.op = "Insert" BY <1>1 DEF ServiceRequest
  <2>2. w = [v EXCEPT ![1] = e] OBVIOUS
  <2> HIDE DEF e, v
  <2>3. 1 \in 1 .. Len(v) BY <1>1
  <2>4. w \in Seq(ServiceRequest) /\ Len(w) = Len(v) /\ w[1] = e BY <1>1, <2>1, <2>2, <2>3
  <2>5. Len(v) = 2 => w[2] = v[2] BY <1>1, <2>2
  <2> QED BY <1>1, <2>1, <2>4, <2>5
<1>4. b \in {"Cancelable", "Cancelled", "Committed"} /\ p \in {"no", "yes", "error"}
  BY <1>0, Typed
<1>5. s.entities \in SUBSET Requests /\ s.queued \in Seq(Function) BY <1>0, Typed
<1>6. PrepareStep(s, r, valid) = t
  <2> DEFINE u == Prepare(s, r, valid)
             V == [s.service EXCEPT ![r] = w]
             B == [s.boundary EXCEPT ![r] = b]
             P == [s.prepared EXCEPT ![r] = p]
  <2>1. u = [s EXCEPT !.boundary = B, !.prepared = P]
    <3>1. CASE open BY <1>0, <3>1 DEF Prepare, State
    <3>2. CASE ~open
      <4>1. B = s.boundary /\ P = s.prepared BY <1>0, <3>2, Typed
      <4>2. u = s BY <3>2 DEF Prepare
      <4> HIDE DEF B, P, u
      <4> QED BY <1>0, <4>1, <4>2 DEF State
    <3> QED BY <3>1, <3>2
  <2> HIDE DEF u, B, P
  <2>2. u.service = s.service BY <1>0, <2>1 DEF State
  <2>3. PrepareStep(s, r, valid) = [u EXCEPT !.service = V] BY <2>2 DEF PrepareStep, u
  <2> HIDE DEF V
  <2>4. [u EXCEPT !.service = V] = [s EXCEPT !.service = V, !.boundary = B, !.prepared = P,
                                             !.entities = s.entities, !.queued = s.queued]
    BY <1>0, <2>1 DEF State
  <2> QED BY <2>3, <2>4 DEF Serve, V, B, P
<1> HIDE DEF v, b, p, w
<1>7. /\ SameScenes(s, t) /\ t.m_instances = s.m_instances /\ t.answers = s.answers
      /\ SameComponent(s, t) /\ t.cancelled = s.cancelled
      /\ t.service[r] = w /\ t.boundary[r] = b /\ t.prepared[r] = p
      /\ t.entities = s.entities /\ t.queued = s.queued
  <2>1. ServeWrites(s, t, r, w, b, p, s.entities, s.queued) BY <1>0, <1>3, <1>4, <1>5, ServeEffect
  <2> HIDE DEF t
  <2> QED BY <2>1 DEF ServeWrites
<1> HIDE DEF t
<1>8. Recs(t) = Recs(s) BY <1>7 DEF Recs
<1>9. ASSUME r \in Recs(t) PROVE Fits(t, r, t.m_instances[r].state)
  <2>1. Fits(s, r, "Spawning") BY <1>2, <1>8, <1>9 DEF Inv
  <2>2. TicketIn(t, r, "Spawning")
    BY <1>2, <1>3, <1>7, <1>8, <1>9, <2>1 DEF Fits, TicketIn, NoCallback
  <2>3. Fits(t, r, "Spawning") BY <1>7, <2>1, <2>2, FitsServed DEF SameComponent
  <2> QED BY <1>2, <1>7, <1>8, <1>9, <2>3
<1>10. /\ r \in t.cancelled => t.boundary[r] = "Cancelled"
       /\ (t.answers[r] = <<"Succeeded">> \/ t.prepared[r] = "yes") => t.boundary[r] = "Committed"
  BY <1>0, <1>7 DEF Shared, Boundaries, b, p
<1>11. \A i \in 1 .. Len(t.queued) : ~(IsCallback(t.queued[i]) /\ t.queued[i].request.value = r)
  BY <1>2, <1>7 DEF NoCallback
<1>12. LET x == t.service[r] IN
       /\ Len(x) <= 2 /\ (Len(x) = 2 => x[2].op = "Drop" /\ x[1].op # "Drop")
       /\ (r \notin Recs(t) /\ (r \in t.entities \/ x # <<>>)) => x # <<>> /\ x[Len(x)].op = "Drop"
       /\ r < t.m_nextSpawnRequest
  <2>1. r \notin Recs(t) => Len(v) = 2 BY <1>1, <1>2, <1>8
  <2> QED BY <1>1, <1>3, <1>7, <2>1 DEF SameComponent
<1>13. ServedWell(t, r) BY <1>9, <1>10, <1>11, <1>12 DEF ServedWell
<1>14. Inv(t, {}) BY <1>3, <1>4, <1>5, <1>13, ServeRequest DEF t
<1> QED BY <1>6, <1>14

(* The functions the service queues.                                       *)
CallbackStep(s, r, E, f) == Callback([s EXCEPT !.entities = E], r, f)

(* Such a step in the form above.                                          *)
LEMMA CallbackServes ==
  ASSUME NEW s \in State, NEW r \in Requests, NEW E, NEW f
  PROVE  CallbackStep(s, r, E, f) = Serve(s, r, Tail(s.service[r]), s.boundary[r], s.prepared[r],
                                          E, Append(s.queued, f))
<1> DEFINE V == [s.service EXCEPT ![r] = Tail(s.service[r])]
           Q == Append(s.queued, f)
           u == [s EXCEPT !.entities = E]
           B == [s.boundary EXCEPT ![r] = s.boundary[r]]
           P == [s.prepared EXCEPT ![r] = s.prepared[r]]
<1>1. B = s.boundary /\ P = s.prepared BY Typed
<1>2. u.service = s.service /\ u.queued = s.queued BY DEF State
<1>3. CallbackStep(s, r, E, f) = Callback(u, r, f) BY DEF CallbackStep
<1> HIDE DEF u
<1>4. [u EXCEPT !.service[r] = Tail(@)] = [u EXCEPT !.service = V] BY <1>2
<1>5. [u EXCEPT !.service = V].queued = s.queued BY <1>2 DEF State, u
<1>6. Callback(u, r, f) = [[u EXCEPT !.service = V] EXCEPT !.queued = Q]
  BY <1>4, <1>5 DEF Callback, Enqueued
<1> HIDE DEF V, Q, B, P
<1>7. [[u EXCEPT !.service = V] EXCEPT !.queued = Q] =
        [s EXCEPT !.service = V, !.boundary = B, !.prepared = P, !.entities = E, !.queued = Q]
  BY <1>1 DEF State, u
<1> QED BY <1>3, <1>6, <1>7 DEF Serve, V, B, P, Q

(* The callback of a spawn or of a despawn.                                *)
LEMMA CallbackKeeps ==
  ASSUME NEW s, NEW r \in Requests, Inv(s, {}), s.service[r] # <<>>,
         NEW E, NEW f \in SpawnedFunction \union DespawnedFunction, f.request.value = r,
         \/ /\ Head(s.service[r]).op = "Insert" /\ E = s.entities \union {r} /\ f.kind = "Spawned"
            /\ ~f.error => s.prepared[r] = "yes"
         \/ /\ Head(s.service[r]).op = "Despawn" /\ E = s.entities \ {r} /\ f.kind = "Despawned"
  PROVE  Inv(CallbackStep(s, r, E, f), {})
<1> DEFINE v == s.service[r]
           Q == Append(s.queued, f)
           b == s.boundary[r]
           p == s.prepared[r]
           w == Tail(v)
           t == Serve(s, r, w, b, p, E, Q)
<1>0. s \in State /\ Shared(s) BY DEF Inv, Shared
<1>1. /\ r < s.m_nextSpawnRequest /\ v \in Seq(ServiceRequest) /\ Head(v) = v[1]
      /\ Tail(v) \in Seq(ServiceRequest) /\ Len(v) \in {1, 2}
      /\ Len(v) = 1 => Tail(v) = <<>>
      /\ Len(v) = 2 => /\ v[2].op = "Drop" /\ Len(Tail(v)) = 1 /\ Tail(v)[1] = v[2]
      /\ r \notin Recs(s) => v[Len(v)].op = "Drop"
  BY ServiceHead
<1>2. v[1].op \in {"Insert", "Despawn"} BY <1>1
<1>3. /\ r \in Recs(s) =>
           /\ Len(v) = 1 /\ s.m_instances[r].ticket
           /\ \/ /\ s.m_instances[r].state = "Spawning" /\ v[1].op = "Insert"
                 /\ r \notin s.entities
              \/ s.m_instances[r].state = "DespawningEntities" /\ v[1].op = "Despawn"
      /\ NoCallback(s, r)
  BY <1>2, ServiceHead
<1>4. s.boundary[r] \in {"Cancelable", "Cancelled", "Committed"} /\ s.prepared[r] \in {"no", "yes", "error"}
      /\ s.queued \in Seq(Function)
  BY <1>0, Typed
<1>5. f \in Function /\ IsCallback(f)
  BY DEF Function, SpawnedFunction, DespawnedFunction, IsCallback
<1>6. /\ Q \in Seq(Function) /\ Len(Q) = Len(s.queued) + 1 /\ Len(s.queued) \in Nat
      /\ \A i \in 1 .. Len(s.queued) + 1 : Q[i] = IF i = Len(s.queued) + 1 THEN f ELSE s.queued[i]
  BY <1>4, <1>5, Appended
<1>7. E \in SUBSET Requests /\ \A q \in Requests : q # r => (q \in E <=> q \in s.entities)
  BY <1>0, Typed
<1>8. CallbackStep(s, r, E, f) = t BY <1>0, CallbackServes
<1> HIDE DEF v, Q, b, p, w
<1>9. /\ SameScenes(s, t) /\ t.m_instances = s.m_instances /\ t.answers = s.answers
      /\ SameComponent(s, t) /\ t.cancelled = s.cancelled
      /\ t.service[r] = Tail(v) /\ t.boundary[r] = s.boundary[r] /\ t.prepared[r] = s.prepared[r]
      /\ t.entities = E /\ t.queued = Q
  <2>0. w \in Seq(ServiceRequest) /\ b \in {"Cancelable", "Cancelled", "Committed"}
        /\ p \in {"no", "yes", "error"}
    BY <1>1, <1>4 DEF w, b, p
  <2>1. ServeWrites(s, t, r, w, b, p, E, Q)
    BY <2>0, <1>0, <1>1, <1>4, <1>6, <1>7, ServeEffect
  <2> HIDE DEF t
  <2> QED BY <2>1 DEF ServeWrites, w, b, p
<1> HIDE DEF t
<1>10. Recs(t) = Recs(s) BY <1>9 DEF Recs
<1>11. \A i \in 1 .. Len(t.queued) :
         (IsCallback(t.queued[i]) /\ t.queued[i].request.value = r) => t.queued[i] = f
  BY <1>3, <1>6, <1>9 DEF NoCallback
<1>12. Tail(v) # <<>> => Len(v) = 2 BY <1>1
<1>13. ASSUME r \in Recs(t) PROVE Fits(t, r, t.m_instances[r].state)
  <2> DEFINE state == s.m_instances[r].state
  <2>1. Fits(s, r, state) BY <1>10, <1>13 DEF Inv
  <2>2. Len(v) = 1 /\ s.m_instances[r].ticket /\ Tail(v) = <<>> /\ r \in Requests
    BY <1>1, <1>3, <1>10, <1>13
  <2>3. \/ state = "Spawning" /\ f.kind = "Spawned" /\ r \in E
        \/ state = "DespawningEntities" /\ f.kind = "Despawned" /\ r \notin E
    BY <1>1, <1>3, <1>10, <1>13 DEF v
  <2> HIDE DEF state
  <2>4. TicketIn(t, r, state)
    BY <1>9, <1>11, <2>1, <2>2, <2>3, Len(<<>>) = 0 DEF TicketIn
  <2>5. Fits(t, r, state) BY <1>9, <2>1, <2>3, <2>4, FitsServed DEF SameComponent
  <2> QED BY <1>9, <2>5 DEF state
<1>14. /\ r \in t.cancelled => t.boundary[r] = "Cancelled"
       /\ (t.answers[r] = <<"Succeeded">> \/ t.prepared[r] = "yes") => t.boundary[r] = "Committed"
  BY <1>0, <1>9 DEF Shared, Boundaries
<1>15. ASSUME NEW i \in 1 .. Len(t.queued), IsCallback(t.queued[i]), t.queued[i].request.value = r
       PROVE  /\ t.service[r] # <<>> => t.service[r][1].op = "Drop"
              /\ (t.queued[i].kind = "Spawned" /\ ~t.queued[i].error) => t.boundary[r] = "Committed"
  <2>1. t.queued[i] = f BY <1>11, <1>15
  <2>2. t.service[r] # <<>> => t.service[r][1].op = "Drop" BY <1>1, <1>9, <1>12
  <2>3. (f.kind = "Spawned" /\ ~f.error) => s.prepared[r] = "yes" OBVIOUS
  <2>4. s.prepared[r] = "yes" => t.boundary[r] = "Committed" BY <1>0, <1>9 DEF Shared, Boundaries
  <2> QED BY <2>1, <2>2, <2>3, <2>4
<1>16. LET x == t.service[r] IN
       /\ Len(x) <= 2 /\ (Len(x) = 2 => x[2].op = "Drop" /\ x[1].op # "Drop")
       /\ (r \notin Recs(t) /\ (r \in t.entities \/ x # <<>>)) => x # <<>> /\ x[Len(x)].op = "Drop"
       /\ r < t.m_nextSpawnRequest
  <2>1. r \notin Recs(t) => Len(v) = 2 BY <1>1, <1>2, <1>10
  <2>2. CASE Len(v) = 1
    <3>1. t.service[r] = <<>> /\ r \in Recs(t) BY <1>1, <1>9, <2>1, <2>2
    <3> QED BY <1>1, <1>9, <3>1, Len(<<>>) = 0 DEF SameComponent
  <2>3. CASE Len(v) = 2
    <3>1. Len(t.service[r]) = 1 /\ t.service[r][1].op = "Drop" BY <1>1, <1>9, <2>3
    <3>2. t.service[r] # <<>> BY <3>1, Len(<<>>) = 0
    <3>3. r < t.m_nextSpawnRequest BY <1>1, <1>9 DEF SameComponent
    <3> QED BY ONLY <3>1, <3>2, <3>3
  <2> QED BY <1>1, <2>2, <2>3
<1>17. ServedWell(t, r) BY <1>13, <1>14, <1>15, <1>16 DEF ServedWell
<1>18. Inv(t, {}) BY <1>1, <1>3, <1>4, <1>6, <1>7, <1>17, ServeRequest DEF t, Q, w, b, p
<1> QED BY <1>8, <1>18

(* What ServiceDrops does.                                                 *)
DropStep(s, r) == [s EXCEPT !.entities = @ \ {r}, !.service[r] = Tail(@)]
(* The last request drops the ticket and its entities.                     *)
LEMMA DropsKeeps ==
  ASSUME NEW s, NEW r \in Requests, Inv(s, {}), s.service[r] # <<>>, Head(s.service[r]).op = "Drop"
  PROVE  Inv(DropStep(s, r), {})
<1> DEFINE E == s.entities \ {r}
           b == s.boundary[r]
           p == s.prepared[r]
           t == Serve(s, r, <<>>, b, p, E, s.queued)
<1>0. s \in State /\ Shared(s) BY DEF Inv, Shared
<1>1. /\ r < s.m_nextSpawnRequest /\ Tail(s.service[r]) = <<>> /\ r \notin Recs(s)
  <2> DEFINE v == s.service[r]
  <2>1. /\ r < s.m_nextSpawnRequest /\ Head(v) = v[1] /\ Len(v) \in {1, 2}
        /\ Len(v) = 1 => Tail(v) = <<>>
        /\ Len(v) = 2 => v[1].op # "Drop"
    BY ServiceHead
  <2>2. r \in Recs(s) =>
           \/ v[1].op \in {"Spawn", "Insert"}
           \/ v[1].op = "Despawn"
    BY ServiceHead
  <2> QED BY <2>1, <2>2
<1>2. s.boundary[r] \in {"Cancelable", "Cancelled", "Committed"} /\ s.prepared[r] \in {"no", "yes", "error"}
      /\ s.queued \in Seq(Function) /\ <<>> \in Seq(ServiceRequest)
      /\ E \in SUBSET Requests /\ \A q \in Requests : q # r => (q \in E <=> q \in s.entities)
  BY <1>0, Typed
<1>3. DropStep(s, r) = t
  <2> DEFINE V == [s.service EXCEPT ![r] = <<>>]
             B == [s.boundary EXCEPT ![r] = s.boundary[r]]
             P == [s.prepared EXCEPT ![r] = s.prepared[r]]
  <2>1. B = s.boundary /\ P = s.prepared BY <1>0, Typed
  <2>2. DropStep(s, r) = [s EXCEPT !.entities = E, !.service = V] BY <1>0, <1>1 DEF DropStep, State
  <2> HIDE DEF V, B, P, E
  <2>3. [s EXCEPT !.entities = E, !.service = V] =
          [s EXCEPT !.service = V, !.boundary = B, !.prepared = P, !.entities = E, !.queued = s.queued]
    BY <1>0, <2>1 DEF State
  <2> QED BY <2>2, <2>3 DEF Serve, V, B, P
<1>4. /\ SameScenes(s, t) /\ t.m_instances = s.m_instances /\ t.answers = s.answers
      /\ SameComponent(s, t) /\ t.cancelled = s.cancelled
      /\ t.service[r] = <<>> /\ t.boundary[r] = s.boundary[r] /\ t.prepared[r] = s.prepared[r]
      /\ t.entities = E /\ t.queued = s.queued
  <2>0. /\ b \in {"Cancelable", "Cancelled", "Committed"} /\ p \in {"no", "yes", "error"}
        /\ E \in SUBSET Requests
    BY <1>2
  <2> HIDE DEF b, p, E
  <2>1. ServeWrites(s, t, r, <<>>, b, p, E, s.queued) BY <1>0, <1>2, <2>0, ServeEffect
  <2> HIDE DEF t
  <2> QED BY <2>1 DEF ServeWrites, b, p
<1> HIDE DEF t
<1>5. r \notin Recs(t) BY <1>1, <1>4 DEF Recs
<1>6. ServedWell(t, r)
  BY <1>0, <1>1, <1>4, <1>5, Len(<<>>) = 0 DEF ServedWell, Shared, Boundaries, SameComponent
<1>7. Inv(t, {}) BY <1>2, <1>6, ServeRequest DEF t
<1> QED BY <1>3, <1>7

-----------------------------------------------------------------------------
(* Cancellation, activation and the tick                                   *)

(* What CancelSpawn changes.                                               *)
Cancels(s, t, r) ==
  /\ SameScenes(s, t) /\ SamePipe(s, t) /\ SameComponent(s, t) /\ SameTickets(s, t)
  /\ SameAnswers(s, t) /\ t.m_instances = s.m_instances /\ t.prepared = s.prepared
  /\ t.boundary = [s.boundary EXCEPT ![r] = "Cancelled"] /\ t.cancelled = s.cancelled \union {r}

(* An open boundary belongs to no committed spawn.                         *)
LEMMA CancelKeeps ==
  ASSUME NEW s, NEW t \in State, NEW r \in Requests, Inv(s, {}), s.boundary[r] = "Cancelable",
         Cancels(s, t, r)
  PROVE  Inv(t, {})
<1>0. s \in State /\ Shared(s) BY DEF Inv, Shared
<1>1. /\ SameScenes(s, t) /\ SamePipe(s, t) /\ SameComponent(s, t) /\ SameTickets(s, t)
      /\ SameAnswers(s, t) /\ t.m_instances = s.m_instances /\ t.prepared = s.prepared
      /\ t.cancelled = s.cancelled \union {r}
  BY DEF Cancels
<1>2. t.boundary[r] = "Cancelled" /\ \A q \in Requests : q # r => t.boundary[q] = s.boundary[q]
  BY <1>0, Typed DEF Cancels
<1>3. Recs(t) = Recs(s) /\ SameHandles(s, t) /\ NoNewLife(s, t) /\ Pipeline(t) = Pipeline(s)
      /\ t.m_spawner = s.m_spawner /\ t.m_nextSpawnRequest = s.m_nextSpawnRequest
      /\ t.m_nextCommandId = s.m_nextCommandId /\ t.queued = s.queued /\ t.answers = s.answers
  BY <1>1 DEF Recs, SameHandles, NoNewLife, SameScenes, SamePipe, Pipeline, SameComponent, SameAnswers
<1>4. Lifecycle(t) BY <1>0, <1>1, <1>3, LifecycleKept DEF Shared
<1>5. Queue(t) BY <1>0, <1>1, <1>3, QueueKept DEF Shared
<1>6. Leases(t) BY <1>0, <1>1, <1>3, LeasesKept DEF Shared, SameScenes
<1>7. Stranding(t) BY <1>0, <1>1, <1>3, StrandingKept DEF Shared, SameScenes
<1>8. Answering(t) BY <1>0, <1>1, <1>3, AnsweringKept DEF Shared
<1>9. Tickets(t) BY <1>0, <1>1, <1>3, TicketsKept DEF Shared
<1>10. Boundaries(t)
  <2>1. \A q \in t.cancelled : t.boundary[q] = "Cancelled"
    <3>1. \A q \in s.cancelled : q \in Requests /\ s.boundary[q] = "Cancelled"
      BY <1>0, Typed DEF Shared, Boundaries
    <3> QED BY <1>1, <1>2, <3>1
  <2>2. \A q \in Requests :
          (t.answers[q] = <<"Succeeded">> \/ t.prepared[q] = "yes") => q # r /\ s.boundary[q] = "Committed"
    BY <1>0, <1>1, <1>3 DEF Shared, Boundaries
  <2>3. ASSUME NEW i \in 1 .. Len(t.queued), t.queued[i].kind = "Spawned", ~t.queued[i].error
        PROVE  t.boundary[t.queued[i].request.value] = "Committed"
    <3>1. s.boundary[t.queued[i].request.value] = "Committed" BY <1>0, <1>3, <2>3 DEF Shared, Boundaries
    <3>2. t.queued[i].request.value \in Requests BY <1>0, <1>3, <2>3, QueuedTyped DEF IsCallback
    <3> QED BY <1>2, <3>1, <3>2
  <2> QED BY <1>2, <2>1, <2>2, <2>3 DEF Boundaries
<1>11. ASSUME NEW q \in Recs(t) PROVE Fits(t, q, t.m_instances[q].state)
  <2> DEFINE state == s.m_instances[q].state
  <2>1. q \in Recs(s) /\ q \in Requests /\ Fits(s, q, state) /\ t.m_instances[q] = s.m_instances[q]
    BY <1>0, <1>1, <1>3, RecordTyped DEF Inv
  <2> HIDE DEF state
  <2>2. Owes(t, q, state)
    <3>1. t.boundary[q] = s.boundary[q] \/ s.boundary[q] = "Cancelable" BY <1>2, <2>1
    <3> QED BY <1>3, <2>1, <3>1 DEF Fits, Owes
  <2>3. TicketIn(t, q, state)
    BY <1>1, <1>3, <2>1 DEF Fits, TicketIn, SameTickets
  <2>4. SlotIn(t, q, state)
    <3>1. Living(t) <=> Living(s) BY <1>1, <1>3 DEF Living, SameScenes
    <3>2. HandleOf(t, q) = HandleOf(s, q) BY <2>1 DEF HandleOf
    <3>3. SlotOf(t, q) = SlotOf(s, q) BY <1>1, <3>2 DEF SlotOf, SameScenes
    <3>4. FindSlot(t, HandleOf(t, q)) <=> FindSlot(s, HandleOf(s, q)) BY <1>1, <3>2 DEF FindSlot, SameScenes
    <3>5. SlotIn(s, q, state) BY <2>1 DEF Fits
    <3>6. t.entities = s.entities /\ t.controllers = s.controllers BY <1>1 DEF SameTickets, SameScenes
    <3> QED BY <2>1, <3>1, <3>3, <3>4, <3>5, <3>6, SlotInOf
  <2>5. Fits(t, q, state) BY <2>2, <2>3, <2>4 DEF Fits
  <2> QED BY <2>1, <2>5 DEF state
<1> QED BY <1>4, <1>5, <1>6, <1>7, <1>8, <1>9, <1>10, <1>11 DEF Inv, Shared

(* What a new generation of the component starts with.                     *)
LEMMA NewGenerationEffect ==
  ASSUME NEW s \in State, NEW x \in {"Inactive", "Registering", "Failed"}
  PROVE  LET t == NewGeneration(s, x) IN
         /\ t \in State /\ SameButComponent(s, t) /\ Recs(t) = {}
         /\ t.m_lifecycle = x /\ t.m_spawner = NoScene
<1> DEFINE t == NewGeneration(s, x)
<1>2. NextGeneration(s.m_generation) \in Nat
  BY Typed DEF NextGeneration
<1>3. <<>> \in Instances /\ DOMAIN <<>> = {}
  <2>1. DOMAIN <<>> = {} OBVIOUS
  <2>2. <<>> \in [{} -> InstanceRecord] BY <2>1
  <2>3. {} \in SUBSET Requests OBVIOUS
  <2> QED BY <2>1, <2>2, <2>3, Zenon DEF Instances
<1>4. NoScene \in Scene \union {NoScene} OBVIOUS
<1>5. t \in State /\ t.m_instances = <<>> /\ t.m_lifecycle = x /\ t.m_spawner = NoScene
  <2>1. x \in {"Inactive", "Registering", "Ready", "Failed"} OBVIOUS
  <2> QED BY <1>2, <1>3, <1>4, <2>1 DEF State, NewGeneration
<1>6. SameButComponent(s, t)
  BY DEF State, NewGeneration, SameButComponent, SameScenes, SamePipe, SameTickets, SameBoundaries, SameAnswers
<1> HIDE DEF t
<1>7. Recs(t) = {} BY <1>3, <1>5 DEF Recs
<1> QED BY <1>5, <1>6, <1>7 DEF t

(* Activation of an inactive component.                                    *)
LEMMA ActivateKeeps ==
  ASSUME NEW s, Inv(s, {}), s.m_lifecycle = "Inactive", NEW x \in {"Registering", "Failed"},
         s.m_nextSpawnRequest + InitialSpawnCount <= MaxSpawns + 1
  PROVE  Inv(NewGeneration(s, x), {})
<1> DEFINE t == NewGeneration(s, x)
<1>0. s \in State /\ Lifecycle(s) BY DEF Inv, Shared
<1>1. Recs(s) = {} BY <1>0 DEF Lifecycle
<1>2. /\ t \in State /\ SameButComponent(s, t) /\ Recs(t) = {}
      /\ t.m_lifecycle = x /\ t.m_spawner = NoScene
  BY <1>0, NewGenerationEffect
<1> HIDE DEF t
<1>3. t.m_nextSpawnRequest + InitialSpawnCount <= MaxSpawns + 1 BY <1>2 DEF SameButComponent
<1>4. Inv(t, {}) BY <1>1, <1>2, <1>3, LifecycleMoved
<1> QED BY <1>4 DEF t

(* DrainCommands swaps the queue out.                                      *)
LEMMA SwapKeeps ==
  ASSUME NEW s, Inv(s, {}), s.draining = <<>>
  PROVE  Inv(SwapCommands(s), {})
<1> DEFINE t == SwapCommands(s)
<1>0. s \in State /\ Shared(s) BY DEF Inv, Shared
<1>1. t \in State /\ t.draining = s.m_commands /\ t.m_commands = <<>>
  BY <1>0 DEF State, SwapCommands
<1>2. /\ SameScenes(s, t) /\ SameComponent(s, t) /\ SameTickets(s, t) /\ SameBoundaries(s, t)
      /\ SameAnswers(s, t) /\ t.m_instances = s.m_instances /\ t.m_nextCommandId = s.m_nextCommandId
  BY <1>0 DEF State, SwapCommands, SameScenes, SameComponent, SameTickets, SameBoundaries, SameAnswers
<1> HIDE DEF t
<1>3. Pipeline(t) = Pipeline(s)
  BY <1>0, <1>1, Typed, ConcatEmptySeq DEF Pipeline
<1>4. Recs(t) = Recs(s) /\ SameHandles(s, t) /\ NoNewLife(s, t) /\ t.m_spawner = s.m_spawner
      /\ t.m_nextSpawnRequest = s.m_nextSpawnRequest /\ t.queued = s.queued
  BY <1>2 DEF Recs, SameHandles, NoNewLife, SameScenes, SameComponent, SameAnswers
<1>5. Lifecycle(t) BY <1>0, <1>2, <1>4, LifecycleKept DEF Shared
<1>6. Queue(t) BY <1>0, <1>2, <1>3, <1>4, QueueKept DEF Shared
<1>7. Leases(t) BY <1>0, <1>2, <1>4, LeasesKept DEF Shared, SameScenes
<1>8. Stranding(t) BY <1>0, <1>2, <1>3, <1>4, StrandingKept DEF Shared, SameScenes
<1>9. Answering(t) BY <1>0, <1>2, <1>4, AnsweringKept DEF Shared
<1>10. Tickets(t) BY <1>0, <1>2, <1>4, TicketsKept DEF Shared
<1>11. Boundaries(t) BY <1>0, <1>2, BoundariesKept DEF Shared
<1>12. ASSUME NEW q \in Recs(t) PROVE Fits(t, q, t.m_instances[q].state)
  <2>1. q \in Recs(s) /\ Fits(s, q, s.m_instances[q].state) /\ t.m_instances[q] = s.m_instances[q]
    BY <1>2, <1>4 DEF Inv
  <2>2. Living(t) => Living(s) BY <1>2, <1>4 DEF Living, SameScenes
  <2>3. SlotOf(t, q) = SlotOf(s, q) BY <1>2, <2>1 DEF SlotOf, HandleOf, SameScenes
  <2>4. Fits(t, q, s.m_instances[q].state)
    BY <1>2, <1>4, <2>1, <2>2, <2>3, FitsKept DEF SameScenes, SameAnswers, SameBoundaries
  <2> QED BY <2>1, <2>4
<1>13. Inv(t, {})
  BY <1>1, <1>5, <1>6, <1>7, <1>8, <1>9, <1>10, <1>11, <1>12 DEF Inv, Shared
<1> QED BY <1>13 DEF t

-----------------------------------------------------------------------------
(* Queued functions                                                        *)

(* A queued function is taken off the queue: nothing else there has its    *)
(* purpose.                                                                *)
Dequeued(s) == [s EXCEPT !.queued = Tail(s.queued)]
Taking(s, t, f) ==
  /\ SameButQueued(s, t) /\ t.answers = s.answers /\ t.despawnAnswers = s.despawnAnswers
  /\ f \in Function /\ f = s.queued[1] /\ 1 \in 1 .. Len(s.queued)
  /\ IsCallback(f) => NoCallback(t, f.request.value)
  /\ f.kind = "SpawnFailed" => OpenSpawn(t, f.answers)
  /\ f.kind = "DespawnFailed" => OpenDespawn(t, f.answers)

(* The invariant holds between the function's removal and its call.        *)
LEMMA DequeuedKeeps ==
  ASSUME NEW s, Inv(s, {}), s.queued # <<>>
  PROVE  Inv(Dequeued(s), {}) /\ Taking(s, Dequeued(s), Head(s.queued))
<1> DEFINE t == Dequeued(s)
           f == Head(s.queued)
<1>0. s \in State /\ Shared(s) BY DEF Inv, Shared
<1>1. /\ Tail(s.queued) \in Seq(Function) /\ Len(Tail(s.queued)) = Len(s.queued) - 1
      /\ Len(s.queued) \in Nat \ {0} /\ f = s.queued[1] /\ f \in Function /\ 1 \in 1 .. Len(s.queued)
      /\ \A i \in 1 .. Len(s.queued) - 1 : Tail(s.queued)[i] = s.queued[i + 1] /\ i + 1 \in 1 .. Len(s.queued)
  <2>1. s.queued \in Seq(Function) BY <1>0, Typed
  <2> QED BY <2>1, Shifted
<1>2. t \in State /\ t.queued = Tail(s.queued)
  BY <1>0, <1>1 DEF State, Dequeued
<1>3. SameButQueued(s, t) /\ t.answers = s.answers /\ t.despawnAnswers = s.despawnAnswers
  BY <1>0 DEF State, Dequeued, SameButQueued, SameScenes, SamePipe, SameComponent, SameTickets, SameBoundaries
<1> HIDE DEF t, f
<1>4. t.m_instances = s.m_instances /\ Recs(t) = Recs(s) /\ SameComponent(s, t)
      /\ SameTickets(s, t) /\ SameBoundaries(s, t) /\ t.m_nextSpawnRequest = s.m_nextSpawnRequest
      /\ t.m_nextDespawnRequest = s.m_nextDespawnRequest
  BY <1>3 DEF SameButQueued, Recs, SameComponent
<1>5. \A i \in 1 .. Len(t.queued) :
        i + 1 \in 1 .. Len(s.queued) /\ t.queued[i] = s.queued[i + 1] /\ i + 1 # 1 /\ i \in Nat
  BY <1>1, <1>2
<1>6. Answering(t)
  <2>1. ASSUME NEW i \in 1 .. Len(t.queued), NEW j \in 1 .. Len(t.queued),
               Purpose(t.queued[i]) = Purpose(t.queued[j])
        PROVE  i = j
    <3>1. Purpose(s.queued[i + 1]) = Purpose(s.queued[j + 1]) /\ i + 1 \in 1 .. Len(s.queued)
          /\ j + 1 \in 1 .. Len(s.queued)
      BY <1>5, <2>1
    <3>2. i + 1 = j + 1 BY <1>0, <3>1 DEF Shared, Answering
    <3> QED BY <1>5, <3>2
  <2>2. \A i \in 1 .. Len(t.queued) :
          /\ t.queued[i].kind = "SpawnFailed" =>
               /\ t.queued[i].answers < t.m_nextSpawnRequest /\ t.answers[t.queued[i].answers] = <<>>
               /\ t.queued[i].answers \notin Recs(t)
          /\ t.queued[i].kind = "DespawnFailed" =>
               /\ t.queued[i].answers < t.m_nextDespawnRequest
               /\ t.despawnAnswers[t.queued[i].answers] = <<>>
               /\ \A x \in Recs(t) : t.m_instances[x].despawn # t.queued[i].answers
    BY <1>0, <1>3, <1>4, <1>5 DEF Shared, Answering
  <2> QED BY <1>0, <1>3, <1>4, <2>1, <2>2 DEF Shared, Answering
<1>7. Boundaries(t)
  BY <1>0, <1>3, <1>4, <1>5 DEF Shared, Boundaries, SameBoundaries
<1>8. Tickets(t)
  BY <1>0, <1>4, <1>5 DEF Shared, Tickets, SameTickets
<1>9. Lifecycle(t) /\ Queue(t) /\ Leases(t) /\ Stranding(t)
  BY <1>0, <1>3, AnswerKeepsRest DEF Shared
<1>10. ASSUME NEW q \in Recs(t) PROVE Fits(t, q, t.m_instances[q].state)
  <2>1. q \in Recs(s) /\ t.m_instances[q] = s.m_instances[q] /\ Fits(s, q, s.m_instances[q].state)
    BY <1>4 DEF Inv
  <2>2. Undisturbed(s, t, q)
    BY <1>3, <1>5, <2>1, AnswerUndisturbed
  <2> QED BY ONLY <2>1, <2>2, OthersFit
<1>11. Inv(t, {}) BY <1>2, <1>6, <1>7, <1>8, <1>9, <1>10 DEF Inv, Shared
<1>12. ASSUME NEW i \in 1 .. Len(t.queued) PROVE Purpose(t.queued[i]) # Purpose(f)
  <2>1. t.queued[i] = s.queued[i + 1] /\ i + 1 \in 1 .. Len(s.queued) /\ i + 1 # 1 BY <1>5
  <2>2. Purpose(s.queued[i + 1]) # Purpose(s.queued[1])
    BY <1>0, <1>1, <2>1 DEF Shared, Answering
  <2> QED BY <1>1, <2>1, <2>2
<1>13. IsCallback(f) => NoCallback(t, f.request.value)
  BY <1>12 DEF NoCallback, Purpose
<1>14. ASSUME f.kind = "SpawnFailed" PROVE OpenSpawn(t, f.answers)
  <2>1. /\ f.answers < s.m_nextSpawnRequest /\ s.answers[f.answers] = <<>> /\ f.answers \notin Recs(s)
    BY <1>0, <1>1, <1>14 DEF Shared, Answering
  <2>2. f.answers \in Requests
    BY <1>1, <1>14 DEF Function, SpawnedFunction, DespawnedFunction, SpawnFailedFunction, DespawnFailedFunction
  <2>3. \A i \in 1 .. Len(t.queued) : t.queued[i].kind = "SpawnFailed" => t.queued[i].answers # f.answers
    BY <1>12, <1>14 DEF Purpose, IsCallback
  <2> QED BY <1>3, <1>4, <2>1, <2>2, <2>3 DEF OpenSpawn
<1>15. ASSUME f.kind = "DespawnFailed" PROVE OpenDespawn(t, f.answers)
  <2>1. /\ f.answers < s.m_nextDespawnRequest /\ s.despawnAnswers[f.answers] = <<>>
        /\ \A r \in Recs(s) : s.m_instances[r].despawn # f.answers
    BY <1>0, <1>1, <1>15 DEF Shared, Answering
  <2>2. f.answers \in DespawnRequests
    BY <1>1, <1>15 DEF Function, SpawnedFunction, DespawnedFunction, SpawnFailedFunction, DespawnFailedFunction
  <2>3. \A i \in 1 .. Len(t.queued) : t.queued[i].kind = "DespawnFailed" => t.queued[i].answers # f.answers
    BY <1>12, <1>15 DEF Purpose, IsCallback
  <2> QED BY <1>3, <1>4, <2>1, <2>2, <2>3 DEF OpenDespawn
<1>16. Taking(s, t, f) BY <1>1, <1>3, <1>13, <1>14, <1>15 DEF Taking
<1> QED BY <1>11, <1>16 DEF t, f

(* A failed spawn is answered.                                             *)
LEMMA SpawnAnswered ==
  ASSUME NEW s, Inv(s, {}), NEW r, OpenSpawn(s, r)
  PROVE  Inv([s EXCEPT !.answers[r] = Append(@, "Failed")], {})
<1> DEFINE t == [s EXCEPT !.answers[r] = Append(@, "Failed")]
           A == [s.answers EXCEPT ![r] = <<"Failed">>]
<1>0. s \in State /\ Shared(s) /\ r \in Requests /\ s.answers[r] = <<>> /\ r \notin Recs(s)
  BY DEF Inv, Shared, OpenSpawn
<1>1. A \in [Requests -> Answers]
  BY <1>0, Typed DEF Answers
<1>2. t = [s EXCEPT !.answers = A]
  BY <1>0 DEF State
<1>3. A[r] = <<"Failed">> /\ \A x \in Requests : x # r => A[x] = s.answers[x]
  BY <1>0, Typed
<1> HIDE DEF A
<1>4. t \in State /\ t.answers = A
  BY <1>0, <1>1, <1>2 DEF State
<1>5. SameButQueued(s, t) /\ t.queued = s.queued /\ t.despawnAnswers = s.despawnAnswers
  BY <1>0, <1>2 DEF State, SameButQueued, SameScenes, SamePipe, SameComponent, SameTickets, SameBoundaries
<1> HIDE DEF t
<1>6. t.m_instances = s.m_instances /\ Recs(t) = Recs(s) /\ SameComponent(s, t)
      /\ SameTickets(s, t) /\ SameBoundaries(s, t) /\ t.m_nextSpawnRequest = s.m_nextSpawnRequest
      /\ t.m_nextDespawnRequest = s.m_nextDespawnRequest
  BY <1>5 DEF SameButQueued, Recs, SameComponent
<1>7. \A q \in Recs(s) : q \in Requests /\ q # r
  BY <1>0, RecordTyped
<1>8. \A i \in 1 .. Len(s.queued) : s.queued[i].kind = "SpawnFailed" => s.queued[i].answers \in Requests
  BY <1>0, QueuedTyped DEF Function, SpawnedFunction, DespawnedFunction, SpawnFailedFunction, DespawnFailedFunction
<1>9. Answering(t)
  <2>1. \A x \in Requests : x >= s.m_nextSpawnRequest => x # r
    BY <1>0, Typed, Numbers DEF OpenSpawn
  <2>2. \A i \in 1 .. Len(s.queued) : s.queued[i].kind = "SpawnFailed" => s.queued[i].answers # r
    BY DEF OpenSpawn
  <2> QED BY <1>0, <1>3, <1>4, <1>5, <1>6, <1>7, <1>8, <2>1, <2>2 DEF Shared, Answering
<1>10. Boundaries(t)
  <2>1. \A q \in Requests : t.answers[q] = <<"Succeeded">> => s.answers[q] = <<"Succeeded">>
    BY <1>3, <1>4
  <2> QED BY <1>0, <1>5, <1>6, <2>1 DEF Shared, Boundaries, SameBoundaries
<1>11. Tickets(t)
  BY <1>0, <1>5, <1>6, TicketsKept DEF Shared
<1>12. Lifecycle(t) /\ Queue(t) /\ Leases(t) /\ Stranding(t)
  BY <1>0, <1>5, AnswerKeepsRest DEF Shared
<1>13. ASSUME NEW q \in Recs(t) PROVE Fits(t, q, t.m_instances[q].state)
  <2>1. q \in Recs(s) /\ t.m_instances[q] = s.m_instances[q] /\ Fits(s, q, s.m_instances[q].state)
    BY <1>6 DEF Inv
  <2>2. t.answers[q] = s.answers[q] BY <1>3, <1>4, <1>7, <2>1
  <2>3. Undisturbed(s, t, q)
    BY <1>5, <2>1, <2>2, AnswerUndisturbed
  <2> QED BY ONLY <2>1, <2>3, OthersFit
<1> QED BY <1>4, <1>9, <1>10, <1>11, <1>12, <1>13 DEF Inv, Shared, t

(* A record whose ticket has called back is idle, and nothing is on its    *)
(* way to it.                                                              *)
CalledBack(s, t, r) ==
  /\ Inv(s, {}) /\ Inv(t, {}) /\ SameButQueued(s, t) /\ t.answers = s.answers
  /\ r \in Recs(t) /\ NoCallback(t, r)
  /\ \E i \in 1 .. Len(s.queued) : IsCallback(s.queued[i]) /\ s.queued[i].request.value = r

(* What such a record may count on.                                        *)
LEMMA CalledBackFacts ==
  ASSUME NEW s, NEW t, NEW r, CalledBack(s, t, r),
         t.m_instances[r].state \in {"Spawning", "DespawningEntities"}
  PROVE  /\ Loose(t, r) /\ Fits(t, r, t.m_instances[r].state) /\ t.service[r] = <<>>
         /\ (t.m_instances[r].state = "Spawning" => r \in t.entities)
         /\ (t.m_instances[r].state = "DespawningEntities" => r \notin t.entities)
<1> DEFINE state == t.m_instances[r].state
<1>0. t \in State /\ s \in State /\ Shared(t) /\ Shared(s) /\ r \in Recs(t) BY DEF CalledBack, Inv, Shared
<1>1. Fits(t, r, state) BY <1>0 DEF CalledBack, Inv
<1>2. IsIdle(t, r)
  <2>1. ~IsIdle(t, r) => <<state, t.m_instances[r].pending.type>> \in Steps
    BY <1>0 DEF Shared, Queue
  <2> QED BY <2>1 DEF Steps
<1>3. Loose(t, r) BY <1>0, <1>2 DEF CalledBack, Loose, Inv
<1>4. s.service[r] # <<>> => s.service[r][1].op = "Drop"
  BY <1>0 DEF CalledBack, Shared, Tickets
<1>5. t.service[r] = s.service[r] BY DEF CalledBack, SameButQueued, SameTickets
<1>6. t.service[r] = <<>> BY <1>1, <1>4, <1>5 DEF Fits, TicketIn
<1> QED BY <1>1, <1>3, <1>6 DEF Fits, TicketIn

(* The entities were not spawned as asked.                                 *)
LEMMA SpawnErrorKeeps ==
  ASSUME NEW s, NEW t, NEW r, CalledBack(s, t, r), t.m_instances[r].state = "Spawning"
  PROVE  Inv(BeginSpawnFailure(t, r), {})
<1>1. Loose(t, r) /\ Fits(t, r, "Spawning") /\ t.service[r] = <<>> /\ r \in t.entities
  BY CalledBackFacts
<1>2. NoCallback(t, r) BY DEF CalledBack
<1>3. t.answers[r] = <<>> /\ ~t.m_instances[r].terminal BY <1>1 DEF Fits, Owes, Starting
<1>4. TicketIn(t, r, "Unbinding")
  BY <1>1, <1>2 DEF Fits, TicketIn, NoCallback
<1>5. SlotIn(t, r, "Unbinding")
  <2>1. SlotIn(t, r, "Spawning") BY <1>1 DEF Fits
  <2> QED BY <2>1, SlotInOf DEF Starting
<1>6. MayFail(t, r) BY <1>3, <1>4, <1>5 DEF MayFail
<1> QED BY <1>1, <1>6, BeginSpawnFailureKeeps

(* The record learns what the prefab declares.                             *)
Declared(s, r, declares) == [s EXCEPT !.m_instances[r].declares = declares]
(* Entities that were spawned are bound.                                   *)
LEMMA SpawnedKeeps ==
  ASSUME NEW s, NEW t, NEW r, NEW declares \in BOOLEAN, CalledBack(s, t, r),
         t.m_instances[r].state = "Spawning", t.boundary[r] = "Committed"
  PROVE  Inv(SubmitBind(Declared(t, r, declares), r), {})
<1> DEFINE u == Declared(t, r, declares)
           record == [t.m_instances[r] EXCEPT !.declares = declares]
<1>0. t \in State /\ r \in Recs(t) BY DEF CalledBack, Inv, Shared
<1>1. Loose(t, r) /\ Fits(t, r, "Spawning") /\ t.service[r] = <<>> /\ r \in t.entities
  BY CalledBackFacts
<1>2. NoCallback(t, r) BY DEF CalledBack
<1>3. t.m_instances[r] \in InstanceRecord BY <1>0, RecordTyped
<1>4. /\ record \in InstanceRecord /\ record.instance = t.m_instances[r].instance
      /\ record.pending = t.m_instances[r].pending /\ record.state = t.m_instances[r].state
      /\ record.despawn = t.m_instances[r].despawn /\ record.ticket = t.m_instances[r].ticket
      /\ record.terminal = t.m_instances[r].terminal /\ record.attached = t.m_instances[r].attached
  BY <1>3 DEF InstanceRecord
<1>5. u = [t EXCEPT !.m_instances[r] = record] BY DEF Declared
<1> HIDE DEF record, u
<1>6. Rewrites(t, u, r) /\ u.m_instances[r] = record
  BY <1>0, <1>4, <1>5, RecordWritten
<1>7. Inv(u, {r}) /\ Undisturbed(t, u, r) /\ Recs(u) = Recs(t)
  BY <1>0, <1>1, <1>4, <1>6, Rewritten DEF Loose
<1>8. Loose(u, r) BY <1>0, <1>1, <1>4, <1>6, <1>7 DEF Loose, IsIdle
<1>9. /\ SameScenes(t, u) /\ SameTickets(t, u) /\ u.queued = t.queued /\ u.answers = t.answers
      /\ u.boundary = t.boundary /\ u.m_spawner = t.m_spawner
  BY <1>6 DEF Rewrites, SameButRecords, SameAnswers, SameBoundaries, SameComponent
<1>10. Owes(u, r, "Binding")
  BY <1>1, <1>4, <1>6, <1>9 DEF Fits, Owes, Starting, Cleaning
<1>11. TicketIn(u, r, "Binding")
  BY <1>1, <1>2, <1>4, <1>6, <1>9 DEF Fits, TicketIn, SameTickets, NoCallback
<1>12. SlotIn(u, r, "Binding")
  <2>1. SlotIn(t, r, "Spawning") BY <1>1 DEF Fits
  <2>2. Living(u) <=> Living(t) BY <1>9 DEF Living, SameScenes
  <2>3. HandleOf(u, r) = HandleOf(t, r) /\ u.m_instances[r].instance = t.m_instances[r].instance
    BY <1>4, <1>6 DEF HandleOf
  <2>4. SlotOf(u, r) = SlotOf(t, r) BY <1>9, <2>3 DEF SlotOf, SameScenes
  <2>5. FindSlot(u, HandleOf(u, r)) <=> FindSlot(t, HandleOf(t, r)) BY <1>9, <2>3 DEF FindSlot, SameScenes
  <2>6. u.entities = t.entities /\ u.controllers = t.controllers BY <1>9 DEF SameTickets, SameScenes
  <2>7. u.m_instances[r].attached = t.m_instances[r].attached BY <1>4, <1>6
  <2> QED BY <2>1, <2>2, <2>3, <2>4, <2>5, <2>6, <2>7, SlotInOf DEF Starting
<1>13. Fits(u, r, "Binding") BY <1>10, <1>11, <1>12 DEF Fits
<1>14. Inv(SubmitBind(u, r), {}) BY <1>8, <1>13, SubmitKeeps
<1> QED BY <1>14 DEF u

(* The ticket is reset.                                                    *)
Ticketless(s, r) == [s EXCEPT !.m_instances[r].ticket = FALSE]
(* The entities are gone: the slot is cleaned.                             *)
LEMMA DespawnedKeeps ==
  ASSUME NEW s, NEW t, NEW r, CalledBack(s, t, r), t.m_instances[r].state = "DespawningEntities"
  PROVE  Inv(SubmitCleanupReset(Ticketless(t, r), r), {})
<1> DEFINE u == Ticketless(t, r)
           record == [t.m_instances[r] EXCEPT !.ticket = FALSE]
<1>0. t \in State /\ r \in Recs(t) BY DEF CalledBack, Inv, Shared
<1>1. Loose(t, r) /\ Fits(t, r, "DespawningEntities") /\ t.service[r] = <<>> /\ r \notin t.entities
  BY CalledBackFacts
<1>2. NoCallback(t, r) BY DEF CalledBack
<1>3. t.m_instances[r] \in InstanceRecord BY <1>0, RecordTyped
<1>4. /\ record \in InstanceRecord /\ record.instance = t.m_instances[r].instance
      /\ record.pending = t.m_instances[r].pending /\ record.state = t.m_instances[r].state
      /\ record.despawn = t.m_instances[r].despawn /\ record.ticket = FALSE
      /\ record.terminal = t.m_instances[r].terminal /\ record.attached = t.m_instances[r].attached
  BY <1>3 DEF InstanceRecord
<1>5. u = [t EXCEPT !.m_instances[r] = record] BY DEF Ticketless
<1> HIDE DEF record, u
<1>6. Rewrites(t, u, r) /\ u.m_instances[r] = record
  BY <1>0, <1>4, <1>5, RecordWritten
<1>7. Inv(u, {r}) /\ Undisturbed(t, u, r) /\ Recs(u) = Recs(t)
  BY <1>0, <1>1, <1>4, <1>6, Rewritten DEF Loose
<1>8. Loose(u, r) BY <1>0, <1>1, <1>4, <1>6, <1>7 DEF Loose, IsIdle
<1>9. /\ SameScenes(t, u) /\ SameTickets(t, u) /\ u.queued = t.queued /\ u.answers = t.answers
      /\ u.boundary = t.boundary /\ u.m_spawner = t.m_spawner
  BY <1>6 DEF Rewrites, SameButRecords, SameAnswers, SameBoundaries, SameComponent
<1>10. Owes(u, r, "CleanupResetting")
  BY <1>1, <1>4, <1>6, <1>9 DEF Fits, Owes, Starting, Cleaning
<1>11. TicketIn(u, r, "CleanupResetting")
  BY <1>1, <1>2, <1>4, <1>6, <1>9 DEF Fits, TicketIn, SameTickets, NoCallback
<1>12. SlotIn(u, r, "CleanupResetting")
  <2>1. SlotIn(t, r, "DespawningEntities") BY <1>1 DEF Fits
  <2>2. Living(u) <=> Living(t) BY <1>9 DEF Living, SameScenes
  <2>3. HandleOf(u, r) = HandleOf(t, r) /\ u.m_instances[r].instance = t.m_instances[r].instance
    BY <1>4, <1>6 DEF HandleOf
  <2>4. SlotOf(u, r) = SlotOf(t, r) BY <1>9, <2>3 DEF SlotOf, SameScenes
  <2>5. FindSlot(u, HandleOf(u, r)) <=> FindSlot(t, HandleOf(t, r)) BY <1>9, <2>3 DEF FindSlot, SameScenes
  <2>6. u.entities = t.entities /\ u.controllers = t.controllers BY <1>9 DEF SameTickets, SameScenes
  <2> QED BY <2>1, <2>2, <2>3, <2>4, <2>5, <2>6, SlotInOf DEF Starting
<1>13. Fits(u, r, "CleanupResetting") BY <1>10, <1>11, <1>12 DEF Fits
<1>14. Inv(SubmitCleanupReset(u, r), {}) BY <1>8, <1>13, SubmitCleanupResetKeeps
<1> QED BY <1>14 DEF u

(* What Deliver does with the function it took.                            *)
Delivered(s, f) ==
  CASE f.kind = "Spawned"       -> OnScenePolytreeSpawnCompleted(s, f)
    [] f.kind = "Despawned"     -> OnScenePolytreeDespawnCompleted(s, f)
    [] f.kind = "SpawnFailed"   -> [s EXCEPT !.answers[f.answers] = Append(@, "Failed")]
    [] f.kind = "DespawnFailed" -> [s EXCEPT !.despawnAnswers[f.answers] = Append(@, "Failed")]
(* Every callback, late ones included, is taken safely.                    *)
LEMMA DeliverKeeps ==
  ASSUME NEW s, Inv(s, {}), s.queued # <<>>
  PROVE  Inv(Delivered(Dequeued(s), Head(s.queued)), {})
<1> DEFINE t == Dequeued(s)
           f == Head(s.queued)
<1> SUFFICES Inv(Delivered(t, f), {}) OBVIOUS
<1>1. Inv(t, {}) /\ Taking(s, t, f) BY DequeuedKeeps
<1> HIDE DEF t, f
<1>2. f \in Function /\ f = s.queued[1] /\ 1 \in 1 .. Len(s.queued) BY <1>1 DEF Taking
<1>3. CASE f.kind = "Spawned"
  <2> DEFINE r == f.request.value
  <2>1. f.declares \in BOOLEAN /\ f.error \in BOOLEAN /\ IsCallback(f)
    BY <1>2, <1>3 DEF Function, SpawnedFunction, DespawnedFunction, SpawnFailedFunction,
                     DespawnFailedFunction, IsCallback
  <2>2. Delivered(t, f) = OnScenePolytreeSpawnCompleted(t, f) BY <1>3 DEF Delivered
  <2>3. CASE ~FindRequest(t, f.request) \/ t.m_instances[r].state # "Spawning" \/ ~t.m_instances[r].ticket
    BY <1>1, <2>2, <2>3 DEF OnScenePolytreeSpawnCompleted
  <2>4. CASE FindRequest(t, f.request) /\ t.m_instances[r].state = "Spawning" /\ t.m_instances[r].ticket
    <3>1. CalledBack(s, t, r)
      BY <1>1, <1>2, <2>1, <2>4 DEF Taking, CalledBack, FindRequest, Recs
    <3>2. CASE f.error
      <4>1. Delivered(t, f) = BeginSpawnFailure(t, r)
        BY <2>2, <2>4, <3>2 DEF OnScenePolytreeSpawnCompleted
      <4> HIDE DEF r
      <4> QED BY <2>4, <3>1, <4>1, SpawnErrorKeeps
    <3>3. CASE ~f.error
      <4>1. Delivered(t, f) = SubmitBind(Declared(t, r, f.declares), r)
        BY <2>2, <2>4, <3>3 DEF OnScenePolytreeSpawnCompleted, Declared
      <4>2. s.boundary[r] = "Committed"
        BY <1>2, <1>3, <3>3 DEF Inv, Shared, Boundaries
      <4>3. t.boundary[r] = "Committed"
        BY <1>1, <4>2 DEF Taking, SameButQueued, SameBoundaries
      <4> HIDE DEF r
      <4> QED BY <2>1, <2>4, <3>1, <4>1, <4>3, SpawnedKeeps
    <3> QED BY <3>2, <3>3
  <2> QED BY <2>3, <2>4
<1>4. CASE f.kind = "Despawned"
  <2> DEFINE r == f.request.value
  <2>1. IsCallback(f) BY <1>4 DEF IsCallback
  <2>2. Delivered(t, f) = OnScenePolytreeDespawnCompleted(t, f) BY <1>4 DEF Delivered
  <2>3. CASE ~FindRequest(t, f.request) \/ t.m_instances[r].state # "DespawningEntities" \/ ~t.m_instances[r].ticket
    BY <1>1, <2>2, <2>3 DEF OnScenePolytreeDespawnCompleted
  <2>4. CASE FindRequest(t, f.request) /\ t.m_instances[r].state = "DespawningEntities" /\ t.m_instances[r].ticket
    <3>1. CalledBack(s, t, r)
      BY <1>1, <1>2, <2>1, <2>4 DEF Taking, CalledBack, FindRequest, Recs
    <3>2. Delivered(t, f) = SubmitCleanupReset(Ticketless(t, r), r)
      BY <2>2, <2>4 DEF OnScenePolytreeDespawnCompleted, Ticketless
    <3> HIDE DEF r
    <3> QED BY <2>4, <3>1, <3>2, DespawnedKeeps
  <2> QED BY <2>3, <2>4
<1>5. CASE f.kind = "SpawnFailed"
  <2>1. Delivered(t, f) = [t EXCEPT !.answers[f.answers] = Append(@, "Failed")] BY <1>5 DEF Delivered
  <2>2. OpenSpawn(t, f.answers) BY <1>1, <1>5 DEF Taking
  <2>3. Inv([t EXCEPT !.answers[f.answers] = Append(@, "Failed")], {})
    BY <1>1, <2>2, SpawnAnswered
  <2> QED BY <2>1, <2>3
<1>6. CASE f.kind = "DespawnFailed"
  <2>1. Delivered(t, f) = [t EXCEPT !.despawnAnswers[f.answers] = Append(@, "Failed")] BY <1>6 DEF Delivered
  <2>2. OpenDespawn(t, f.answers) BY <1>1, <1>6 DEF Taking
  <2>3. Inv([t EXCEPT !.despawnAnswers[f.answers] = Append(@, "Failed")], {})
    BY <1>1, <2>2, DespawnAnswered
  <2> QED BY <2>1, <2>3
<1>7. f.kind \in {"Spawned", "Despawned", "SpawnFailed", "DespawnFailed"}
  BY <1>2 DEF Function, SpawnedFunction, DespawnedFunction, SpawnFailedFunction, DespawnFailedFunction
<1> QED BY <1>3, <1>4, <1>5, <1>6, <1>7

-----------------------------------------------------------------------------
(* Requests                                                                *)

SpawnStep(s, finite) ==
  IF s.m_lifecycle = "Ready" /\ TriggerMode # "OnReady"
  THEN BeginSpawn(AllocateSpawnRequest(s), s.m_nextSpawnRequest, finite)
  ELSE QueueSpawnFailure(AllocateSpawnRequest(s), s.m_nextSpawnRequest)

(* Spawn begins or is refused.                                             *)
LEMMA SpawnKeeps ==
  ASSUME NEW s, NEW finite, Inv(s, {}),
         s.m_nextSpawnRequest + (IF s.m_lifecycle = "Registering" THEN InitialSpawnCount ELSE 0)
           <= MaxSpawns
  PROVE  Inv(SpawnStep(s, finite), {})
<1> DEFINE r == s.m_nextSpawnRequest
           t == AllocateSpawnRequest(s)
<1>0. s \in State /\ s.m_nextSpawnRequest \in Nat BY Typed DEF Inv, Shared
<1>1. InitialSpawnCount \in Nat BY ConfigurationAssumption, CapacityAssumption
<1>2. r <= MaxSpawns /\ (s.m_lifecycle = "Registering" => r + InitialSpawnCount <= MaxSpawns)
  BY <1>0, <1>1, BoundsAssumption
<1>3. Inv(t, {}) /\ Fresh(t, r) /\ SameButNumbers(s, t) BY <1>2, SpawnAllocated
<1>4. CASE s.m_lifecycle = "Ready" /\ TriggerMode # "OnReady"
  <2>1. SpawnStep(s, finite) = BeginSpawn(t, r, finite) BY <1>4 DEF SpawnStep
  <2>2. t.m_lifecycle = "Ready" BY <1>3, <1>4 DEF SameButNumbers
  <2> HIDE DEF t, r
  <2>3. Inv(BeginSpawn(t, r, finite), {}) BY <1>3, <2>2, BeginSpawnKeeps
  <2> QED BY <2>1, <2>3
<1>5. CASE ~(s.m_lifecycle = "Ready" /\ TriggerMode # "OnReady")
  <2>1. SpawnStep(s, finite) = QueueSpawnFailure(t, r) BY <1>5 DEF SpawnStep
  <2> HIDE DEF t, r
  <2>2. Inv(QueueSpawnFailure(t, r), {}) BY <1>3, SpawnFailureQueued DEF Fresh
  <2> QED BY <2>1, <2>2
<1> QED BY <1>4, <1>5

Holder(s, instance) == CHOOSE x \in HoldersOf(s, instance) : TRUE
DespawnStep(s, instance, closes) ==
  LET a == AllocateDespawnRequest(s)
      d == s.m_nextDespawnRequest
      r == Holder(a, instance)
  IN  IF s.m_lifecycle # "Ready" \/ HoldersOf(a, instance) = {} THEN QueueDespawnFailure(a, d)
      ELSE IF ~MayDespawn(s.m_instances[r]) THEN QueueDespawnFailure(a, d)
      ELSE IF s.m_instances[r].attached THEN SubmitDetachControllers(TakeDespawn(a, r, d), r, closes)
      ELSE SubmitUnbind(TakeDespawn(a, r, d), r)

(* Despawn begins for an active instance and is refused otherwise.         *)
LEMMA DespawnKeeps ==
  ASSUME NEW s, NEW instance, NEW closes, Inv(s, {}), s.m_nextDespawnRequest <= MaxDespawns
  PROVE  Inv(DespawnStep(s, instance, closes), {})
<1> DEFINE d == s.m_nextDespawnRequest
           t == AllocateDespawnRequest(s)
           r == Holder(t, instance)
<1>1. Inv(t, {}) /\ OpenDespawn(t, d) /\ SameButNumbers(s, t) BY DespawnAllocated
<1>2. t.m_instances = s.m_instances BY <1>1 DEF SameButNumbers
<1> HIDE DEF t, d
<1>3. Inv(QueueDespawnFailure(t, d), {}) BY <1>1, DespawnFailureQueued
<1>4. CASE s.m_lifecycle # "Ready" \/ HoldersOf(t, instance) = {}
           \/ ~MayDespawn(s.m_instances[r])
  <2>1. DespawnStep(s, instance, closes) = QueueDespawnFailure(t, d)
    BY <1>4 DEF DespawnStep, t, d
  <2> QED BY <1>3, <2>1
<1>5. CASE ~(s.m_lifecycle # "Ready" \/ HoldersOf(t, instance) = {}) /\ MayDespawn(s.m_instances[r])
  <2>1. r \in Recs(t) /\ t.m_instances[r].state = "Active"
    BY <1>2, <1>5 DEF Holder, HoldersOf, Recs, MayDespawn
  <2>2. /\ t.m_instances[r].attached => Inv(SubmitDetachControllers(TakeDespawn(t, r, d), r, closes), {})
        /\ ~t.m_instances[r].attached => Inv(SubmitUnbind(TakeDespawn(t, r, d), r), {})
    <3> HIDE DEF r
    <3> QED BY <1>1, <2>1, DespawnBegun
  <2>3. DespawnStep(s, instance, closes) =
          IF t.m_instances[r].attached THEN SubmitDetachControllers(TakeDespawn(t, r, d), r, closes)
          ELSE SubmitUnbind(TakeDespawn(t, r, d), r)
    BY <1>2, <1>5 DEF DespawnStep, t, d
  <2> QED BY <2>2, <2>3
<1> QED BY <1>4, <1>5

-----------------------------------------------------------------------------
(* Deactivation                                                            *)

DropRequest(s) == [op |-> "Drop", generation |-> s.m_generation]
TornBase(s, t) ==
  /\ t \in State /\ t.life = s.life /\ t.slots = s.slots /\ SameComponent(s, t)
  /\ SameAnswers(s, t) /\ t.m_instances = s.m_instances /\ t.m_nextCommandId = s.m_nextCommandId
  /\ t.entities = s.entities /\ t.prepared = s.prepared /\ t.cancelled = s.cancelled
TornBoundaries(s, t) ==
  \A q \in Requests : t.boundary[q] = s.boundary[q] \/ s.boundary[q] = "Cancelable"
TornControllers(s, t) ==
  /\ t.controllers \subseteq s.controllers
  /\ \A instance \in s.controllers : instance \notin t.controllers => Holds(s, instance.slot)
TornTickets(s, t, D) ==
  \A q \in Requests :
    t.service[q] = IF q \in D /\ s.m_instances[q].ticket
                   THEN Append(s.service[q], DropRequest(s)) ELSE s.service[q]
TornQueue(s, t, E) ==
  /\ Len(Pipeline(t)) >= Len(Pipeline(s))
  /\ \A i \in 1 .. Len(Pipeline(s)) : Pipeline(t)[i] = Pipeline(s)[i]
  /\ \A i \in 1 .. Len(Pipeline(t)) : i > Len(Pipeline(s)) =>
       /\ Pipeline(t)[i] \in SlotCommand /\ Pipeline(t)[i].id = NoCommand
       /\ Pipeline(t)[i].type # "Detach" /\ Pipeline(t)[i].slot.scene = s.m_spawner
  /\ \A r \in E : Living(s) => \E k \in 1 .. Len(Pipeline(t)) :
       k > Len(Pipeline(s)) /\ ReleaseOf(Pipeline(t)[k], HandleOf(s, r))

(* Deactivate, in the middle of its loop: the tickets of the records in D  *)
(* have been dropped, the slots of those in E are about to be released.    *)
Torn(s, t, D, E) ==
  /\ TornBase(s, t) /\ TornBoundaries(s, t) /\ TornControllers(s, t)
  /\ TornTickets(s, t, D) /\ TornQueue(s, t, E)

(* An open boundary is closed.                                             *)
LEMMA TornClosed ==
  ASSUME NEW s, NEW t, NEW D, NEW E, NEW r \in Requests, Torn(s, t, D, E),
         t.boundary[r] = "Cancelable"
  PROVE  Torn(s, [t EXCEPT !.boundary[r] = "Cancelled"], D, E)
<1> DEFINE B == [t.boundary EXCEPT ![r] = "Cancelled"]
           u == [t EXCEPT !.boundary = B]
<1>0. t \in State BY DEF Torn, TornBase
<1>1. /\ B \in [Requests -> {"Cancelable", "Cancelled", "Committed"}]
      /\ \A q \in Requests : q # r => B[q] = t.boundary[q]
  BY <1>0, Typed
<1>2. u = [t EXCEPT !.boundary[r] = "Cancelled"] OBVIOUS
<1> HIDE DEF B
<1>3. u \in State /\ u.boundary = B BY <1>0, <1>1 DEF State
<1>4. /\ SameScenes(t, u) /\ SamePipe(t, u) /\ SameComponent(t, u) /\ SameTickets(t, u)
      /\ SameAnswers(t, u) /\ u.m_instances = t.m_instances /\ u.prepared = t.prepared
      /\ u.cancelled = t.cancelled
  BY <1>0 DEF State, SameScenes, SamePipe, SameComponent, SameTickets, SameAnswers
<1> HIDE DEF u
<1>5. TornBase(s, u)
  BY <1>3, <1>4 DEF Torn, TornBase, SameScenes, SamePipe, SameComponent, SameTickets, SameAnswers
<1>6. TornBoundaries(s, u)
  <2>1. s.boundary[r] = "Cancelable" BY DEF Torn, TornBoundaries
  <2> QED BY <1>1, <1>3, <2>1 DEF Torn, TornBoundaries
<1>7. TornControllers(s, u) BY <1>4 DEF Torn, TornControllers, SameScenes
<1>8. TornTickets(s, u, D) BY <1>4 DEF Torn, TornTickets, SameTickets
<1>9. Pipeline(u) = Pipeline(t) BY <1>4 DEF Pipeline, SamePipe
<1>10. TornQueue(s, u, E) BY <1>9 DEF Torn, TornQueue
<1>11. Torn(s, u, D, E) BY <1>5, <1>6, <1>7, <1>8, <1>10 DEF Torn
<1> QED BY <1>2, <1>11

(* Attached controllers go.                                                *)
LEMMA TornDetached ==
  ASSUME NEW s, NEW t, NEW D, NEW E, NEW r \in Recs(s), Torn(s, t, D, E)
  PROVE  Torn(s, DestroyAttached(t, r), D, E)
<1> DEFINE instance == t.m_instances[r].instance
           u == DetachControllers(t, instance)
<1>1. CASE DestroyAttached(t, r) = t BY <1>1
<1>2. CASE DestroyAttached(t, r) = u
  <2>0. t \in State /\ t.m_instances = s.m_instances BY DEF Torn, TornBase
  <2>1. u \in State /\ SameButControllers(t, u) /\ u.controllers = t.controllers \ {instance}
    BY <2>0, DetachEffect
  <2>2. instance.slot = HandleOf(s, r) BY <2>0 DEF HandleOf
  <2> HIDE DEF u, instance
  <2>3. TornBase(s, u)
    BY <2>1 DEF Torn, TornBase, SameButControllers, SamePipe, SameComponent, SameTickets, SameAnswers,
               SameBoundaries
  <2>4. TornBoundaries(s, u) BY <2>1 DEF Torn, TornBoundaries, SameButControllers, SameBoundaries
  <2>5. TornControllers(s, u)
    BY <2>1, <2>2 DEF Torn, TornControllers, Holds
  <2>6. TornTickets(s, u, D) BY <2>1 DEF Torn, TornTickets, SameButControllers, SameTickets
  <2>7. Pipeline(u) = Pipeline(t) BY <2>1 DEF Pipeline, SameButControllers, SamePipe
  <2>8. TornQueue(s, u, E) BY <2>7 DEF Torn, TornQueue
  <2> QED BY <1>2, <2>3, <2>4, <2>5, <2>6, <2>8 DEF Torn
<1> QED BY <1>1, <1>2 DEF DestroyAttached, DestroyControllersImmediately

(* A slot command is queued that nobody waits for.                         *)
LEMMA TornSubmitted ==
  ASSUME NEW s, NEW t, NEW D, NEW E, NEW r \in Recs(s), Inv(s, {}), Torn(s, t, D, E),
         NEW type \in {"Unbind", "Reset", "Release"}
  PROVE  LET u == Submit(t, type, s.m_instances[r].instance, r, FALSE) IN
         Torn(s, u, D, E) /\ (type = "Release" => Torn(s, u, D, E \union {r}))
<1> DEFINE instance == s.m_instances[r].instance
           c == [type |-> type, slot |-> instance.slot, owner |-> instance.generation,
                 entities |-> r, id |-> NoCommand]
           u == Submit(t, type, instance, r, FALSE)
<1>0. t \in State /\ s \in State /\ Shared(s) /\ r \in Nat
  BY RecordTyped, Numbers DEF Torn, TornBase, Inv, Shared
<1>1. instance \in InstanceHandle /\ instance.slot = HandleOf(s, r) /\ instance.slot \in SlotHandle
      /\ instance.generation \in Nat
  BY <1>0, RecordTyped DEF HandleOf, InstanceHandle
<1>2. c \in SlotCommand /\ c.id = NoCommand /\ c.type = type /\ c.slot = instance.slot
  BY <1>0, <1>1, Numbers DEF SlotCommand, SlotTypes
<1>3. c \in Command BY <1>2 DEF Command
<1>4. c.slot.scene = s.m_spawner
  BY <1>0, <1>1, <1>2, SceneOfRecord DEF Shared
<1>5. u = [t EXCEPT !.m_commands = Append(t.m_commands, c)]
  <2>1. [t EXCEPT !.m_nextCommandId = IF FALSE THEN @ + 1 ELSE @] = t BY <1>0 DEF State
  <2>2. u = Enqueue([t EXCEPT !.m_nextCommandId = IF FALSE THEN @ + 1 ELSE @], c) BY DEF Submit
  <2>3. u = Enqueue(t, c) BY <2>1, <2>2
  <2> QED BY <2>3 DEF Enqueue
<1>6. Append(t.m_commands, c) \in Seq(Command) BY <1>0, <1>3, Typed
<1> HIDE DEF c
<1>7. u \in State /\ u.m_commands = Append(t.m_commands, c) /\ u.draining = t.draining
  <2> DEFINE M == Append(t.m_commands, c)
  <2> HIDE DEF M, u
  <2>1. [t EXCEPT !.m_commands = M] \in State /\ [t EXCEPT !.m_commands = M].m_commands = M
        /\ [t EXCEPT !.m_commands = M].draining = t.draining
    BY <1>0, <1>6 DEF State, M
  <2> QED BY <1>5, <2>1 DEF M
<1>8. /\ SameScenes(t, u) /\ SameComponent(t, u) /\ SameTickets(t, u) /\ SameBoundaries(t, u)
      /\ SameAnswers(t, u) /\ u.m_instances = t.m_instances /\ u.m_nextCommandId = t.m_nextCommandId
  BY <1>0, <1>5 DEF State, SameScenes, SameComponent, SameTickets, SameBoundaries, SameAnswers
<1> HIDE DEF u
<1>9. Pipeline(u) = Append(Pipeline(t), c) BY <1>0, <1>3, <1>7, PipelineAppend
<1>10. Pipeline(t) \in Seq(Command) /\ Len(Pipeline(s)) \in Nat BY <1>0, PipelineTyped
<1>11. /\ Len(Pipeline(u)) = Len(Pipeline(t)) + 1 /\ Len(Pipeline(t)) \in Nat
       /\ \A i \in 1 .. Len(Pipeline(t)) + 1 :
            Pipeline(u)[i] = IF i = Len(Pipeline(t)) + 1 THEN c ELSE Pipeline(t)[i]
  BY <1>3, <1>9, <1>10, Appended
<1>12. TornQueue(s, t, E) BY DEF Torn
<1>13. /\ Len(Pipeline(u)) >= Len(Pipeline(s))
       /\ \A i \in 1 .. Len(Pipeline(s)) : Pipeline(u)[i] = Pipeline(s)[i]
  BY <1>10, <1>11, <1>12 DEF TornQueue
<1>14. ASSUME NEW i \in 1 .. Len(Pipeline(u)), i > Len(Pipeline(s))
       PROVE  /\ Pipeline(u)[i] \in SlotCommand /\ Pipeline(u)[i].id = NoCommand
              /\ Pipeline(u)[i].type # "Detach" /\ Pipeline(u)[i].slot.scene = s.m_spawner
  <2>1. CASE i = Len(Pipeline(t)) + 1
    <3>1. Pipeline(u)[i] = c BY <1>11, <2>1
    <3> QED BY <1>2, <1>4, <3>1
  <2>2. CASE i # Len(Pipeline(t)) + 1
    <3>1. i \in 1 .. Len(Pipeline(t)) /\ Pipeline(u)[i] = Pipeline(t)[i] BY <1>11, <2>2
    <3> QED BY <1>12, <1>14, <3>1 DEF TornQueue
  <2> QED BY <2>1, <2>2
<1>15. ASSUME NEW q \in E, Living(s)
       PROVE  \E k \in 1 .. Len(Pipeline(u)) :
                k > Len(Pipeline(s)) /\ ReleaseOf(Pipeline(u)[k], HandleOf(s, q))
  <2>1. PICK k \in 1 .. Len(Pipeline(t)) :
          k > Len(Pipeline(s)) /\ ReleaseOf(Pipeline(t)[k], HandleOf(s, q))
    BY <1>12, <1>15 DEF TornQueue
  <2>2. k \in 1 .. Len(Pipeline(u)) /\ Pipeline(u)[k] = Pipeline(t)[k] BY <1>11
  <2> QED BY <2>1, <2>2
<1>16. TornQueue(s, u, E) BY <1>13, <1>14, <1>15 DEF TornQueue
<1>17. ASSUME type = "Release" PROVE TornQueue(s, u, E \union {r})
  <2>1. Len(Pipeline(t)) + 1 \in 1 .. Len(Pipeline(u)) /\ Len(Pipeline(t)) + 1 > Len(Pipeline(s))
        /\ Pipeline(u)[Len(Pipeline(t)) + 1] = c
    BY <1>10, <1>11, <1>12 DEF TornQueue
  <2>2. ReleaseOf(c, HandleOf(s, r)) BY <1>1, <1>2, <1>17 DEF ReleaseOf
  <2>3. \A q \in E \union {r} : Living(s) => \E k \in 1 .. Len(Pipeline(u)) :
          k > Len(Pipeline(s)) /\ ReleaseOf(Pipeline(u)[k], HandleOf(s, q))
    BY <1>15, <2>1, <2>2
  <2> QED BY <1>13, <1>14, <2>3 DEF TornQueue
<1>18. TornBase(s, u)
  BY <1>7, <1>8 DEF Torn, TornBase, SameScenes, SameComponent, SameTickets, SameBoundaries, SameAnswers
<1>19. TornBoundaries(s, u) /\ TornControllers(s, u) /\ TornTickets(s, u, D)
  BY <1>8 DEF Torn, TornBoundaries, TornControllers, TornTickets, SameBoundaries, SameScenes, SameTickets
<1>20. Torn(s, u, D, E) /\ (type = "Release" => Torn(s, u, D, E \union {r}))
  BY <1>16, <1>17, <1>18, <1>19 DEF Torn
<1> QED BY <1>20 DEF u

(* A ticket is dropped.                                                    *)
LEMMA TornDropped ==
  ASSUME NEW s, NEW t, NEW D, NEW E, NEW r \in Recs(s) \ D, s \in State, Torn(s, t, D, E)
  PROVE  /\ s.m_instances[r].ticket =>
              Torn(s, [t EXCEPT !.service[r] = Append(@, DropRequest(s))], D \union {r}, E)
         /\ ~s.m_instances[r].ticket => Torn(s, t, D \union {r}, E)
<1> DEFINE V == [t.service EXCEPT ![r] = Append(t.service[r], DropRequest(s))]
           u == [t EXCEPT !.service = V]
<1>0. t \in State /\ r \in Requests BY RecordTyped DEF Torn, TornBase
<1>1. t.service \in [Requests -> Seq(ServiceRequest)] /\ DropRequest(s) \in ServiceRequest
  BY <1>0, Typed DEF DropRequest, ServiceRequest
<1>2. TornTickets(s, t, D) BY DEF Torn
<1>3. t.service[r] = s.service[r] BY <1>0, <1>2 DEF TornTickets
<1>4. /\ V \in [Requests -> Seq(ServiceRequest)] /\ V[r] = Append(s.service[r], DropRequest(s))
      /\ \A q \in Requests : q # r => V[q] = t.service[q]
  <2>1. Append(t.service[r], DropRequest(s)) \in Seq(ServiceRequest) BY <1>0, <1>1, Appended
  <2> QED BY <1>0, <1>1, <1>3, <2>1
<1>5. u = [t EXCEPT !.service[r] = Append(@, DropRequest(s))] BY <1>0, <1>1
<1>6. ~s.m_instances[r].ticket => Torn(s, t, D \union {r}, E)
  <2>1. ~s.m_instances[r].ticket => TornTickets(s, t, D \union {r}) BY <1>2, <1>3 DEF TornTickets
  <2> QED BY <2>1 DEF Torn
<1> HIDE DEF V
<1>7. u \in State /\ u.service = V BY <1>0, <1>4 DEF State
<1>8. /\ SameScenes(t, u) /\ SamePipe(t, u) /\ SameComponent(t, u) /\ SameBoundaries(t, u)
      /\ SameAnswers(t, u) /\ u.m_instances = t.m_instances /\ u.entities = t.entities
  BY <1>0 DEF State, SameScenes, SamePipe, SameComponent, SameBoundaries, SameAnswers
<1> HIDE DEF u
<1>9. TornBase(s, u)
  BY <1>7, <1>8 DEF Torn, TornBase, SameScenes, SamePipe, SameComponent, SameBoundaries, SameAnswers
<1>10. TornBoundaries(s, u) /\ TornControllers(s, u)
  BY <1>8 DEF Torn, TornBoundaries, TornControllers, SameBoundaries, SameScenes
<1>11. Pipeline(u) = Pipeline(t) BY <1>8 DEF Pipeline, SamePipe
<1>12. TornQueue(s, u, E) BY <1>11 DEF Torn, TornQueue
<1>13. s.m_instances[r].ticket => TornTickets(s, u, D \union {r})
  BY <1>2, <1>4, <1>7 DEF TornTickets
<1>14. s.m_instances[r].ticket => Torn(s, u, D \union {r}, E)
  BY <1>9, <1>10, <1>12, <1>13 DEF Torn
<1> QED BY <1>5, <1>6, <1>14

(* One record of the loop.                                                 *)
LEMMA TeardownTears ==
  ASSUME NEW s, NEW t, NEW D, NEW r \in Recs(s) \ D, Inv(s, {}), Torn(s, t, D, D)
  PROVE  Torn(s, Teardown(t, r), D \union {r}, D \union {r})
<1> DEFINE instance == s.m_instances[r].instance
           C == IF t.boundary[r] = "Cancelable" THEN [t EXCEPT !.boundary[r] = "Cancelled"] ELSE t
           A == DestroyAttached(C, r)
           U == Submit(A, "Unbind", instance, r, FALSE)
           V == Submit(U, "Reset", instance, r, FALSE)
           W == Submit(V, "Release", instance, r, FALSE)
           B == IF Accepted(t, r) THEN W ELSE A
           F == [B EXCEPT !.service[r] = Append(@, DropRequest(s))]
<1>0. /\ s \in State /\ Lifecycle(s) /\ r \in Requests /\ r \in Recs(s) /\ t.m_instances = s.m_instances
      /\ t.life = s.life /\ t.m_generation = s.m_generation
  BY RecordTyped DEF Inv, Shared, Torn, TornBase, SameComponent
<1>1. Teardown(t, r) = IF s.m_instances[r].ticket THEN F ELSE B
  <2>1. t.m_instances[r] = s.m_instances[r] BY <1>0
  <2>2. DropRequest(s) = [op |-> "Drop", generation |-> t.m_generation] BY <1>0 DEF DropRequest
  <2>3. CASE Accepted(t, r) BY <2>1, <2>2, <2>3 DEF Teardown
  <2>4. CASE ~Accepted(t, r) BY <2>1, <2>2, <2>4 DEF Teardown
  <2> HIDE DEF F, B
  <2> QED BY <2>3, <2>4
<1>2. Torn(s, C, D, D)
  <2>1. CASE t.boundary[r] = "Cancelable"
    <3>1. Torn(s, [t EXCEPT !.boundary[r] = "Cancelled"], D, D) BY <1>0, <2>1, TornClosed
    <3> QED BY <2>1, <3>1
  <2>2. CASE t.boundary[r] # "Cancelable" BY <2>2
  <2> QED BY <2>1, <2>2
<1> HIDE DEF C
<1>3. Torn(s, A, D, D) BY <1>0, <1>2, TornDetached
<1> HIDE DEF A
<1>4. Torn(s, B, D, D \union {r})
  <2>1. CASE Accepted(t, r)
    <3>1. Torn(s, U, D, D)
      <4>1. "Unbind" \in {"Unbind", "Reset", "Release"} OBVIOUS
      <4> QED BY <1>0, <1>3, <4>1, TornSubmitted, Zenon
    <3> HIDE DEF U
    <3>2. Torn(s, V, D, D)
      <4>1. "Reset" \in {"Unbind", "Reset", "Release"} OBVIOUS
      <4> QED BY <1>0, <3>1, <4>1, TornSubmitted, Zenon
    <3> HIDE DEF V
    <3>3. Torn(s, W, D, D \union {r})
      <4>1. "Release" \in {"Unbind", "Reset", "Release"} OBVIOUS
      <4> QED BY <1>0, <3>2, <4>1, TornSubmitted, Zenon
    <3> QED BY <2>1, <3>3
  <2>2. CASE ~Accepted(t, r)
    <3>1. ~Accepted(s, r) BY <1>0, <2>2 DEF Accepted, AcceptsCommands
    <3>2. ~Living(s) BY <1>0, <3>1, SceneOfRecord
    <3>3. TornQueue(s, A, D \union {r}) BY <1>3, <3>2 DEF Torn, TornQueue
    <3>4. Torn(s, A, D, D \union {r}) BY <1>3, <3>3 DEF Torn
    <3> QED BY <2>2, <3>4
  <2> QED BY <2>1, <2>2
<1> HIDE DEF B
<1>5. /\ s.m_instances[r].ticket => Torn(s, F, D \union {r}, D \union {r})
      /\ ~s.m_instances[r].ticket => Torn(s, B, D \union {r}, D \union {r})
  BY <1>0, <1>4, TornDropped
<1> HIDE DEF F
<1> QED BY <1>1, <1>5

TornUpTo(f, s, order, m) == f = [i \in 0 .. m |-> IF i = 0 THEN s ELSE Teardown(f[i - 1], order[i])]

(* The records are torn down one after the other.                          *)
LEMMA TornOneByOne ==
  ASSUME NEW s, NEW order, Len(order) \in Nat
  PROVE  \E f : /\ f[0] = s /\ \A i \in 1 .. Len(order) : f[i] = Teardown(f[i - 1], order[i])
                /\ TeardownAll(s, order) = f[Len(order)]
<1> DEFINE n == Len(order)
           S == {m \in 0 .. n : \E f : TornUpTo(f, s, order, m)}
<1>0. n \in Nat OBVIOUS
<1>1. 0 \in S
  <2>1. TornUpTo([i \in 0 .. 0 |-> s], s, order, 0) BY DEF TornUpTo
  <2> QED BY <1>0, <2>1
<1>2. ASSUME NEW m \in 1 .. n, m - 1 \in S PROVE m \in S
  <2>1. PICK f : TornUpTo(f, s, order, m - 1) BY <1>2
  <2> DEFINE g == [i \in 0 .. m |-> IF i = m THEN Teardown(f[m - 1], order[m]) ELSE f[i]]
  <2>2. m \in Nat /\ m >= 1 BY <1>0
  <2>3. \A i \in 0 .. m - 1 : g[i] = f[i] BY <2>2
  <2>4. g[m] = Teardown(f[m - 1], order[m]) BY <2>2
  <2>5. \A i \in 0 .. m - 1 : f[i] = IF i = 0 THEN s ELSE Teardown(f[i - 1], order[i])
    BY <2>1 DEF TornUpTo
  <2> HIDE DEF g
  <2>6. ASSUME NEW i \in 0 .. m PROVE g[i] = IF i = 0 THEN s ELSE Teardown(g[i - 1], order[i])
    <3>1. CASE i = m
      <4>1. m - 1 \in 0 .. m - 1 /\ i # 0 BY <2>2, <3>1
      <4> QED BY <2>3, <2>4, <3>1, <4>1
    <3>2. CASE i # m
      <4>1. i \in 0 .. m - 1 /\ (i # 0 => i - 1 \in 0 .. m - 1) BY <2>2, <3>2
      <4>2. g[i] = f[i] BY <2>3, <4>1
      <4>3. i # 0 => g[i - 1] = f[i - 1] BY <2>3, <4>1
      <4> QED BY <2>5, <4>1, <4>2, <4>3
    <3> QED BY <3>1, <3>2
  <2>7. g = [i \in 0 .. m |-> IF i = 0 THEN s ELSE Teardown(g[i - 1], order[i])]
    <3>1. g = [i \in 0 .. m |-> g[i]] BY DEF g
    <3> QED BY <2>6, <3>1, Zenon
  <2>8. TornUpTo(g, s, order, m) BY <2>7 DEF TornUpTo
  <2> QED BY <1>0, <2>8
<1>3. \E f : TornUpTo(f, s, order, n)
  <2>1. \A i \in 1 .. n : i - 1 \in S => i \in S BY <1>2
  <2> HIDE DEF S, n
  <2>2. 0 .. n \subseteq S BY <1>0, <1>1, <2>1, UpToBound
  <2>3. n \in S BY <1>0, <2>2
  <2> QED BY <2>3 DEF S
<1> DEFINE g == CHOOSE f : TornUpTo(f, s, order, n)
<1>4. TornUpTo(g, s, order, n) BY <1>3
<1>5. TeardownAll(s, order) = g[n] BY DEF TeardownAll, TornUpTo
<1> HIDE DEF g, n
<1>6. g[0] = s /\ \A i \in 1 .. n : g[i] = Teardown(g[i - 1], order[i])
  BY <1>0, <1>4 DEF TornUpTo
<1> QED BY <1>5, <1>6 DEF n

(* Each record is met once.                                                *)
LEMMA OrderCovers ==
  ASSUME NEW S, IsFiniteSet(S), NEW order \in SetToSeqs(S)
  PROVE  /\ Len(order) \in Nat
         /\ \A i \in 1 .. Len(order) : order[i] \in S
         /\ \A i, j \in 1 .. Len(order) : order[i] = order[j] => i = j
         /\ \A x \in S : \E i \in 1 .. Len(order) : order[i] = x
<1> DEFINE n == Cardinality(S)
<1>1. n \in Nat BY FS_CardinalityType
<1>2. order \in [1 .. n -> S] /\ \A i, j \in 1 .. n : i # j => order[i] # order[j]
  BY DEF SetToSeqs
<1>3. order \in Seq(S) /\ Len(order) = n BY <1>1, <1>2
<1>4. order \in Injection(1 .. n, S) BY <1>2 DEF Injection, IsInjective
<1>5. IsFiniteSet(1 .. n) /\ Cardinality(1 .. n) = n
  <2>1. IsFiniteSet(1 .. n) BY <1>1, FS_Interval
  <2>2. Cardinality(1 .. n) = IF 1 > n THEN 0 ELSE n - 1 + 1 BY <1>1, FS_Interval
  <2> QED BY <1>1, <2>1, <2>2
<1>6. order \in Surjection(1 .. n, S) BY <1>4, <1>5, FS_Injection
<1>7. \A x \in S : \E i \in 1 .. n : order[i] = x BY <1>6 DEF Surjection
<1> QED BY <1>1, <1>2, <1>3, <1>7

(* The loop over all records.                                              *)
LEMMA AllTorn ==
  ASSUME NEW s, Inv(s, {}), NEW order \in SetToSeqs(Recs(s))
  PROVE  Torn(s, TeardownAll(s, order), Recs(s), Recs(s))
<1> DEFINE n == Len(order)
           Done(i) == {order[j] : j \in 1 .. i}
<1>0. s \in State BY DEF Inv, Shared
<1>1. IsFiniteSet(Recs(s))
  <2>1. Recs(s) \subseteq Requests BY <1>0, RecordTyped
  <2>2. IsFiniteSet(Requests)
    <3>1. 1 \in Int /\ MaxSpawns \in Int BY BoundsAssumption
    <3> QED BY <3>1, FS_Interval DEF Requests
  <2> QED BY <2>1, <2>2, FS_Subset
<1>2. /\ n \in Nat /\ \A i \in 1 .. n : order[i] \in Recs(s)
      /\ \A i, j \in 1 .. n : order[i] = order[j] => i = j
      /\ \A x \in Recs(s) : \E i \in 1 .. n : order[i] = x
  BY <1>1, OrderCovers
<1>3. PICK f : /\ f[0] = s /\ \A i \in 1 .. n : f[i] = Teardown(f[i - 1], order[i])
               /\ TeardownAll(s, order) = f[n]
  BY <1>2, TornOneByOne
<1> DEFINE S == {i \in 0 .. n : Torn(s, f[i], Done(i), Done(i))}
<1>4. 0 \in S
  <2>1. Done(0) = {} OBVIOUS
  <2>2. TornBase(s, s) /\ TornBoundaries(s, s) /\ TornControllers(s, s) /\ TornTickets(s, s, {})
    BY <1>0 DEF TornBase, TornBoundaries, TornControllers, TornTickets, SameComponent, SameAnswers
  <2>3. TornQueue(s, s, {})
    <3>1. Len(Pipeline(s)) \in Nat BY <1>0, PipelineTyped
    <3> QED BY <3>1 DEF TornQueue
  <2>4. Torn(s, s, {}, {}) BY <2>2, <2>3 DEF Torn
  <2>5. 0 \in 0 .. n BY <1>2
  <2> QED BY <1>3, <2>1, <2>4, <2>5
<1>5. ASSUME NEW i \in 1 .. n, i - 1 \in S PROVE i \in S
  <2>1. i \in Nat /\ i - 1 \in Nat /\ i \in 0 .. n BY <1>2
  <2>2. Torn(s, f[i - 1], Done(i - 1), Done(i - 1)) BY <1>5
  <2>3. Done(i) = Done(i - 1) \union {order[i]} BY <2>1
  <2>4. order[i] \notin Done(i - 1) BY <1>2, <2>1
  <2>5. order[i] \in Recs(s) \ Done(i - 1) BY <1>2, <2>4
  <2> DEFINE D == Done(i - 1)
             r == order[i]
             t == f[i - 1]
  <2>6. Torn(s, Teardown(t, r), D \union {r}, D \union {r})
    <3> HIDE DEF D, r, t
    <3> QED BY <2>2, <2>5, TeardownTears DEF D, r, t
  <2>7. f[i] = Teardown(t, r) BY <1>3
  <2> QED BY <2>1, <2>3, <2>6, <2>7
<1>6. n \in S
  <2>1. \A i \in 1 .. n : i - 1 \in S => i \in S BY <1>5
  <2> HIDE DEF S, n
  <2>2. 0 .. n \subseteq S BY <1>2, <1>4, <2>1, UpToBound
  <2> QED BY <1>2, <2>2
<1>7. Done(n) = Recs(s) BY <1>2
<1> QED BY <1>3, <1>6, <1>7

(* Tickets of the records, before and after.                               *)
LEMMA TornTicketsHold ==
  ASSUME NEW s, NEW t, Inv(s, {}), TornBase(s, t), TornTickets(s, t, Recs(s)),
         NEW u, Recs(u) = {}, SameTickets(t, u), u.queued = t.queued,
         u.m_nextSpawnRequest = t.m_nextSpawnRequest
  PROVE  Tickets(u)
<1>0. s \in State /\ Shared(s) /\ Tickets(s) BY DEF Inv, Shared
<1>1. /\ u.entities = s.entities /\ u.service = t.service /\ u.queued = s.queued
      /\ u.m_nextSpawnRequest = s.m_nextSpawnRequest
  BY DEF TornBase, SameTickets, SameAnswers, SameComponent
<1>2. ASSUME NEW q \in Recs(s)
      PROVE  /\ q \in Requests /\ q < s.m_nextSpawnRequest
             /\ s.m_instances[q].ticket =>
                  /\ Len(u.service[q]) <= 2 /\ u.service[q] # <<>>
                  /\ u.service[q][Len(u.service[q])].op = "Drop"
                  /\ Len(u.service[q]) = 2 => u.service[q][2].op = "Drop" /\ u.service[q][1].op # "Drop"
                  /\ s.service[q] = <<>> => u.service[q][1].op = "Drop"
             /\ ~s.m_instances[q].ticket => u.service[q] = <<>> /\ q \notin u.entities
             /\ s.service[q] # <<>> => s.service[q][1].op # "Drop"
  <2>1. q \in Requests BY <1>0, RecordTyped
  <2>2. q < s.m_nextSpawnRequest BY <1>0 DEF Shared, Lifecycle
  <2>3. TicketIn(s, q, s.m_instances[q].state) BY DEF Inv, Fits
  <2> DEFINE v == s.service[q]
             w == u.service[q]
  <2>4. Len(v) <= 1 /\ (v # <<>> => v[1].op # "Drop" /\ s.m_instances[q].ticket)
        /\ (q \in s.entities => s.m_instances[q].ticket)
    BY <2>3, Len(<<>>) = 0 DEF TicketIn
  <2>5. CASE s.m_instances[q].ticket
    <3>1. w = Append(v, DropRequest(s)) BY <1>1, <2>1, <2>5 DEF TornTickets
    <3>2. v \in Seq(ServiceRequest) /\ DropRequest(s) \in ServiceRequest
      BY <1>0, <2>1, Typed DEF DropRequest, ServiceRequest
    <3>3. /\ Len(w) = Len(v) + 1 /\ Len(v) \in Nat
          /\ \A i \in 1 .. Len(v) + 1 : w[i] = IF i = Len(v) + 1 THEN DropRequest(s) ELSE v[i]
      BY <3>1, <3>2, Appended
    <3>4. DropRequest(s).op = "Drop" BY DEF DropRequest
    <3>5. v = <<>> => Len(v) = 0 BY Len(<<>>) = 0
    <3> HIDE DEF v, w
    <3>6. Len(v) \in {0, 1}
      <4>1. Len(v) <= 1 /\ Len(v) \in Nat BY <2>4, <3>3
      <4>2. \A n \in Nat : n <= 1 => n \in {0, 1} OBVIOUS
      <4> QED BY ONLY <4>1, <4>2, Zenon
    <3>7. CASE Len(v) = 0
      <4>1. Len(w) = 1 /\ w[1] = DropRequest(s) BY <3>3, <3>7
      <4>2. w # <<>>
        <5>1. Len(<<>>) = 0 OBVIOUS
        <5> QED BY ONLY <4>1, <5>1
      <4>3. Len(w) <= 2 /\ Len(w) # 2 BY <4>1
      <4> QED BY <2>1, <2>2, <2>4, <2>5, <3>4, <4>1, <4>2, <4>3 DEF v, w
    <3>8. CASE Len(v) = 1
      <4>1. Len(w) = 2 /\ w[2] = DropRequest(s) /\ w[1] = v[1] BY <3>3, <3>8
      <4>2. w # <<>> /\ v # <<>>
        <5>1. Len(<<>>) = 0 OBVIOUS
        <5> QED BY ONLY <3>8, <4>1, <5>1
      <4>3. Len(w) <= 2 BY <4>1
      <4> QED BY <2>1, <2>2, <2>4, <2>5, <3>4, <4>1, <4>2, <4>3 DEF v, w
    <3> QED BY <3>6, <3>7, <3>8
  <2>6. CASE ~s.m_instances[q].ticket
    <3>1. w = v BY <1>1, <2>1, <2>6 DEF TornTickets
    <3> QED BY <1>1, <2>1, <2>2, <2>4, <2>6, <3>1
  <2> QED BY <2>5, <2>6
<1>3. \A q \in Requests : q \notin Recs(s) => u.service[q] = s.service[q]
  BY <1>1 DEF TornTickets
<1>4. ASSUME NEW q \in Requests
      PROVE  LET v == u.service[q] IN
             /\ Len(v) <= 2
             /\ Len(v) = 2 => v[2].op = "Drop" /\ v[1].op # "Drop"
             /\ (q \notin Recs(u) /\ (q \in u.entities \/ v # <<>>)) => v # <<>> /\ v[Len(v)].op = "Drop"
             /\ q >= u.m_nextSpawnRequest => v = <<>> /\ q \notin u.entities
  <2>1. CASE q \notin Recs(s) BY <1>0, <1>1, <1>3, <2>1 DEF Tickets
  <2>2. CASE q \in Recs(s)
    <3>1. ~(q >= u.m_nextSpawnRequest) BY <1>0, <1>1, <1>2, <2>2, Typed, Numbers
    <3>2. CASE s.m_instances[q].ticket BY <1>2, <2>2, <3>1, <3>2
    <3>3. CASE ~s.m_instances[q].ticket
      <4>1. u.service[q] = <<>> /\ q \notin u.entities BY <1>2, <2>2, <3>3
      <4> QED BY <3>1, <4>1, Len(<<>>) = 0
    <3> QED BY <3>2, <3>3
  <2> QED BY <2>1, <2>2
<1>5. ASSUME NEW i \in 1 .. Len(u.queued), IsCallback(u.queued[i])
      PROVE  LET q == u.queued[i].request.value IN
             /\ q < u.m_nextSpawnRequest
             /\ u.service[q] # <<>> => u.service[q][1].op = "Drop"
  <2> DEFINE q == u.queued[i].request.value
  <2>1. q < s.m_nextSpawnRequest /\ (s.service[q] # <<>> => s.service[q][1].op = "Drop")
    BY <1>0, <1>1, <1>5 DEF Tickets
  <2>2. q \in Requests BY <1>0, <1>1, <1>5, QueuedTyped
  <2> HIDE DEF q
  <2>3. CASE q \notin Recs(s) BY <1>1, <1>3, <2>1, <2>2, <2>3 DEF q
  <2>4. CASE q \in Recs(s)
    <3>1. s.service[q] = <<>> BY <1>2, <2>1, <2>4
    <3> QED BY <1>1, <1>2, <2>1, <2>4, <3>1 DEF q
  <2> QED BY <2>3, <2>4
<1> QED BY <1>4, <1>5 DEF Tickets

(* What is left when the loop has ended.                                   *)
LEMMA TornDown ==
  ASSUME NEW s, NEW t, Inv(s, {}), Torn(s, t, Recs(s), Recs(s))
  PROVE  Inv(NewGeneration(t, "Inactive"), {})
<1> DEFINE u == NewGeneration(t, "Inactive")
<1>0. s \in State /\ Shared(s) /\ t \in State BY DEF Inv, Shared, Torn, TornBase
<1>1. /\ u \in State /\ SameButComponent(t, u) /\ Recs(u) = {}
      /\ u.m_lifecycle = "Inactive" /\ u.m_spawner = NoScene
  <2>1. "Inactive" \in {"Inactive", "Registering", "Failed"} OBVIOUS
  <2> QED BY <1>0, <2>1, NewGenerationEffect, Zenon
<1> HIDE DEF u
<1>2. /\ u.life = s.life /\ u.slots = s.slots /\ u.controllers = t.controllers
      /\ u.m_nextCommandId = s.m_nextCommandId /\ Pipeline(u) = Pipeline(t)
      /\ u.queued = s.queued /\ u.answers = s.answers /\ u.despawnAnswers = s.despawnAnswers
      /\ u.m_nextSpawnRequest = s.m_nextSpawnRequest /\ u.m_nextDespawnRequest = s.m_nextDespawnRequest
      /\ u.boundary = t.boundary /\ u.prepared = s.prepared /\ u.cancelled = s.cancelled
  BY <1>1 DEF SameButComponent, SameScenes, SamePipe, SameBoundaries, SameAnswers, Pipeline,
              Torn, TornBase, SameComponent
<1>3. Lifecycle(u) BY <1>0, <1>1, <1>2 DEF Shared, Lifecycle
<1>4. Answering(u) BY <1>0, <1>1, <1>2 DEF Shared, Answering
<1>5. Boundaries(u)
  <2>1. \A q \in Requests : u.boundary[q] = s.boundary[q] \/ s.boundary[q] = "Cancelable"
    BY <1>2 DEF Torn, TornBoundaries
  <2>2. \A q \in s.cancelled : q \in Requests BY <1>0, Typed
  <2>3. \A i \in 1 .. Len(s.queued) : s.queued[i].kind = "Spawned" => s.queued[i].request.value \in Requests
    BY <1>0, QueuedTyped DEF IsCallback
  <2> QED BY <1>0, <1>2, <2>1, <2>2, <2>3 DEF Shared, Boundaries
<1>6. Tickets(u)
  BY <1>1, <1>2, TornTicketsHold DEF Torn, SameButComponent, SameAnswers
<1>7. /\ Pipeline(s) \in Seq(Command) /\ Len(Pipeline(s)) \in Nat /\ Len(Pipeline(u)) \in Nat
      /\ Len(Pipeline(u)) >= Len(Pipeline(s))
      /\ \A i \in 1 .. Len(Pipeline(s)) : Pipeline(u)[i] = Pipeline(s)[i] /\ i \in 1 .. Len(Pipeline(u))
      /\ \A i \in 1 .. Len(Pipeline(u)) : i > Len(Pipeline(s)) =>
           /\ Pipeline(u)[i] \in SlotCommand /\ Pipeline(u)[i].id = NoCommand
           /\ Pipeline(u)[i].type # "Detach" /\ Pipeline(u)[i].slot.scene = s.m_spawner
  <2>1. TornQueue(s, t, Recs(s)) BY DEF Torn
  <2>2. Len(Pipeline(s)) \in Nat /\ Len(Pipeline(u)) \in Nat /\ Pipeline(s) \in Seq(Command)
    BY <1>0, <1>1, PipelineTyped
  <2> QED BY <1>2, <2>1, <2>2 DEF TornQueue
<1>8. \A r \in Recs(s) : Living(s) => \E k \in 1 .. Len(Pipeline(u)) :
        k > Len(Pipeline(s)) /\ ReleaseOf(Pipeline(u)[k], HandleOf(s, r))
  BY <1>2 DEF Torn, TornQueue
<1>9. \A i \in 1 .. Len(Pipeline(u)) :
        i \in 1 .. Len(Pipeline(s)) \/ i > Len(Pipeline(s))
  BY <1>7
<1>10. Queue(u)
  <2>1. s.m_nextCommandId > 0 /\ s.m_nextCommandId \in Nat BY <1>0, Typed DEF Shared, Queue
  <2>2. ASSUME NEW i \in 1 .. Len(Pipeline(u)), Slotted(Pipeline(u)[i])
        PROVE  /\ u.life[Pipeline(u)[i].slot.scene] \notin Unbuilt
               /\ Pipeline(u)[i].id < u.m_nextCommandId
               /\ Pipeline(u)[i].slot.scene # u.m_spawner
               /\ Pipeline(u)[i].id # NoCommand => i \in 1 .. Len(Pipeline(s))
    <3>1. Pipeline(u)[i].slot.scene \in Scene BY <1>1, <2>2, PipelineTyped
    <3>2. Pipeline(u)[i].slot.scene # u.m_spawner BY <1>1, <3>1, Numbers
    <3>3. CASE i \in 1 .. Len(Pipeline(s))
      <4>1. Pipeline(u)[i] = Pipeline(s)[i] BY <1>7, <3>3
      <4>2. s.life[Pipeline(s)[i].slot.scene] \notin Unbuilt /\ Pipeline(s)[i].id < s.m_nextCommandId
        BY <1>0, <2>2, <3>3, <4>1 DEF Shared, Queue
      <4> QED BY <1>2, <3>2, <3>3, <4>1, <4>2
    <3>4. CASE i > Len(Pipeline(s))
      <4>1. Pipeline(u)[i].id = NoCommand /\ Pipeline(u)[i].slot.scene = s.m_spawner BY <1>7, <3>4
      <4>2. s.m_lifecycle = "Ready"
        BY <1>0, <3>1, <4>1, Numbers DEF Shared, Lifecycle
      <4>3. s.life[s.m_spawner] \notin Unbuilt BY <1>0, <4>2 DEF Shared, Lifecycle
      <4>4. NoCommand < s.m_nextCommandId BY <2>1, Numbers
      <4> QED BY <1>2, <3>2, <4>1, <4>3, <4>4
    <3> QED BY <1>9, <3>3, <3>4
  <2>3. ASSUME NEW i \in 1 .. Len(Pipeline(u)), Slotted(Pipeline(u)[i]), Pipeline(u)[i].id # NoCommand,
               NEW j \in 1 .. Len(Pipeline(u)), Slotted(Pipeline(u)[j]),
               Pipeline(u)[j].id = Pipeline(u)[i].id
        PROVE  j = i
    <3>1. i \in 1 .. Len(Pipeline(s)) /\ j \in 1 .. Len(Pipeline(s)) BY <2>2, <2>3
    <3>2. Pipeline(u)[i] = Pipeline(s)[i] /\ Pipeline(u)[j] = Pipeline(s)[j] BY <1>7, <3>1
    <3> QED BY <1>0, <2>3, <3>1, <3>2 DEF Shared, Queue
  <2> QED BY <1>1, <1>2, <2>1, <2>2, <2>3 DEF Queue
<1>11. u.controllers \subseteq s.controllers /\ (\A instance \in s.controllers :
         instance \notin u.controllers => Holds(s, instance.slot))
  BY <1>2 DEF Torn, TornControllers
<1>12. Leases(u)
  <2>1. ~Living(u) BY <1>1, Numbers DEF Living
  <2> QED BY <1>0, <1>1, <1>2, <1>11, <2>1 DEF Shared, Leases
<1>13. ASSUME NEW h, h.scene \in Scene, s.life[h.scene] = "Alive", Holds(s, h)
       PROVE  \E k \in 1 .. Len(Pipeline(u)) : k > Len(Pipeline(s)) /\ ReleaseOf(Pipeline(u)[k], h)
  <2>1. PICK r \in Recs(s) : HandleOf(s, r) = h BY <1>13 DEF Holds
  <2>2. Living(s)
    <3>1. h.scene = s.m_spawner BY <1>0, <2>1, SceneOfRecord DEF Shared
    <3> QED BY <1>13, <3>1 DEF Living
  <2> QED BY <1>8, <2>1, <2>2
<1>14. Stranding(u)
  <2>1. ASSUME NEW scene \in Scene, NEW i \in Slot, u.life[scene] = "Alive", u.slots[scene][i].reserved,
               NEW h, h = [scene |-> scene, slot |-> i, generation |-> u.slots[scene][i].generation]
        PROVE  HasControllers(u, h) \/ \E k \in 1 .. Len(Pipeline(u)) : ReleaseOf(Pipeline(u)[k], h)
    <3>1. \/ Holds(s, h) \/ HasControllers(s, h)
          \/ \E k \in 1 .. Len(Pipeline(s)) : ReleaseOf(Pipeline(s)[k], h)
      BY <1>0, <1>2, <2>1 DEF Shared, Stranding
    <3>2. h.scene = scene /\ s.life[h.scene] = "Alive" BY <1>2, <2>1
    <3>3. CASE Holds(s, h) BY <1>13, <3>2, <3>3
    <3>4. CASE ~Holds(s, h) /\ HasControllers(s, h) BY <1>11, <3>4 DEF HasControllers
    <3>5. CASE \E k \in 1 .. Len(Pipeline(s)) : ReleaseOf(Pipeline(s)[k], h) BY <1>7, <3>5
    <3> QED BY <3>1, <3>3, <3>4, <3>5
  <2>2. ASSUME NEW k \in 1 .. Len(Pipeline(u)), Pipeline(u)[k].type = "Detach",
               u.life[Pipeline(u)[k].slot.scene] = "Alive"
        PROVE  \E m \in 1 .. Len(Pipeline(u)) : m > k /\ ReleaseOf(Pipeline(u)[m], Pipeline(u)[k].slot)
    <3>1. k \in 1 .. Len(Pipeline(s)) /\ Pipeline(u)[k] = Pipeline(s)[k] BY <1>7, <1>9, <2>2
    <3> DEFINE h == Pipeline(s)[k].slot
    <3>2. Slotted(Pipeline(s)[k]) BY <2>2, <3>1 DEF Slotted, SlotTypes
    <3>3. h.scene \in Scene BY <1>0, <3>1, <3>2, PipelineTyped
    <3>4. s.life[h.scene] = "Alive" BY <1>2, <2>2, <3>1
    <3> HIDE DEF h
    <3>5. CASE Holds(s, h)
      <4>1. PICK m \in 1 .. Len(Pipeline(u)) : m > Len(Pipeline(s)) /\ ReleaseOf(Pipeline(u)[m], h)
        BY <1>13, <3>3, <3>4, <3>5
      <4>2. m > k BY <1>7, <3>1, <4>1
      <4> QED BY <3>1, <4>1, <4>2 DEF h
    <3>6. CASE ~Holds(s, h)
      <4>1. PICK m \in 1 .. Len(Pipeline(s)) : m > k /\ ReleaseOf(Pipeline(s)[m], h)
        BY <1>0, <2>2, <3>1, <3>4, <3>6 DEF Shared, Stranding, h
      <4> QED BY <1>7, <3>1, <4>1 DEF h
    <3> QED BY <3>5, <3>6
  <2> QED BY <2>1, <2>2 DEF Stranding
<1>15. Inv(u, {})
  BY <1>1, <1>3, <1>4, <1>5, <1>6, <1>10, <1>12, <1>14 DEF Inv, Shared
<1> QED BY <1>15 DEF u

(* Deactivate as a whole.                                                  *)
LEMMA DeactivateKeeps ==
  ASSUME NEW s, Inv(s, {}), NEW order \in SetToSeqs(Recs(s))
  PROVE  Inv(NewGeneration(TeardownAll(s, order), "Inactive"), {})
BY AllTorn, TornDown

-----------------------------------------------------------------------------
(* Every step                                                              *)

(* The next state of the record is what an action makes of it.             *)
LEMMA Becomes ==
  ASSUME NEW t, Inv(t, {}), Become(t)
  PROVE  Inv(Now, {})'
<1>1. t \in State BY DEF Inv, Shared
<1>2. Now' = t BY <1>1 DEF Become, Now, State
<1> QED BY <1>2

(* The initial state.                                                      *)
LEMMA InitInv == Init => Inv(Now, {})
<1> SUFFICES ASSUME Init PROVE Inv(Now, {}) OBVIOUS
<1> DEFINE s == Now
<1>1. /\ s.life = [scene \in Scene |-> "None"] /\ s.slots = [scene \in Scene |-> DormantSlots]
      /\ s.controllers = {} /\ s.m_commands = <<>> /\ s.draining = <<>> /\ s.m_nextCommandId = 1
      /\ s.m_lifecycle = "Inactive" /\ s.m_generation = 0 /\ s.m_spawner = NoScene
      /\ s.m_instances = <<>> /\ s.m_nextSpawnRequest = 1 /\ s.m_nextDespawnRequest = 1
      /\ s.boundary = [r \in Requests |-> "Cancelable"] /\ s.prepared = [r \in Requests |-> "no"]
      /\ s.service = [r \in Requests |-> <<>>] /\ s.entities = {} /\ s.queued = <<>>
      /\ s.answers = [r \in Requests |-> <<>>]
      /\ s.despawnAnswers = [d \in 1 .. MaxDespawns |-> <<>>]
      /\ s.instanceOf = [r \in Requests |-> NoInstance] /\ s.cancelled = {}
  BY DEF Init, Now
<1>2. <<>> \in Instances /\ Recs(s) = {}
  <2>1. DOMAIN <<>> = {} OBVIOUS
  <2>2. <<>> \in [{} -> InstanceRecord] BY <2>1
  <2>3. {} \in SUBSET Requests OBVIOUS
  <2>4. <<>> \in Instances BY <2>1, <2>2, <2>3, Zenon DEF Instances
  <2> QED BY <1>1, <2>1, <2>4 DEF Recs
<1>3. [scene \in Scene |-> DormantSlots] \in [Scene -> [Slot -> RuntimeSlot]]
  <2>1. DormantSlot \in RuntimeSlot
    BY GenerationAssumption, Numbers DEF DormantSlot, RuntimeSlot, Generations
  <2> QED BY <2>1 DEF DormantSlots
<1>4. s \in State
  <2>1. [scene \in Scene |-> "None"] \in [Scene -> Lives] BY DEF Lives
  <2>2. /\ [r \in Requests |-> "Cancelable"] \in [Requests -> {"Cancelable", "Cancelled", "Committed"}]
        /\ [r \in Requests |-> "no"] \in [Requests -> {"no", "yes", "error"}]
        /\ [r \in Requests |-> <<>>] \in [Requests -> Answers]
        /\ [r \in Requests |-> NoInstance] \in [Requests -> InstanceHandle \union {NoInstance}]
    BY DEF Answers
  <2>3. [r \in Requests |-> <<>>] \in [Requests -> Seq(ServiceRequest)] OBVIOUS
  <2>4. [d \in 1 .. MaxDespawns |-> <<>>] \in [DespawnRequests -> Answers] BY DEF Answers, DespawnRequests
  <2>5. <<>> \in Seq(Command) /\ <<>> \in Seq(Function) OBVIOUS
  <2>6. 0 \in Nat /\ 1 \in Nat /\ NoScene \in Scene \union {NoScene} OBVIOUS
  <2>7. life = [scene \in Scene |-> "None"] /\ slots = [scene \in Scene |-> DormantSlots]
        /\ controllers = {} /\ m_commands = <<>> /\ draining = <<>> /\ m_nextCommandId = 1
        /\ m_lifecycle = "Inactive" /\ m_generation = 0 /\ m_spawner = NoScene
        /\ m_instances = <<>> /\ m_nextSpawnRequest = 1 /\ m_nextDespawnRequest = 1
        /\ boundary = [r \in Requests |-> "Cancelable"] /\ prepared = [r \in Requests |-> "no"]
        /\ service = [r \in Requests |-> <<>>] /\ entities = {} /\ queued = <<>>
        /\ answers = [r \in Requests |-> <<>>]
        /\ despawnAnswers = [d \in 1 .. MaxDespawns |-> <<>>]
        /\ instanceOf = [r \in Requests |-> NoInstance] /\ cancelled = {}
    BY DEF Init
  <2>8. /\ life \in [Scene -> Lives] /\ slots \in [Scene -> [Slot -> RuntimeSlot]]
        /\ controllers \in SUBSET InstanceHandle /\ m_commands \in Seq(Command)
        /\ draining \in Seq(Command) /\ m_nextCommandId \in Nat
        /\ m_lifecycle \in {"Inactive", "Registering", "Ready", "Failed"} /\ m_generation \in Nat
        /\ m_spawner \in Scene \union {NoScene} /\ m_instances \in Instances
        /\ m_nextSpawnRequest \in Nat /\ m_nextDespawnRequest \in Nat
    BY <1>2, <1>3, <2>1, <2>5, <2>6, <2>7
  <2>9. /\ boundary \in [Requests -> {"Cancelable", "Cancelled", "Committed"}]
        /\ prepared \in [Requests -> {"no", "yes", "error"}]
        /\ service \in [Requests -> Seq(ServiceRequest)] /\ entities \in SUBSET Requests
        /\ queued \in Seq(Function) /\ answers \in [Requests -> Answers]
        /\ despawnAnswers \in [DespawnRequests -> Answers]
        /\ instanceOf \in [Requests -> InstanceHandle \union {NoInstance}]
        /\ cancelled \in SUBSET Requests
    BY <2>2, <2>3, <2>4, <2>5, <2>7
  <2> QED BY ONLY <2>8, <2>9 DEF Now, State
<1> HIDE DEF s
<1>5. Pipeline(s) = <<>> /\ Len(Pipeline(s)) = 0
  <2>1. Pipeline(s) = <<>> \o <<>> BY <1>1 DEF Pipeline
  <2> QED BY <2>1
<1>6. Len(s.queued) = 0 BY <1>1
<1>7. Lifecycle(s)
  <2>1. 1 \in 1 .. MaxSpawns + 1 /\ 1 \in 1 .. MaxDespawns + 1 BY Numbers
  <2> QED BY <1>1, <1>2, <2>1 DEF Lifecycle
<1>8. Answering(s)
  <2>1. \A d \in DespawnRequests : s.despawnAnswers[d] = <<>> BY <1>1 DEF DespawnRequests
  <2>2. \A r \in Requests : s.answers[r] = <<>> BY <1>1
  <2>3. \A i \in 1 .. Len(s.queued) : FALSE BY <1>6
  <2> QED BY ONLY <1>2, <2>1, <2>2, <2>3, Zenon DEF Answering
<1>9. Boundaries(s) BY <1>1, <1>6 DEF Boundaries
<1>10. Tickets(s) BY <1>1, <1>6, Len(<<>>) = 0 DEF Tickets
<1>11. Queue(s) BY <1>1, <1>2, <1>5 DEF Queue
<1>12. Leases(s)
  <2>1. \A scene \in Scene, i \in Slot : s.slots[scene][i] = DormantSlot BY <1>1 DEF DormantSlots
  <2> QED BY <1>1, <1>2, <2>1 DEF Leases, DormantSlot
<1>13. Stranding(s)
  <2>1. \A scene \in Scene : s.life[scene] # "Alive" BY <1>1
  <2> QED BY <1>5, <2>1 DEF Stranding
<1>14. Inv(s, {})
  BY <1>2, <1>4, <1>7, <1>8, <1>9, <1>10, <1>11, <1>12, <1>13 DEF Inv, Shared
<1> QED BY <1>14 DEF s

(* The fields of the record are the variables.                             *)
LEMMA NowFields ==
  /\ Now.life = life /\ Now.slots = slots /\ Now.controllers = controllers
  /\ Now.m_commands = m_commands /\ Now.draining = draining
  /\ Now.m_nextCommandId = m_nextCommandId /\ Now.m_lifecycle = m_lifecycle
  /\ Now.m_generation = m_generation /\ Now.m_spawner = m_spawner
  /\ Now.m_instances = m_instances /\ Now.m_nextSpawnRequest = m_nextSpawnRequest
  /\ Now.m_nextDespawnRequest = m_nextDespawnRequest /\ Now.boundary = boundary
  /\ Now.prepared = prepared /\ Now.service = service /\ Now.entities = entities
  /\ Now.queued = queued /\ Now.answers = answers
  /\ Now.despawnAnswers = despawnAnswers /\ Now.instanceOf = instanceOf
  /\ Now.cancelled = cancelled
BY DEF Now

(* Requests made of the component.                                         *)
LEMMA RequestSteps ==
  ASSUME Inv(Now, {})
  PROVE  /\ \A finite \in BOOLEAN : Spawn(finite) => Inv(Now, {})'
         /\ \A instance \in Announced, closes \in BOOLEAN :
              Despawn(instance, closes) => Inv(Now, {})'
         /\ \A r \in Requests : CancelSpawn(r) => Inv(Now, {})'
<1>1. ASSUME NEW finite \in BOOLEAN, Spawn(finite) PROVE Inv(Now, {})'
  <2>1. Become(SpawnStep(Now, finite)) BY <1>1, NowFields DEF Spawn, SpawnStep
  <2>2. Now.m_nextSpawnRequest
          + (IF Now.m_lifecycle = "Registering" THEN InitialSpawnCount ELSE 0) <= MaxSpawns
    BY <1>1, NowFields DEF Spawn
  <2>3. Inv(SpawnStep(Now, finite), {}) BY <2>2, SpawnKeeps
  <2> QED BY <2>1, <2>3, Becomes
<1>2. ASSUME NEW instance \in Announced, NEW closes \in BOOLEAN, Despawn(instance, closes)
      PROVE Inv(Now, {})'
  <2>1. Become(DespawnStep(Now, instance, closes))
    BY <1>2, NowFields DEF Despawn, DespawnStep, Holder, TakeDespawn
  <2>2. Now.m_nextDespawnRequest <= MaxDespawns BY <1>2, NowFields DEF Despawn
  <2>3. Inv(DespawnStep(Now, instance, closes), {}) BY <2>2, DespawnKeeps
  <2> QED BY <2>1, <2>3, Becomes
<1>3. ASSUME NEW r \in Requests, CancelSpawn(r) PROVE Inv(Now, {})'
  <2> DEFINE t == Now'
  <2>1. Now \in State /\ Now.boundary[r] = "Cancelable"
    BY <1>3, NowFields DEF CancelSpawn, Inv, Shared
  <2>2. /\ life' = life /\ slots' = slots /\ controllers' = controllers
        /\ m_commands' = m_commands /\ draining' = draining
        /\ m_nextCommandId' = m_nextCommandId /\ m_lifecycle' = m_lifecycle
        /\ m_generation' = m_generation /\ m_spawner' = m_spawner
        /\ m_instances' = m_instances /\ m_nextSpawnRequest' = m_nextSpawnRequest
        /\ m_nextDespawnRequest' = m_nextDespawnRequest
        /\ boundary' = [boundary EXCEPT ![r] = "Cancelled"]
        /\ prepared' = prepared /\ service' = service /\ entities' = entities
        /\ queued' = queued /\ answers' = answers
        /\ despawnAnswers' = despawnAnswers /\ instanceOf' = instanceOf
        /\ cancelled' = cancelled \union {r}
    BY <1>3 DEF CancelSpawn
  <2>3. boundary \in [Requests -> {"Cancelable", "Cancelled", "Committed"}]
        /\ cancelled \in SUBSET Requests
    BY <2>1, NowFields DEF State
  <2>4. [boundary EXCEPT ![r] = "Cancelled"] \in [Requests -> {"Cancelable", "Cancelled", "Committed"}]
        /\ cancelled \union {r} \in SUBSET Requests
    BY <2>3
  <2>5. /\ life \in [Scene -> Lives] /\ slots \in [Scene -> [Slot -> RuntimeSlot]]
        /\ controllers \in SUBSET InstanceHandle /\ m_commands \in Seq(Command)
        /\ draining \in Seq(Command) /\ m_nextCommandId \in Nat
        /\ m_lifecycle \in {"Inactive", "Registering", "Ready", "Failed"} /\ m_generation \in Nat
        /\ m_spawner \in Scene \union {NoScene} /\ m_instances \in Instances
        /\ m_nextSpawnRequest \in Nat /\ m_nextDespawnRequest \in Nat
        /\ prepared \in [Requests -> {"no", "yes", "error"}]
        /\ service \in [Requests -> Seq(ServiceRequest)] /\ entities \in SUBSET Requests
        /\ queued \in Seq(Function) /\ answers \in [Requests -> Answers]
        /\ despawnAnswers \in [DespawnRequests -> Answers]
        /\ instanceOf \in [Requests -> InstanceHandle \union {NoInstance}]
    BY <2>1, NowFields DEF State
  <2>6. t \in State BY ONLY <2>2, <2>4, <2>5 DEF Now, State
  <2>7. Cancels(Now, t, r)
    BY <2>2 DEF Now, Cancels, SameScenes, SamePipe, SameComponent, SameTickets, SameAnswers
  <2> HIDE DEF t
  <2>8. Inv(t, {}) BY <2>1, <2>6, <2>7, CancelKeeps
  <2> QED BY <2>8 DEF t
<1> QED BY <1>1, <1>2, <1>3

(* The component's and the level's steps.                                  *)
LEMMA LifecycleSteps ==
  ASSUME Inv(Now, {})
  PROVE  /\ \A registered \in BOOLEAN : Activate(registered) => Inv(Now, {})'
         /\ Deactivate => Inv(Now, {})'
         /\ \A scene \in Scene :
              (LevelBuilds(scene) \/ LevelFails(scene) \/ LevelDestroys(scene)) => Inv(Now, {})'
<1>1. ASSUME NEW registered \in BOOLEAN, Activate(registered) PROVE Inv(Now, {})'
  <2> DEFINE x == IF registered THEN "Registering" ELSE "Failed"
  <2>1. x \in {"Registering", "Failed"} OBVIOUS
  <2>2. Become(NewGeneration(Now, x)) BY <1>1 DEF Activate
  <2>3. Now.m_lifecycle = "Inactive" /\ Now.m_nextSpawnRequest + InitialSpawnCount <= MaxSpawns + 1
    BY <1>1, NowFields DEF Activate
  <2> HIDE DEF x
  <2>4. Inv(NewGeneration(Now, x), {}) BY <2>1, <2>3, ActivateKeeps
  <2> QED BY <2>2, <2>4, Becomes
<1>2. ASSUME Deactivate PROVE Inv(Now, {})'
  <2>1. PICK order \in SetToSeqs(Recs(Now)) : Become(NewGeneration(TeardownAll(Now, order), "Inactive"))
    BY <1>2, NowFields DEF Deactivate, Recs
  <2>2. Inv(NewGeneration(TeardownAll(Now, order), "Inactive"), {}) BY DeactivateKeeps
  <2> QED BY <2>1, <2>2, Becomes
<1>3. ASSUME NEW scene \in Scene, LevelBuilds(scene) PROVE Inv(Now, {})'
  <2> DEFINE c == [type |-> "Create", scene |-> scene]
  <2>1. Become(Enqueue([Now EXCEPT !.life[scene] = "Pending"], c)) BY <1>3 DEF LevelBuilds, CreateScene
  <2>2. Now.life[scene] = "None" BY <1>3, NowFields DEF LevelBuilds
  <2>3. c \in SceneCommand /\ "Pending" \in Lives /\ "None" \in Unbuilt
    BY DEF SceneCommand, Lives, Unbuilt
  <2> HIDE DEF c
  <2>4. Inv(Enqueue([Now EXCEPT !.life[scene] = "Pending"], c), {})
    BY <2>2, <2>3, SceneQueuedKeeps
  <2> QED BY <2>1, <2>4, Becomes
<1>4. ASSUME NEW scene \in Scene, LevelFails(scene) PROVE Inv(Now, {})'
  <2>1. Become(OnScenePolytreeRegistrationFailed(Now, scene)) BY <1>4 DEF LevelFails
  <2>2. Inv(OnScenePolytreeRegistrationFailed(Now, scene), {}) BY RegistrationFailedKeeps
  <2> QED BY <2>1, <2>2, Becomes
<1>5. ASSUME NEW scene \in Scene, LevelDestroys(scene) PROVE Inv(Now, {})'
  <2> DEFINE c == [type |-> "Destroy", scene |-> scene]
  <2>1. Become(Enqueue([Now EXCEPT !.life[scene] = "Destroying"], c))
    BY <1>5 DEF LevelDestroys, DestroyScene
  <2>3. c \in SceneCommand /\ "Destroying" \in Lives /\ "Destroying" \notin Unbuilt
    BY DEF SceneCommand, Lives, Unbuilt
  <2> HIDE DEF c
  <2>4. Inv(Enqueue([Now EXCEPT !.life[scene] = "Destroying"], c), {})
    BY <2>3, SceneQueuedKeeps
  <2> QED BY <2>1, <2>4, Becomes
<1> QED BY <1>1, <1>2, <1>3, <1>4, <1>5

(* The system's tick.                                                      *)
LEMMA TickSteps ==
  ASSUME Inv(Now, {}), TickStep
  PROVE  Inv(Now, {})'
<1>1. CASE OnTick
  <2>1. Become(SwapCommands(Now)) /\ Now.draining = <<>> BY <1>1, NowFields DEF OnTick
  <2>2. Inv(SwapCommands(Now), {}) BY <2>1, SwapKeeps
  <2> QED BY <2>1, <2>2, Becomes
<1>2. ASSUME NEW valid, NEW ticketValid, ProcessSlotCommand(valid, ticketValid)
      PROVE  Inv(Now, {})'
  <2> DEFINE c == NextCommand(Now)
             w == Process(Now, valid)
             x == OnScenePolytreeCommandCompleted(w, c, Result(PopCommand(Now), c, valid), ticketValid)
  <2>1. Now.draining # <<>> /\ c.type \notin {"Create", "Destroy"}
    BY <1>2, NowFields DEF ProcessSlotCommand
  <2>2. Become(IF c.id = NoCommand THEN w ELSE x) BY <1>2 DEF ProcessSlotCommand
  <2>3. (c.id = NoCommand => Inv(w, {})) /\ (c.id # NoCommand => Inv(x, {}))
    BY <2>1, SlotCommandKeeps
  <2> HIDE DEF c, w, x
  <2>4. CASE c.id = NoCommand
    <3>1. Become(w) /\ Inv(w, {}) BY <2>2, <2>3, <2>4
    <3> QED BY <3>1, Becomes
  <2>5. CASE c.id # NoCommand
    <3>1. Become(x) /\ Inv(x, {}) BY <2>2, <2>3, <2>5
    <3> QED BY <3>1, Becomes
  <2> QED BY <2>4, <2>5
<1>3. ASSUME NEW valid, NEW usable, ProcessSceneCommand(valid, usable)
      PROVE  Inv(Now, {})'
  <2> DEFINE c == NextCommand(Now)
             w == Process(Now, valid)
             x == IF c.type = "Destroy" \/ Now.life[c.scene] # "Pending" THEN w
                  ELSE IF w.life[c.scene] = "Alive"
                  THEN OnScenePolytreeRegistrationReady(w, c.scene, usable)
                  ELSE OnScenePolytreeRegistrationFailed(w, c.scene)
  <2>1. Now.draining # <<>> /\ c.type \in {"Create", "Destroy"}
    BY <1>3, NowFields DEF ProcessSceneCommand
  <2>2. Become(x) BY <1>3, NowFields DEF ProcessSceneCommand
  <2>3. Inv(x, {}) BY <2>1, SceneCommandKeeps
  <2> HIDE DEF x
  <2> QED BY <2>2, <2>3, Becomes
<1> QED BY <1>1, <1>2, <1>3 DEF TickStep

(* The spawn service.                                                      *)
LEMMA ServiceSteps ==
  ASSUME Inv(Now, {}), NEW r \in Requests, ServiceStep(r)
  PROVE  Inv(Now, {})'
<1> DEFINE v == Now.service[r]
<1>0. Now \in State /\ Now.service = service /\ Now.entities = entities BY NowFields DEF Inv, Shared
<1>1. ASSUME NEW valid \in BOOLEAN, ServicePrepares(r, valid) PROVE Inv(Now, {})'
  <2>1. v # <<>> /\ Head(v).op = "Spawn" BY <1>0, <1>1 DEF ServicePrepares, ServiceOp
  <2>2. Become(PrepareStep(Now, r, valid)) BY <1>1 DEF ServicePrepares, PrepareStep
  <2>3. Inv(PrepareStep(Now, r, valid), {}) BY <2>1, PreparesKeeps
  <2> QED BY <2>2, <2>3, Becomes
<1>2. ASSUME v # <<>> PROVE Asked(r) \in RequestHandle /\ Asked(r).value = r
  <2>1. v \in Seq(ServiceRequest) BY <1>0 DEF State
  <2>2. Head(v) \in ServiceRequest BY <1>2, <2>1, Shifted
  <2> QED BY <1>0, <2>2 DEF Asked, RequestHandle, ServiceRequest
<1>3. ASSUME NEW valid \in BOOLEAN, NEW declares \in Declares, ServiceInserts(r, valid, declares)
      PROVE  Inv(Now, {})'
  <2> DEFINE E == Now.entities \union {r}
             f == [kind |-> "Spawned", request |-> Asked(r),
                   error |-> CollectFails(Now, r, valid), declares |-> declares]
  <2>1. v # <<>> /\ Head(v).op = "Insert" BY <1>0, <1>3 DEF ServiceInserts, ServiceOp
  <2>2. /\ CollectFails(Now, r, valid) \in BOOLEAN
        /\ ~CollectFails(Now, r, valid) => Now.prepared[r] = "yes"
    BY DEF CollectFails
  <2>3. declares \in BOOLEAN BY ConfigurationAssumption
  <2>4. /\ f \in SpawnedFunction \union DespawnedFunction /\ f.request.value = r
        /\ f.kind = "Spawned" /\ (~f.error => Now.prepared[r] = "yes")
    <3>1. Asked(r) \in RequestHandle /\ Asked(r).value = r BY <1>2, <2>1
    <3> QED BY <2>2, <2>3, <3>1 DEF SpawnedFunction
  <2>5. Become(CallbackStep(Now, r, E, f)) BY <1>3 DEF ServiceInserts, CallbackStep
  <2>6. E = Now.entities \union {r} OBVIOUS
  <2> HIDE DEF f, E
  <2>7. Inv(CallbackStep(Now, r, E, f), {}) BY <2>1, <2>4, <2>6, CallbackKeeps
  <2> QED BY <2>5, <2>7, Becomes
<1>4. ASSUME ServiceDespawns(r) PROVE Inv(Now, {})'
  <2> DEFINE E == Now.entities \ {r}
             f == [kind |-> "Despawned", request |-> Asked(r)]
  <2>1. v # <<>> /\ Head(v).op = "Despawn" BY <1>0, <1>4 DEF ServiceDespawns, ServiceOp
  <2>2. f \in SpawnedFunction \union DespawnedFunction /\ f.request.value = r /\ f.kind = "Despawned"
    BY <1>2, <2>1 DEF DespawnedFunction
  <2>3. Become(CallbackStep(Now, r, E, f)) BY <1>4 DEF ServiceDespawns, CallbackStep
  <2> HIDE DEF f, E
  <2>4. Inv(CallbackStep(Now, r, E, f), {}) BY <2>1, <2>2, CallbackKeeps DEF E
  <2> QED BY <2>3, <2>4, Becomes
<1>5. ASSUME ServiceDrops(r) PROVE Inv(Now, {})'
  <2>1. v # <<>> /\ Head(v).op = "Drop" BY <1>0, <1>5 DEF ServiceDrops, ServiceOp
  <2>2. Become(DropStep(Now, r)) BY <1>5 DEF ServiceDrops, DropStep
  <2>3. Inv(DropStep(Now, r), {}) BY <2>1, DropsKeeps
  <2> QED BY <2>2, <2>3, Becomes
<1> QED BY <1>1, <1>3, <1>4, <1>5 DEF ServiceStep

(* The function queue.                                                     *)
LEMMA DeliverStep ==
  ASSUME Inv(Now, {}), Deliver
  PROVE  Inv(Now, {})'
<1>1. Become(Delivered(Dequeued(Now), Head(Now.queued))) /\ Now.queued # <<>>
  BY NowFields DEF Deliver, Delivered, Dequeued
<1>2. Inv(Delivered(Dequeued(Now), Head(Now.queued)), {}) BY <1>1, DeliverKeeps
<1> QED BY <1>1, <1>2, Becomes

(* Every step keeps the invariant.                                         *)
LEMMA NextInv == Inv(Now, {}) /\ [Next]_vars => Inv(Now, {})'
<1> SUFFICES ASSUME Inv(Now, {}), [Next]_vars PROVE Inv(Now, {})' OBVIOUS
<1>1. CASE UNCHANGED vars
  <2>1. Now' = Now BY <1>1 DEF vars, Now
  <2> QED BY <2>1
<1>2. CASE \E finite \in BOOLEAN : Spawn(finite) BY <1>2, RequestSteps
<1>3. CASE \E instance \in Announced, closes \in BOOLEAN : Despawn(instance, closes)
  BY <1>3, RequestSteps
<1>4. CASE \E r \in Requests : CancelSpawn(r) BY <1>4, RequestSteps
<1>5. CASE \E registered \in BOOLEAN : Activate(registered) BY <1>5, LifecycleSteps
<1>6. CASE Deactivate BY <1>6, LifecycleSteps
<1>7. CASE \E scene \in Scene : LevelBuilds(scene) \/ LevelFails(scene) \/ LevelDestroys(scene)
  BY <1>7, LifecycleSteps
<1>8. CASE TickStep BY <1>8, TickSteps
<1>9. CASE \E r \in Requests : ServiceStep(r) BY <1>9, ServiceSteps
<1>10. CASE Deliver BY <1>10, DeliverStep
<1> QED BY <1>1, <1>2, <1>3, <1>4, <1>5, <1>6, <1>7, <1>8, <1>9, <1>10 DEF Next

(* The invariant holds in every reachable state.                           *)
THEOREM SpawnerInvariant == Spec => []Inv(Now, {})
<1>1. Init => Inv(Now, {}) BY InitInv
<1>2. Inv(Now, {}) /\ [Next]_vars => Inv(Now, {})' BY NextInv
<1> QED BY <1>1, <1>2, PTL DEF Spec

-----------------------------------------------------------------------------
(* What it says                                                            *)

(* A record of a living scene fits its state, and its slot is current.     *)
LEMMA AliveRecord ==
  ASSUME Inv(Now, {}), NEW r \in DOMAIN m_instances
  PROVE  /\ r \in Recs(Now) /\ r \in Requests /\ Held(r) = HandleOf(Now, r)
         /\ Held(r) \in SlotHandle
         /\ Fits(Now, r, m_instances[r].state)
         /\ HeldAlive(r) => Living(Now)
         /\ Now.slots[HandleOf(Now, r).scene][HandleOf(Now, r).slot] = HeldSlot(r)
<1>0. Now \in State /\ Lifecycle(Now) /\ Now.m_instances = m_instances /\ Now.slots = slots
  BY NowFields DEF Inv, Shared
<1>1. r \in Recs(Now) /\ Held(r) = HandleOf(Now, r) BY <1>0 DEF Recs, HandleOf, Held
<1>2. r \in Requests /\ HandleOf(Now, r) \in SlotHandle
  BY <1>0, <1>1, RecordTyped
<1>3. HandleOf(Now, r).scene = Now.m_spawner BY <1>0, <1>1 DEF Lifecycle
<1>4. HandleOf(Now, r).scene \in Scene BY <1>2 DEF SlotHandle
<1>5. HeldAlive(r) => Living(Now) BY <1>1, <1>3, <1>4 DEF HeldAlive, FindScene, Living
<1>6. Fits(Now, r, m_instances[r].state) BY <1>0, <1>1 DEF Inv
<1> QED BY <1>0, <1>1, <1>2, <1>5, <1>6 DEF HeldSlot

(* The invariant implies LeaseHeld.                                        *)
LEMMA LeaseHeldHolds == Inv(Now, {}) => LeaseHeld
<1> SUFFICES ASSUME Inv(Now, {}) PROVE LeaseHeld OBVIOUS
<1>1. ASSUME NEW r \in DOMAIN m_instances, HeldAlive(r) PROVE FindSlot(Now, Held(r))
  <2>1. SlotIn(Now, r, m_instances[r].state) /\ Living(Now) /\ Held(r) = HandleOf(Now, r)
    BY <1>1, AliveRecord DEF Fits
  <2> QED BY <2>1 DEF SlotIn
<1>2. ASSUME NEW q \in DOMAIN m_instances, NEW r \in DOMAIN m_instances, Held(q) = Held(r)
      PROVE  q = r
  <2>1. /\ q \in Recs(Now) /\ r \in Recs(Now)
        /\ HandleOf(Now, q).slot = HandleOf(Now, r).slot
    BY <1>2, AliveRecord
  <2> QED BY <2>1 DEF Inv, Shared, Leases
<1> QED BY <1>1, <1>2 DEF LeaseHeld

(* The invariant implies ActiveIsComplete and BoundEntitiesExist.          *)
LEMMA SlotsHold == Inv(Now, {}) => ActiveIsComplete /\ BoundEntitiesExist
<1> SUFFICES ASSUME Inv(Now, {}) PROVE ActiveIsComplete /\ BoundEntitiesExist OBVIOUS
<1>0. Now.entities = entities /\ Now.controllers = controllers /\ Now.m_instances = m_instances
  BY NowFields
<1>1. ASSUME NEW r \in DOMAIN m_instances, HeldAlive(r)
      PROVE  /\ HeldSlot(r).bound # NoEntities => HeldSlot(r).bound = r /\ r \in entities
             /\ m_instances[r].state = "Active" =>
                  /\ HeldSlot(r).placed /\ HeldSlot(r).bound = r
                  /\ m_instances[r].declares <=> m_instances[r].attached
                  /\ m_instances[r].declares <=> m_instances[r].instance \in controllers
  <2>1. SlotIn(Now, r, m_instances[r].state) /\ Living(Now) BY <1>1, AliveRecord DEF Fits
  <2>2. Now.slots[HandleOf(Now, r).scene][HandleOf(Now, r).slot] = HeldSlot(r)
    BY <1>1, AliveRecord
  <2> QED BY <1>0, <2>1, <2>2 DEF SlotIn
<1>2. ASSUME NEW r \in DOMAIN m_instances PROVE r # NoEntities
  BY AliveRecord, Numbers
<1>3. ActiveIsComplete BY <1>1, <1>2 DEF ActiveIsComplete
<1>4. BoundEntitiesExist BY <1>1 DEF BoundEntitiesExist
<1> QED BY <1>3, <1>4

(* The invariant implies EntitiesOwned.                                    *)
LEMMA EntitiesOwnedHolds == Inv(Now, {}) => EntitiesOwned
<1> SUFFICES ASSUME Inv(Now, {}), NEW r \in entities
             PROVE  \/ r \in DOMAIN m_instances /\ m_instances[r].ticket
                    \/ \E i \in DOMAIN service[r] : service[r][i].op = "Drop"
  BY DEF EntitiesOwned
<1>0. /\ Now \in State /\ Now.entities = entities /\ Now.service = service
      /\ Now.m_instances = m_instances /\ Tickets(Now)
  BY NowFields DEF Inv, Shared
<1>1. r \in Requests /\ service[r] \in Seq(ServiceRequest) BY <1>0 DEF State
<1>2. CASE r \in DOMAIN m_instances
  <2>1. TicketIn(Now, r, m_instances[r].state) BY <1>2, AliveRecord DEF Fits
  <2> QED BY <1>0, <1>2, <2>1 DEF TicketIn
<1>3. CASE r \notin DOMAIN m_instances
  <2>1. r \notin Recs(Now) BY <1>0, <1>3 DEF Recs
  <2>2. service[r] # <<>> /\ service[r][Len(service[r])].op = "Drop"
    BY <1>0, <1>1, <2>1 DEF Tickets
  <2>3. Len(service[r]) \in DOMAIN service[r] BY <1>1, <2>2
  <2> QED BY <2>2, <2>3
<1> QED BY <1>2, <1>3

(* The invariant implies AnswersCoherent.                                  *)
LEMMA AnswersCoherentHolds == Inv(Now, {}) => AnswersCoherent
<1> SUFFICES ASSUME Inv(Now, {}) PROVE AnswersCoherent OBVIOUS
<1>0. /\ Now \in State /\ Answering(Now) /\ Boundaries(Now)
      /\ Now.answers = answers /\ Now.despawnAnswers = despawnAnswers
      /\ Now.m_instances = m_instances /\ Now.cancelled = cancelled /\ Now.boundary = boundary
  BY NowFields DEF Inv, Shared
<1>1. answers \in [Requests -> Answers] /\ despawnAnswers \in [DespawnRequests -> Answers]
      /\ cancelled \subseteq Requests
  BY <1>0 DEF State
<1>2. ASSUME NEW a \in Answers PROVE Len(a) <= 1
  <2>1. Len(<<>>) = 0 /\ Len(<<"Succeeded">>) = 1 /\ Len(<<"Failed">>) = 1 OBVIOUS
  <2>2. CASE a = <<>> BY <2>1, <2>2
  <2>3. CASE a # <<>>
    <3>1. Len(a) = 1 BY <2>1, <2>3 DEF Answers
    <3> QED BY <3>1
  <2> QED BY <2>2, <2>3
<1>3. ASSUME NEW a \in Answers, a # <<"Succeeded">> PROVE "Succeeded" \notin ToSet(a)
  <2>1. CASE a = <<>> BY <2>1 DEF ToSet
  <2>2. CASE a = <<"Failed">> BY <2>2 DEF ToSet
  <2> QED BY <1>3, <2>1, <2>2 DEF Answers
<1>4. \A r \in Requests : Len(answers[r]) <= 1 BY <1>1, <1>2
<1>5. \A d \in 1 .. MaxDespawns : Len(despawnAnswers[d]) <= 1 BY <1>1, <1>2 DEF DespawnRequests
<1>6. \A r \in DOMAIN m_instances : m_instances[r].despawn # 0 => answers[r] = <<"Succeeded">>
  BY <1>0 DEF Answering, Recs
<1>7. ASSUME NEW r \in cancelled PROVE "Succeeded" \notin ToSet(answers[r])
  <2>1. boundary[r] = "Cancelled" /\ r \in Requests BY <1>0, <1>1 DEF Boundaries
  <2>2. answers[r] # <<"Succeeded">> BY <1>0, <2>1 DEF Boundaries
  <2> QED BY <1>1, <1>3, <2>1, <2>2
<1> QED BY <1>4, <1>5, <1>6, <1>7 DEF AnswersCoherent

(* The invariant implies StrandedOnlyByControllers.                        *)
LEMMA StrandedHolds == Inv(Now, {}) => StrandedOnlyByControllers
<1> SUFFICES ASSUME Inv(Now, {}), NEW scene \in Scene, FindScene(Now, scene),
                    NEW handle \in LeasesOf(scene), Orphaned(handle)
             PROVE  \E instance \in controllers : instance.slot = handle
  BY DEF StrandedOnlyByControllers
<1>0. /\ Now \in State /\ Stranding(Now) /\ Now.life[scene] = "Alive"
      /\ Now.slots = slots /\ Now.controllers = controllers /\ Now.m_instances = m_instances
      /\ Now.m_commands = m_commands /\ Now.draining = draining
  BY NowFields DEF Inv, Shared, FindScene
<1>1. PICK i \in Slot : /\ slots[scene][i].reserved
                        /\ handle = [scene |-> scene, slot |-> i,
                                     generation |-> slots[scene][i].generation]
  BY DEF LeasesOf
<1>2. \/ Holds(Now, handle) \/ HasControllers(Now, handle)
      \/ \E k \in 1 .. Len(Pipeline(Now)) : ReleaseOf(Pipeline(Now)[k], handle)
  BY <1>0, <1>1 DEF Stranding
<1>3. ~Holds(Now, handle) BY <1>0 DEF Orphaned, Holds, Held, HandleOf, Recs
<1>4. ASSUME NEW k \in 1 .. Len(Pipeline(Now)), ReleaseOf(Pipeline(Now)[k], handle) PROVE FALSE
  <2>1. draining \in Seq(Command) /\ m_commands \in Seq(Command) BY <1>0 DEF State
  <2>2. Pipeline(Now) = draining \o m_commands BY <1>0 DEF Pipeline
  <2>3. Pipeline(Now)[k] \in ToSet(m_commands) \union ToSet(draining)
    BY <2>1, <2>2 DEF ToSet
  <2> QED BY <1>4, <2>3 DEF Orphaned, QueuedRelease, ReleaseOf
<1> QED BY <1>0, <1>2, <1>3, <1>4 DEF HasControllers

(* No command, callback or teardown in flight takes a slot from under an   *)
(* instance, and no two instances hold the same one.                       *)
THEOREM LeasesHeld == Spec => []LeaseHeld
BY SpawnerInvariant, LeaseHeldHolds, PTL

(* An active instance is what OnSpawnSucceeded promised.                   *)
THEOREM ActiveComplete == Spec => []ActiveIsComplete
BY SpawnerInvariant, SlotsHold, PTL

(* A slot of a record never publishes to entities that are gone.           *)
THEOREM BoundExist == Spec => []BoundEntitiesExist
BY SpawnerInvariant, SlotsHold, PTL

(* No path forgets entities in the world.                                  *)
THEOREM EntitiesKept == Spec => []EntitiesOwned
BY SpawnerInvariant, EntitiesOwnedHolds, PTL

(* Requests are answered at most once, and a cancelled spawn never with    *)
(* success.                                                                *)
THEOREM AnswersAgree == Spec => []AnswersCoherent
BY SpawnerInvariant, AnswersCoherentHolds, PTL

(* A lease without a record is about to be released or has controllers     *)
(* running on it.                                                          *)
THEOREM StrandedExplained == Spec => []StrandedOnlyByControllers
BY SpawnerInvariant, StrandedHolds, PTL
=============================================================================
