-------------------------- MODULE ControllerRuntimeProofs --------------------------
(***************************************************************************)
(* Proofs about the controllers of a SceneInstance, for any slots, nodes,  *)
(* declarations, handle width and sequence of attachments, callbacks,      *)
(* commands and detachments: the target table stays exact, tokens and      *)
(* handles never revive, and a callback applies just what it was granted.  *)
(***************************************************************************)
EXTENDS ControllerRuntime, FiniteSetTheorems, WellFoundedInduction, NaturalsInduction, TLAPS

-----------------------------------------------------------------------------
(* The inductive invariant                                                 *)

Access == {"ReadOnly", "ReadWrite"}
Token == [index : Nat, generation : Nat]
TargetRecord == [node : Node \union {INVALID}, access : Access, active : BOOLEAN,
                 generation : Nat, pending : [Kind -> Value], pendingEpoch : [Kind -> Nat]]
InstanceHandle == [slot : Slot, generation : Nat]
Handle == [value : Nat, generation : Nat]
Controller == [instance : InstanceHandle, type : Type, handle : Handle,
               targets : Seq(Token), inputClosed : BOOLEAN]

Runtime == [targets : Seq(TargetRecord), free : Seq(Nat), owners : [Node -> Nat],
            controllers : SUBSET Controller, batches : SUBSET Type,
            touched : [Kind -> Seq(Nat)], epoch : Nat,
            nextHandle : Nat, handleGeneration : Nat, value : [Kind -> [Node -> Value]]]

Callbacks == [kind : {"none", "attach", "input", "step"}, epoch : Nat,
              writes : [Kind -> [Node -> Value \union {None}]], commands : Nat,
              instance : InstanceHandle \union {None}, todo : Seq(Declaration),
              tokens : Seq(Token)]

Types ==
  /\ slots \in [Slot -> [reserved : BOOLEAN, generation : Nat]]
  /\ rt \in Runtime
  /\ frame \in Callbacks
  /\ m_controllerFactories \in SUBSET Type
  /\ issued \in SUBSET [token : Token, node : Node]
  /\ retired \in SUBSET Handle
  /\ IsFiniteSet(rt.controllers)

(* The free list holds each inactive target once, and the write owner of a *)
(* node is its one active target that may write it.                        *)
FreeExact(r) ==
  /\ \A j \in DOMAIN r.free : r.free[j] \in DOMAIN r.targets /\ ~r.targets[r.free[j]].active
  /\ \A i \in DOMAIN r.targets : ~r.targets[i].active => \E j \in DOMAIN r.free : r.free[j] = i
  /\ \A j, l \in DOMAIN r.free : r.free[j] = r.free[l] => j = l

OwnersExact(r) ==
  /\ \A i \in DOMAIN r.targets : r.targets[i].active =>
       /\ r.targets[i].node \in Node
       /\ r.targets[i].access = "ReadWrite" => r.owners[r.targets[i].node] = i
  /\ \A n \in Node : r.owners[n] # INVALID =>
       /\ r.owners[n] \in DOMAIN r.targets
       /\ r.targets[r.owners[n]].active
       /\ r.targets[r.owners[n]].node = n
       /\ r.targets[r.owners[n]].access = "ReadWrite"

Table(r) == r \in Runtime /\ FreeExact(r) /\ OwnersExact(r)

(* The tokens of a sequence are current, for different targets, and for    *)
(* nodes of the slot.                                                      *)
Holds(r, tokens, slot) ==
  /\ \A a \in DOMAIN tokens :
       /\ Current(r, tokens[a])
       /\ r.targets[tokens[a].index].node \in NodesOf[slot]
  /\ \A a, b \in DOMAIN tokens : tokens[a].index = tokens[b].index => a = b

Apart(tokens, others) ==
  \A a \in DOMAIN tokens, b \in DOMAIN others : tokens[a].index # others[b].index

(* Every active target is held by one controller of a leased slot, or by   *)
(* the one under construction.                                             *)
HeldInv ==
  /\ \A c \in rt.controllers :
       /\ FindSlot(c.instance)
       /\ Holds(rt, c.targets, c.instance.slot)
       /\ Apart(c.targets, frame.tokens)
       /\ \A d \in rt.controllers : c # d => Apart(c.targets, d.targets)
  /\ frame.tokens # <<>> => Holds(rt, frame.tokens, frame.instance.slot)
  /\ \A i \in DOMAIN rt.targets : rt.targets[i].active =>
       \/ \E c \in rt.controllers : \E a \in DOMAIN c.targets : c.targets[a].index = i
       \/ \E a \in DOMAIN frame.tokens : frame.tokens[a].index = i

(* What remains to be constructed was prepared and is still free to write. *)
Remaining == IF frame.tokens = <<>> THEN 1 ELSE 2
Constructible(slot, d) ==
  /\ d.type \in m_controllerFactories
  /\ d.targets # <<>>
  /\ \A i \in DOMAIN d.targets : d.targets[i].node \in NodesOf[slot]
  /\ \A i, j \in DOMAIN d.targets : d.targets[i].node = d.targets[j].node => i = j
Unowned(d) ==
  \A i \in DOMAIN d.targets : d.targets[i].access = "ReadWrite" =>
    rt.owners[d.targets[i].node] = INVALID
WriteApart(d, e) ==
  \A i \in DOMAIN d.targets, j \in DOMAIN e.targets :
    d.targets[i].access = "ReadWrite" /\ e.targets[j].access = "ReadWrite"
      => d.targets[i].node # e.targets[j].node

AttachInv ==
  /\ frame.kind # "attach" => frame.tokens = <<>>
  /\ frame.kind = "attach" =>
       /\ frame.instance \in InstanceHandle /\ FindSlot(frame.instance)
       /\ frame.todo # <<>>
       /\ \A i \in DOMAIN frame.todo : Constructible(frame.instance.slot, frame.todo[i])
       /\ \A i \in DOMAIN frame.todo : Remaining <= i => Unowned(frame.todo[i])
       /\ \A i, j \in DOMAIN frame.todo : i # j => WriteApart(frame.todo[i], frame.todo[j])

(* Batches are those in use or under construction, and their factories are *)
(* registered.                                                             *)
BatchInv ==
  /\ \A c \in rt.controllers : c.type \in rt.batches
  /\ \A b \in rt.batches : \/ \E c \in rt.controllers : c.type = b
                           \/ frame.tokens # <<>> /\ frame.todo[1].type = b
  /\ frame.tokens # <<>> => frame.todo[1].type \in rt.batches
  /\ rt.batches \subseteq m_controllerFactories

(* A token ever issued fits its target only while that is the one it was   *)
(* given for.                                                              *)
IssuedInv ==
  \A i \in issued :
    /\ i.token.index \in DOMAIN rt.targets
    /\ i.token.generation <= rt.targets[i.token.index].generation
    /\ i.token.generation = rt.targets[i.token.index].generation =>
         rt.targets[i.token.index].active /\ rt.targets[i.token.index].node = i.node

(* Handles are given out in increasing order.                              *)
Before(h, r) == \/ h.generation < r.handleGeneration
                \/ h.generation = r.handleGeneration /\ h.value < r.nextHandle
HandleInv ==
  /\ \A c \in rt.controllers : Before(c.handle, rt)
  /\ \A h \in retired : Before(h, rt)

(* What a callback was granted is what its touched targets hold.           *)
Noted(k) ==
  /\ \A j \in DOMAIN rt.touched[k] :
       /\ rt.touched[k][j] \in DOMAIN rt.targets
       /\ rt.targets[rt.touched[k][j]].active
       /\ rt.targets[rt.touched[k][j]].access = "ReadWrite"
       /\ frame.writes[k][rt.targets[rt.touched[k][j]].node]
            = rt.targets[rt.touched[k][j]].pending[k]
  /\ \A n \in Node : frame.writes[k][n] # None =>
       \E j \in DOMAIN rt.touched[k] : rt.targets[rt.touched[k][j]].node = n
  /\ \A i \in DOMAIN rt.targets : rt.targets[i].pendingEpoch[k] = rt.epoch =>
       \E j \in DOMAIN rt.touched[k] : rt.touched[k][j] = i

CommandInv ==
  /\ \A i \in DOMAIN rt.targets, k \in Kind : rt.targets[i].pendingEpoch[k] <= rt.epoch
  /\ rt.epoch > 0
  /\ ~Idle => frame.epoch = rt.epoch /\ \A k \in Kind : Noted(k)

IndInv == /\ Types /\ Table(rt) /\ HeldInv /\ AttachInv /\ BatchInv /\ IssuedInv
          /\ HandleInv /\ HandlesNeverRevive /\ CommandInv
          /\ FreeSlotsStill /\ CallbacksApplyExactly

-----------------------------------------------------------------------------
(* Induction and recursion                                                 *)

(* A nonempty set of naturals has a least element.                         *)
LEMMA WellOrder ==
  ASSUME NEW T, T \subseteq Nat, T # {}
  PROVE  \E x \in T : \A y \in T : x <= y
<1> DEFINE R == {p \in Nat \X Nat : p[1] < p[2]}
<1>1. IsWellFoundedOn(R, Nat)
  BY NatLessThanWellFounded DEF OpToRel
<1>2. \E x \in T : \A y \in T : ~ (<<y, x>> \in R)
  <2> HIDE DEF R
  <2> QED BY <1>1, WFMin, Zenon
<1>3. PICK x \in T : \A y \in T : ~ (<<y, x>> \in R)
  BY <1>2
<1>4. ASSUME NEW y \in T PROVE x <= y
  <2>1. <<y, x>> \in Nat \X Nat BY Zenon
  <2>2. ~(y < x) BY <1>3, <2>1
  <2>3. x \in Nat /\ y \in Nat OBVIOUS
  <2> QED BY <2>2, <2>3
<1> QED BY <1>4

(* Induction up to a bound, about a set instead of a formula.              *)
LEMMA UpTo ==
  ASSUME NEW n \in Nat, NEW S, 0 \in S, \A i \in 1..n : i - 1 \in S => i \in S
  PROVE  0..n \subseteq S
<1> DEFINE T == {i \in 0..n : i \notin S}
<1>1. CASE T # {}
  <2>1. T \subseteq Nat OBVIOUS
  <2>2. PICK x \in T : \A y \in T : x <= y BY <1>1, <2>1, WellOrder
  <2>3. x \in 1..n /\ x - 1 \in 0..n /\ x \notin S BY <2>2
  <2>4. x - 1 \notin T BY <2>2, <2>3
  <2> QED BY <2>3, <2>4
<1> QED BY <1>1

(* A recursion over the members of a sequence has a solution.              *)
Iterated(f, n, base, step) == f[0] = base /\ \A i \in 1..n : f[i] = step[i][f[i - 1]]

(* A function with the values of such a recursion exists.                  *)
LEMMA Iterates ==
  ASSUME NEW V, NEW n \in Nat, NEW base \in V, NEW step \in [1..n -> [V -> V]]
  PROVE  \E f \in [0..n -> V] : Iterated(f, n, base, step)
<1> USE DEF Iterated
<1> DEFINE Solves(f, m) == f[0] = base /\ \A i \in 1..m : f[i] = step[i][f[i - 1]]
           S == {m \in 0..n : \E f \in [0..m -> V] : Solves(f, m)}
<1>1. 0 \in S
  <2>1. [i \in 0..0 |-> base] \in [0..0 -> V] /\ Solves([i \in 0..0 |-> base], 0)
    OBVIOUS
  <2> HIDE DEF Solves
  <2> QED BY <2>1
<1>2. ASSUME NEW m \in 1..n, m - 1 \in S PROVE m \in S
  <2>1. PICK f \in [0..(m - 1) -> V] : Solves(f, m - 1) BY <1>2
  <2> DEFINE g == [i \in 0..m |-> IF i = m THEN step[m][f[m - 1]] ELSE f[i]]
  <2>2. f[m - 1] \in V /\ step[m] \in [V -> V]
    OBVIOUS
  <2>3. g \in [0..m -> V]
    BY <2>2
  <2>4. ASSUME NEW i \in 0..(m - 1) PROVE g[i] = f[i] /\ i \in 0..m
    OBVIOUS
  <2>5. g[m] = step[m][f[m - 1]]
    OBVIOUS
  <2> HIDE DEF g
  <2>6. g[0] = base
    BY <2>1, <2>4
  <2>7. ASSUME NEW i \in 1..m PROVE g[i] = step[i][g[i - 1]]
    <3>1. CASE i = m BY <3>1, <2>4, <2>5, m - 1 \in 0..(m - 1)
    <3>2. CASE i # m
      <4>1. i \in 1..(m - 1) /\ i - 1 \in 0..(m - 1) /\ i \in 0..(m - 1)
        BY <3>2
      <4> QED BY <4>1, <2>1, <2>4
    <3> QED BY <3>1, <3>2
  <2>8. Solves(g, m)
    BY <2>6, <2>7
  <2> HIDE DEF Solves
  <2> QED BY <2>3, <2>8
<1>3. n \in S
  <2> HIDE DEF S
  <2>1. \A i \in 1..n : i - 1 \in S => i \in S BY <1>2
  <2>2. 0..n \subseteq S BY <1>1, <2>1, UpTo
  <2> QED BY <2>2
<1> QED BY <1>3

-----------------------------------------------------------------------------
(* Releasing targets                                                       *)

(* What a release or an allocation of targets leaves alone.                *)
Same(r, s) ==
  /\ s.controllers = r.controllers /\ s.batches = r.batches /\ s.touched = r.touched
  /\ s.epoch = r.epoch /\ s.nextHandle = r.nextHandle
  /\ s.handleGeneration = r.handleGeneration /\ s.value = r.value

(* The fields after the release of a current token.                        *)
LEMMA ReleaseFields ==
  ASSUME NEW r \in Runtime, NEW token \in Token, Current(r, token)
  PROVE  LET s == ReleaseControllerTarget(r, token)
             record == r.targets[token.index]
         IN  /\ Same(r, s)
             /\ s.targets = [r.targets EXCEPT ![token.index] = Released(record)]
             /\ s.free = Append(r.free, token.index)
             /\ s.owners = IF record.access = "ReadWrite" /\ r.owners[record.node] = token.index
                           THEN [r.owners EXCEPT ![record.node] = INVALID] ELSE r.owners
             /\ s \in Runtime
             /\ Released(record) \in TargetRecord
             /\ record \in TargetRecord
             /\ Released(record).active = FALSE
             /\ Released(record).generation = record.generation + 1
             /\ Released(record).pendingEpoch = record.pendingEpoch
<1> DEFINE s == ReleaseControllerTarget(r, token)
           record == r.targets[token.index]
<1>1. record \in TargetRecord /\ token.index \in DOMAIN r.targets /\ token.index \in Nat
  BY DEF Runtime, Current, Token
<1>2. /\ Released(record) \in TargetRecord
      /\ Released(record).active = FALSE
      /\ Released(record).generation = record.generation + 1
      /\ Released(record).pendingEpoch = record.pendingEpoch
  <2>1. record.generation + 1 \in Nat
    BY <1>1 DEF TargetRecord
  <2> HIDE DEF record
  <2> QED BY <1>1, <2>1 DEF Released, TargetRecord, INVALID
<1>3. /\ Same(r, s)
      /\ s.targets = [r.targets EXCEPT ![token.index] = Released(record)]
      /\ s.free = Append(r.free, token.index)
      /\ s.owners = IF record.access = "ReadWrite" /\ r.owners[record.node] = token.index
                    THEN [r.owners EXCEPT ![record.node] = INVALID] ELSE r.owners
  BY DEF ReleaseControllerTarget, Runtime, Same
<1>4. [r.targets EXCEPT ![token.index] = Released(record)] \in Seq(TargetRecord)
  BY <1>1, <1>2 DEF Runtime
<1>5. Append(r.free, token.index) \in Seq(Nat)
  BY <1>1 DEF Runtime
<1>6. [r.owners EXCEPT ![record.node] = INVALID] \in [Node -> Nat] /\ r.owners \in [Node -> Nat]
  BY DEF Runtime, INVALID
<1>7. s \in Runtime
  <2> HIDE DEF record
  <2> QED BY <1>3, <1>4, <1>5, <1>6 DEF ReleaseControllerTarget, Runtime, record, Same
<1> QED
  BY <1>1, <1>2, <1>3, <1>7

(* s is r after the targets of D were released.                            *)
ReleasedFrom(r, s, D) ==
  /\ Same(r, s)
  /\ DOMAIN s.targets = DOMAIN r.targets
  /\ \A i \in DOMAIN r.targets :
       /\ i \notin D => s.targets[i] = r.targets[i]
       /\ i \in D => /\ ~s.targets[i].active
                     /\ s.targets[i].generation = r.targets[i].generation + 1
                     /\ s.targets[i].pendingEpoch = r.targets[i].pendingEpoch

(* A release keeps the table exact.                                        *)
LEMMA ReleaseOne ==
  ASSUME NEW r, Table(r), NEW token \in Token, Current(r, token)
  PROVE  /\ Table(ReleaseControllerTarget(r, token))
         /\ ReleasedFrom(r, ReleaseControllerTarget(r, token), {token.index})
<1> DEFINE s == ReleaseControllerTarget(r, token)
           record == r.targets[token.index]
           x == token.index
<1>1. /\ Same(r, s)
      /\ s.targets = [r.targets EXCEPT ![x] = Released(record)]
      /\ s.free = Append(r.free, x)
      /\ s.owners = IF record.access = "ReadWrite" /\ r.owners[record.node] = x
                    THEN [r.owners EXCEPT ![record.node] = INVALID] ELSE r.owners
      /\ s \in Runtime
      /\ ~Released(record).active
      /\ Released(record).generation = record.generation + 1
      /\ Released(record).pendingEpoch = record.pendingEpoch
  BY ReleaseFields DEF Table
<1>2. /\ x \in DOMAIN r.targets /\ record.active /\ x \in Nat \ {0}
      /\ r.targets \in Seq(TargetRecord) /\ r.free \in Seq(Nat) /\ r.owners \in [Node -> Nat]
  BY DEF Current, Table, Runtime
<1> HIDE DEF s, x
<1>3. /\ DOMAIN s.targets = DOMAIN r.targets
      /\ \A i \in DOMAIN r.targets : i # x => s.targets[i] = r.targets[i]
      /\ s.targets[x] = Released(record)
  BY <1>1, <1>2
<1>4. /\ DOMAIN s.free = 1..(Len(r.free) + 1) /\ DOMAIN r.free = 1..Len(r.free) /\ Len(r.free) \in Nat
      /\ \A j \in DOMAIN r.free : s.free[j] = r.free[j]
      /\ s.free[Len(r.free) + 1] = x
  BY <1>1, <1>2
<1>5. ReleasedFrom(r, s, {x})
  BY <1>1, <1>2, <1>3 DEF ReleasedFrom, x
<1>6. FreeExact(s)
  <2>1. \A j \in DOMAIN s.free : j = Len(r.free) + 1 \/ j \in DOMAIN r.free
    BY <1>4
  <2>2. \A j \in DOMAIN r.free : r.free[j] \in DOMAIN r.targets /\ ~r.targets[r.free[j]].active /\ r.free[j] # x
    BY <1>2 DEF Table, FreeExact, x
  <2>3. \A j \in DOMAIN s.free : s.free[j] \in DOMAIN s.targets /\ ~s.targets[s.free[j]].active
    BY <1>1, <1>2, <1>3, <1>4, <2>1, <2>2
  <2>4. ASSUME NEW i \in DOMAIN s.targets, ~s.targets[i].active
        PROVE  \E j \in DOMAIN s.free : s.free[j] = i
    <3>1. CASE i = x BY <3>1, <1>4, Len(r.free) + 1 \in DOMAIN s.free
    <3>2. CASE i # x
      <4>1. PICK j \in DOMAIN r.free : r.free[j] = i
        BY <3>2, <2>4, <1>3 DEF Table, FreeExact
      <4>2. j \in DOMAIN s.free /\ s.free[j] = i BY <4>1, <1>4
      <4> QED BY <4>2
    <3> QED BY <3>1, <3>2
  <2>5. \A j, l \in DOMAIN s.free : s.free[j] = s.free[l] => j = l
    <3>1. \A j, l \in DOMAIN r.free : r.free[j] = r.free[l] => j = l
      BY DEF Table, FreeExact
    <3> QED BY <3>1, <1>4, <2>1, <2>2
  <2> QED BY <2>3, <2>4, <2>5 DEF FreeExact
<1>7. OwnersExact(s)
  <2>1. record.node \in Node /\ (record.access = "ReadWrite" => r.owners[record.node] = x)
    BY <1>2 DEF Table, OwnersExact, x
  <2>2. \A n \in Node : s.owners[n] = IF record.access = "ReadWrite" /\ n = record.node
                                       THEN INVALID ELSE r.owners[n]
    BY <1>1, <1>2, <2>1
  <2>3. ASSUME NEW i \in DOMAIN s.targets, s.targets[i].active
        PROVE  /\ s.targets[i].node \in Node
               /\ s.targets[i].access = "ReadWrite" => s.owners[s.targets[i].node] = i
    <3>1. i # x /\ s.targets[i] = r.targets[i] /\ i \in DOMAIN r.targets
      BY <2>3, <1>1, <1>3
    <3>2. /\ r.targets[i].node \in Node
          /\ r.targets[i].access = "ReadWrite" => r.owners[r.targets[i].node] = i
      BY <2>3, <3>1 DEF Table, OwnersExact
    <3> QED BY <3>1, <3>2, <2>1, <2>2
  <2>4. ASSUME NEW n \in Node, s.owners[n] # INVALID
        PROVE  /\ s.owners[n] \in DOMAIN s.targets
               /\ s.targets[s.owners[n]].active
               /\ s.targets[s.owners[n]].node = n
               /\ s.targets[s.owners[n]].access = "ReadWrite"
    <3>1. s.owners[n] = r.owners[n] /\ ~(record.access = "ReadWrite" /\ n = record.node)
      BY <2>2, <2>4
    <3>2. /\ r.owners[n] \in DOMAIN r.targets
          /\ r.targets[r.owners[n]].active
          /\ r.targets[r.owners[n]].node = n
          /\ r.targets[r.owners[n]].access = "ReadWrite"
      BY <2>4, <3>1 DEF Table, OwnersExact
    <3>3. r.owners[n] # x
      BY <3>1, <3>2 DEF x
    <3> QED BY <3>1, <3>2, <3>3, <1>3
  <2> QED BY <2>3, <2>4 DEF OwnersExact
<1> QED
  BY <1>1, <1>5, <1>6, <1>7 DEF Table, s, x

(* A release gives back a runtime, whatever the token.                     *)
LEMMA ReleaseType ==
  ASSUME NEW r \in Runtime, NEW token \in Token
  PROVE  ReleaseControllerTarget(r, token) \in Runtime
<1>1. CASE Current(r, token) BY <1>1, ReleaseFields
<1>2. CASE ~Current(r, token) BY <1>2 DEF ReleaseControllerTarget
<1> QED BY <1>1, <1>2

(* ReleaseAll releases its tokens one after the other.                     *)
LEMMA ReleaseRec ==
  ASSUME NEW r \in Runtime, NEW tokens \in Seq(Token)
  PROVE  \E f : /\ DOMAIN f = 0..Len(tokens)
                /\ f[0] = r
                /\ \A i \in 1..Len(tokens) : f[i] = ReleaseControllerTarget(f[i - 1], tokens[i])
                /\ ReleaseAll(r, tokens) = f[Len(tokens)]
<1> DEFINE n == Len(tokens)
           step == [i \in 1..n |-> [q \in Runtime |-> ReleaseControllerTarget(q, tokens[i])]]
           Eq(g) == g = [i \in 0..n |-> IF i = 0 THEN r ELSE ReleaseControllerTarget(g[i - 1], tokens[i])]
<1>1. n \in Nat /\ \A i \in 1..n : tokens[i] \in Token
  OBVIOUS
<1>2. step \in [1..n -> [Runtime -> Runtime]]
  BY <1>1, ReleaseType
<1>3. PICK f \in [0..n -> Runtime] : Iterated(f, n, r, step)
  <2> HIDE DEF step, n
  <2> QED BY <1>1, <1>2, Iterates
<1>4. ASSUME NEW i \in 1..n PROVE f[i] = ReleaseControllerTarget(f[i - 1], tokens[i])
  <2>1. f[i - 1] \in Runtime BY <1>1
  <2> QED BY <1>3, <2>1 DEF Iterated
<1> HIDE DEF n
<1>5. Eq(f)
  BY <1>1, <1>3, <1>4 DEF Iterated
<1> DEFINE g == CHOOSE h : Eq(h)
<1>6. Eq(g)
  <2> HIDE DEF Eq
  <2> QED BY <1>5
<1>7. ReleaseAll(r, tokens) = g[n]
  BY DEF ReleaseAll, n
<1> HIDE DEF g
<1>8. DOMAIN g = 0..n /\ g[0] = r /\ \A i \in 1..n : g[i] = ReleaseControllerTarget(g[i - 1], tokens[i])
  BY <1>1, <1>6
<1> QED BY <1>7, <1>8 DEF n

(* Releasing current tokens of different targets: the table stays exact    *)
(* and just their targets are released.                                    *)
Indices(tokens) == {tokens[a].index : a \in DOMAIN tokens}
Live(r, tokens) ==
  /\ \A a \in DOMAIN tokens : Current(r, tokens[a])
  /\ \A a, b \in DOMAIN tokens : tokens[a].index = tokens[b].index => a = b

(* ReleaseAll frees exactly the targets of its tokens and keeps the table exact. *)
LEMMA ReleaseEach ==
  ASSUME NEW r, Table(r), NEW tokens \in Seq(Token), Live(r, tokens)
  PROVE  /\ Table(ReleaseAll(r, tokens))
         /\ ReleasedFrom(r, ReleaseAll(r, tokens), Indices(tokens))
<1> DEFINE n == Len(tokens)
           D(i) == {tokens[a].index : a \in 1..i}
<1>0. r \in Runtime BY DEF Table
<1>1. PICK f : /\ DOMAIN f = 0..n
               /\ f[0] = r
               /\ \A i \in 1..n : f[i] = ReleaseControllerTarget(f[i - 1], tokens[i])
               /\ ReleaseAll(r, tokens) = f[n]
  BY <1>0, ReleaseRec
<1> DEFINE S == {i \in 0..n : Table(f[i]) /\ ReleasedFrom(r, f[i], D(i))}
<1>2. 0 \in S
  BY <1>1 DEF ReleasedFrom, Same
<1>3. ASSUME NEW i \in 1..n, i - 1 \in S PROVE i \in S
  <2> DEFINE q == f[i - 1]
             x == tokens[i].index
  <2>1. Table(q) /\ ReleasedFrom(r, q, D(i - 1)) /\ tokens[i] \in Token /\ i \in 0..n
    BY <1>3
  <2>2. x \notin D(i - 1) /\ x \in DOMAIN r.targets /\ Current(r, tokens[i])
    BY DEF Live, Current
  <2>3. D(i) = D(i - 1) \union {x}
    OBVIOUS
  <2>4. f[i] = ReleaseControllerTarget(q, tokens[i])
    BY <1>1
  <2> HIDE DEF q, x, D
  <2>5. Current(q, tokens[i])
    BY <2>1, <2>2 DEF Current, ReleasedFrom, x
  <2>6. Table(f[i]) /\ ReleasedFrom(q, f[i], {x})
    BY <2>1, <2>4, <2>5, ReleaseOne DEF x
  <2>7. ReleasedFrom(r, f[i], D(i))
    <3>1. Same(r, f[i])
      BY <2>1, <2>6 DEF ReleasedFrom, Same
    <3>2. DOMAIN f[i].targets = DOMAIN r.targets
      BY <2>1, <2>6 DEF ReleasedFrom
    <3>3. \A j \in DOMAIN r.targets :
            /\ j \notin D(i) => f[i].targets[j] = r.targets[j]
            /\ j \in D(i) => /\ ~f[i].targets[j].active
                             /\ f[i].targets[j].generation = r.targets[j].generation + 1
                             /\ f[i].targets[j].pendingEpoch = r.targets[j].pendingEpoch
      BY <2>1, <2>2, <2>3, <2>6 DEF ReleasedFrom
    <3> QED BY <3>1, <3>2, <3>3 DEF ReleasedFrom
  <2> QED BY <2>1, <2>6, <2>7
<1>4. n \in S
  <2> HIDE DEF S
  <2>1. n \in Nat /\ \A i \in 1..n : i - 1 \in S => i \in S BY <1>3
  <2>2. 0..n \subseteq S BY <1>2, <2>1, UpTo
  <2> QED BY <2>1, <2>2
<1>5. D(n) = Indices(tokens)
  BY DEF Indices
<1> HIDE DEF D
<1> QED BY <1>1, <1>4, <1>5

(* ReleaseAll gives back a runtime, whatever the tokens.                   *)
LEMMA ReleaseAllType ==
  ASSUME NEW r \in Runtime, NEW tokens \in Seq(Token)
  PROVE  ReleaseAll(r, tokens) \in Runtime
<1> DEFINE n == Len(tokens)
<1>1. PICK f : /\ DOMAIN f = 0..n
               /\ f[0] = r
               /\ \A i \in 1..n : f[i] = ReleaseControllerTarget(f[i - 1], tokens[i])
               /\ ReleaseAll(r, tokens) = f[n]
  BY ReleaseRec
<1> DEFINE S == {i \in 0..n : f[i] \in Runtime}
<1>2. 0 \in S BY <1>1
<1>3. ASSUME NEW i \in 1..n, i - 1 \in S PROVE i \in S
  <2>1. f[i - 1] \in Runtime /\ tokens[i] \in Token /\ i \in 0..n
    BY <1>3
  <2> QED BY <2>1, <1>1, ReleaseType
<1>4. n \in S
  <2> HIDE DEF S
  <2>1. n \in Nat /\ \A i \in 1..n : i - 1 \in S => i \in S BY <1>3
  <2>2. 0..n \subseteq S BY <1>2, <2>1, UpTo
  <2> QED BY <2>1, <2>2
<1> QED BY <1>1, <1>4

(* SetToSeq lists every member of a finite set once.                       *)
LEMMA Listed ==
  ASSUME NEW S, IsFiniteSet(S)
  PROVE  /\ SetToSeq(S) \in Seq(S)
         /\ \A c \in S : \E i \in DOMAIN SetToSeq(S) : SetToSeq(S)[i] = c
         /\ \A i, j \in DOMAIN SetToSeq(S) : SetToSeq(S)[i] = SetToSeq(S)[j] => i = j
<1> DEFINE n == Cardinality(S)
           f == SetToSeq(S)
<1>1. n \in Nat /\ ExistsBijection(1..n, S)
  BY FS_CardinalityType
<1>2. \E g \in [1..n -> S] : IsInjective(g)
  BY <1>1 DEF ExistsBijection, Bijection, Injection
<1>3. f \in [1..n -> S] /\ IsInjective(f)
  BY <1>2 DEF SetToSeq
<1>4. IsFiniteSet(1..n) /\ Cardinality(1..n) = n
  BY <1>1, FS_Interval
<1>5. f \in Injection(1..n, S)
  BY <1>3 DEF Injection
<1> HIDE DEF f
<1>6. f \in Surjection(1..n, S)
  BY <1>4, <1>5, FS_Injection
<1>7. f \in Seq(S) /\ DOMAIN f = 1..n
  BY <1>1, <1>3
<1> QED
  BY <1>3, <1>6, <1>7 DEF Surjection, IsInjective, f

(* The targets that the controllers of a set hold.                         *)
TargetsOf(cs) == UNION {Indices(c.targets) : c \in cs}

(* The controllers of a set hold current tokens of different targets.      *)
AllLive(r, cs) ==
  /\ \A c \in cs : c.targets \in Seq(Token) /\ Live(r, c.targets)
  /\ \A c, d \in cs : c # d => Apart(c.targets, d.targets)

(* The recursion over the controllers that are detached.                   *)
DetachSteps(f, r, instance, order) ==
  /\ f[0] = r
  /\ \A i \in 1..Len(order) : f[i] = ReleaseAll(f[i - 1], order[i].targets)
  /\ DetachControllersIn(r, instance) =
       [f[Len(order)] EXCEPT
          !.controllers = @ \ ControllersOf(r, instance),
          !.batches = {b \in @ : \E c \in r.controllers \ ControllersOf(r, instance) : c.type = b}]

(* The recursion of DetachControllersIn has a solution.                    *)
LEMMA DetachRec ==
  ASSUME NEW r \in Runtime, NEW instance,
         NEW order \in Seq(Controller), order = SetToSeq(ControllersOf(r, instance))
  PROVE  \E f : DetachSteps(f, r, instance, order)
<1> DEFINE n == Len(order)
           step == [i \in 1..n |-> [q \in Runtime |-> ReleaseAll(q, order[i].targets)]]
           Eq(g) == g = [i \in 0..n |-> IF i = 0 THEN r ELSE ReleaseAll(g[i - 1], order[i].targets)]
<1>1. n \in Nat /\ \A i \in 1..n : order[i].targets \in Seq(Token)
  <2>1. n \in Nat /\ \A i \in 1..n : order[i] \in Controller
    OBVIOUS
  <2> QED BY <2>1 DEF Controller
<1>2. step \in [1..n -> [Runtime -> Runtime]]
  BY <1>1, ReleaseAllType
<1>3. PICK f \in [0..n -> Runtime] : Iterated(f, n, r, step)
  <2> HIDE DEF step, n
  <2> QED BY <1>1, <1>2, Iterates
<1>4. ASSUME NEW i \in 1..n PROVE f[i] = ReleaseAll(f[i - 1], order[i].targets)
  <2>1. f[i - 1] \in Runtime BY <1>1
  <2> QED BY <1>3, <2>1 DEF Iterated
<1> HIDE DEF n
<1>5. Eq(f)
  BY <1>1, <1>3, <1>4 DEF Iterated
<1> DEFINE g == CHOOSE h : Eq(h)
<1>6. Eq(g)
  <2> HIDE DEF Eq
  <2> QED BY <1>5
<1>7. DetachControllersIn(r, instance) =
        [g[n] EXCEPT !.controllers = @ \ ControllersOf(r, instance),
                     !.batches = {b \in @ : \E c \in r.controllers \ ControllersOf(r, instance) :
                                              c.type = b}]
  BY DEF DetachControllersIn, n
<1> HIDE DEF g
<1>8. g[0] = r /\ \A i \in 1..n : g[i] = ReleaseAll(g[i - 1], order[i].targets)
  BY <1>1, <1>6
<1>9. DetachSteps(g, r, instance, order)
  BY <1>7, <1>8 DEF n, DetachSteps
<1> QED BY <1>9

(* s is r after the controllers of gone were detached.                     *)
DetachedFrom(r, s, gone) ==
  /\ s.controllers = r.controllers \ gone
  /\ s.batches = {b \in r.batches : \E c \in r.controllers \ gone : c.type = b}
  /\ s.touched = r.touched /\ s.epoch = r.epoch /\ s.nextHandle = r.nextHandle
  /\ s.handleGeneration = r.handleGeneration /\ s.value = r.value
  /\ DOMAIN s.targets = DOMAIN r.targets
  /\ \A i \in DOMAIN r.targets :
       /\ i \notin TargetsOf(gone) => s.targets[i] = r.targets[i]
       /\ i \in TargetsOf(gone) =>
            /\ ~s.targets[i].active
            /\ s.targets[i].generation = r.targets[i].generation + 1
            /\ s.targets[i].pendingEpoch = r.targets[i].pendingEpoch

(* Detaching keeps the table exact and releases just the targets of the    *)
(* controllers it destroys.                                                *)
LEMMA DetachEffect ==
  ASSUME NEW r, Table(r), IsFiniteSet(r.controllers), NEW instance,
         AllLive(r, ControllersOf(r, instance))
  PROVE  /\ Table(DetachControllersIn(r, instance))
         /\ DetachedFrom(r, DetachControllersIn(r, instance), ControllersOf(r, instance))
<1> DEFINE gone == ControllersOf(r, instance)
           order == SetToSeq(gone)
           n == Len(order)
           D(i) == TargetsOf({order[a] : a \in 1..i})
<1>1. gone \subseteq r.controllers /\ gone \subseteq Controller /\ r \in Runtime
  BY DEF ControllersOf, Table, Runtime
<1>2. IsFiniteSet(gone)
  BY <1>1, FS_Subset
<1>3. /\ order \in Seq(gone)
      /\ \A c \in gone : \E i \in DOMAIN order : order[i] = c
      /\ \A i, j \in DOMAIN order : order[i] = order[j] => i = j
  BY <1>2, Listed
<1>4. order \in Seq(Controller)
  BY <1>1, <1>3
<1>a. order = SetToSeq(ControllersOf(r, instance))
  OBVIOUS
<1> HIDE DEF order
<1>b. PICK f : DetachSteps(f, r, instance, order)
  BY <1>1, <1>4, <1>a, DetachRec
<1>5. /\ f[0] = r
      /\ \A i \in 1..n : f[i] = ReleaseAll(f[i - 1], order[i].targets)
      /\ DetachControllersIn(r, instance) =
           [f[n] EXCEPT !.controllers = @ \ gone,
                        !.batches = {b \in @ : \E c \in r.controllers \ gone : c.type = b}]
  BY <1>b DEF DetachSteps
<1>6. n \in Nat /\ DOMAIN order = 1..n /\ \A i \in 1..n : order[i] \in gone
  BY <1>3
<1> DEFINE S == {i \in 0..n : Table(f[i]) /\ ReleasedFrom(r, f[i], D(i))}
<1>7. 0 \in S
  BY <1>5, <1>6 DEF ReleasedFrom, Same, TargetsOf
<1>8. ASSUME NEW i \in 1..n, i - 1 \in S PROVE i \in S
  <2> DEFINE q == f[i - 1]
             c == order[i]
             X == Indices(c.targets)
  <2>0. c \in gone /\ i \in 0..n
    BY <1>6
  <2>1. Table(q) /\ ReleasedFrom(r, q, D(i - 1)) /\ c \in gone /\ i \in 0..n
    <3> HIDE DEF D, gone
    <3> QED BY <1>8, <2>0
  <2>2. c.targets \in Seq(Token) /\ Live(r, c.targets)
    BY <2>1 DEF AllLive
  <2>3. \A x \in X : x \notin D(i - 1)
    <3> SUFFICES ASSUME NEW x \in X, x \in D(i - 1) PROVE FALSE
      OBVIOUS
    <3>1. PICK a \in 1..(i - 1) : x \in Indices(order[a].targets)
      BY DEF TargetsOf
    <3>2. a \in DOMAIN order /\ i \in DOMAIN order /\ a # i
      BY <1>6, <3>1
    <3>3. order[a] # c /\ order[a] \in gone
      BY <3>2, <1>3, <1>6
    <3>4. Apart(c.targets, order[a].targets)
      BY <3>3, <2>1 DEF AllLive
    <3> QED BY <3>1, <3>4 DEF Apart, Indices
  <2>4. D(i) = D(i - 1) \union X
    <3>1. {order[a] : a \in 1..i} = {order[a] : a \in 1..(i - 1)} \union {c}
      OBVIOUS
    <3> QED BY <3>1 DEF TargetsOf
  <2>5. f[i] = ReleaseAll(q, c.targets)
    BY <1>5
  <2> HIDE DEF q, c, D
  <2>6. Live(q, c.targets)
    BY <2>1, <2>2, <2>3 DEF Live, Current, ReleasedFrom, Indices
  <2> HIDE DEF X
  <2>7. Table(f[i]) /\ ReleasedFrom(q, f[i], X)
    BY <2>1, <2>2, <2>5, <2>6, ReleaseEach DEF X
  <2>8. ReleasedFrom(r, f[i], D(i))
    <3>1. Same(r, f[i])
      BY <2>1, <2>7 DEF ReleasedFrom, Same
    <3>2. DOMAIN f[i].targets = DOMAIN r.targets
      BY <2>1, <2>7 DEF ReleasedFrom
    <3>3. \A j \in DOMAIN r.targets :
            /\ j \notin D(i) => f[i].targets[j] = r.targets[j]
            /\ j \in D(i) => /\ ~f[i].targets[j].active
                             /\ f[i].targets[j].generation = r.targets[j].generation + 1
                             /\ f[i].targets[j].pendingEpoch = r.targets[j].pendingEpoch
      BY <2>1, <2>3, <2>4, <2>7 DEF ReleasedFrom
    <3> QED BY <3>1, <3>2, <3>3 DEF ReleasedFrom
  <2> QED BY <2>1, <2>7, <2>8
<1>9. n \in S
  <2> HIDE DEF S
  <2>1. \A i \in 1..n : i - 1 \in S => i \in S BY <1>8
  <2>2. 0..n \subseteq S BY <1>6, <1>7, <2>1, UpTo
  <2> QED BY <1>6, <2>2
<1>10. D(n) = TargetsOf(gone)
  <2>1. {order[a] : a \in 1..n} = gone
    BY <1>3, <1>6
  <2> QED BY <2>1
<1> DEFINE p == f[n]
           s == DetachControllersIn(r, instance)
<1>11. Table(p) /\ ReleasedFrom(r, p, TargetsOf(gone))
  BY <1>9, <1>10
<1>12. s = [p EXCEPT !.controllers = @ \ gone,
                     !.batches = {b \in @ : \E c \in r.controllers \ gone : c.type = b}]
  BY <1>5
<1> HIDE DEF p, s, gone
<1>13. p \in Runtime
  BY <1>11 DEF Table
<1>14. /\ s \in Runtime
       /\ s.targets = p.targets /\ s.free = p.free /\ s.owners = p.owners
       /\ s.controllers = p.controllers \ gone
       /\ s.batches = {b \in p.batches : \E c \in r.controllers \ gone : c.type = b}
       /\ s.touched = p.touched /\ s.epoch = p.epoch /\ s.nextHandle = p.nextHandle
       /\ s.handleGeneration = p.handleGeneration /\ s.value = p.value
  BY <1>12, <1>13 DEF Runtime
<1>15. Table(s)
  BY <1>11, <1>14 DEF Table, FreeExact, OwnersExact
<1>16. DetachedFrom(r, s, gone)
  BY <1>11, <1>14 DEF DetachedFrom, ReleasedFrom, Same
<1> QED BY <1>15, <1>16 DEF s, gone

-----------------------------------------------------------------------------
(* Allocating targets                                                      *)

TargetDeclaration == [node : Node, access : Access]

(* A runtime whose free list names targets of its table.                   *)
Fit == {r \in Runtime : \A j \in DOMAIN r.free : r.free[j] \in DOMAIN r.targets}

NewRecord(r, target) ==
  [node |-> target.node, access |-> target.access, active |-> TRUE,
   generation |-> IF r.free = <<>> THEN 1 ELSE r.targets[NextTarget(r)].generation,
   pending |-> [k \in Kind |-> 0], pendingEpoch |-> [k \in Kind |-> 0]]

(* The fields after an allocation.                                         *)
LEMMA AllocateFields ==
  ASSUME NEW r \in Fit, NEW target \in TargetDeclaration
  PROVE  LET s == AllocateControllerTarget(r, target)
             x == NextTarget(r)
         IN  /\ Same(r, s)
             /\ s \in Fit
             /\ x \in Nat \ {0}
             /\ x \in DOMAIN r.targets <=> r.free # <<>>
             /\ DOMAIN s.targets = DOMAIN r.targets \union {x}
             /\ \A i \in DOMAIN r.targets : i # x => s.targets[i] = r.targets[i]
             /\ s.targets[x] = NewRecord(r, target)
             /\ NewRecord(r, target) \in TargetRecord
             /\ s.free = IF r.free = <<>> THEN r.free ELSE Front(r.free)
             /\ \A n \in Node : s.owners[n] = IF target.access = "ReadWrite" /\ n = target.node
                                              THEN x ELSE r.owners[n]
<1> DEFINE s == AllocateControllerTarget(r, target)
           x == NextTarget(r)
           record == NewRecord(r, target)
<1>1. /\ r.targets \in Seq(TargetRecord) /\ r.free \in Seq(Nat) /\ r.owners \in [Node -> Nat]
      /\ r \in Runtime /\ target.node \in Node /\ target.access \in Access
      /\ \A j \in DOMAIN r.free : r.free[j] \in DOMAIN r.targets
  BY DEF Fit, Runtime, TargetDeclaration
<1>2. r.free # <<>> => Len(r.free) \in DOMAIN r.free
  BY <1>1
<1>3. /\ x \in Nat \ {0}
      /\ x \in DOMAIN r.targets <=> r.free # <<>>
      /\ r.free = <<>> => x = Len(r.targets) + 1
  BY <1>1, <1>2 DEF NextTarget, Last
<1>4. r.free # <<>> => r.targets[x] \in TargetRecord
  BY <1>1, <1>3
<1>5. record \in TargetRecord
  <2>1. [k \in Kind |-> 0] \in [Kind -> Value] /\ [k \in Kind |-> 0] \in [Kind -> Nat]
    BY ControllerAssumption
  <2>2. r.free # <<>> => r.targets[x].generation \in Nat
    BY <1>4 DEF TargetRecord
  <2>3. (IF r.free = <<>> THEN 1 ELSE r.targets[x].generation) \in Nat
    BY <2>2
  <2> QED BY <1>1, <2>1, <2>3 DEF NewRecord, TargetRecord
<1>6. /\ Same(r, s)
      /\ s.targets = IF r.free = <<>> THEN Append(r.targets, record)
                     ELSE [r.targets EXCEPT ![x] = record]
      /\ s.free = IF r.free = <<>> THEN r.free ELSE Front(r.free)
      /\ s.owners = [r.owners EXCEPT ![target.node] =
                       IF target.access = "ReadWrite" THEN x ELSE @]
  BY <1>1 DEF AllocateControllerTarget, Runtime, Same, NewRecord
<1> HIDE DEF record, x
<1>7. s.targets \in Seq(TargetRecord)
  <2>1. CASE r.free = <<>> BY <2>1, <1>1, <1>5, <1>6
  <2>2. CASE r.free # <<>> BY <2>2, <1>1, <1>3, <1>5, <1>6
  <2> QED BY <2>1, <2>2
<1>8. /\ DOMAIN s.targets = DOMAIN r.targets \union {x}
      /\ \A i \in DOMAIN r.targets : i # x => s.targets[i] = r.targets[i]
      /\ s.targets[x] = record
  <2>1. CASE r.free = <<>>
    <3>1. /\ Len(s.targets) = Len(r.targets) + 1 /\ Len(r.targets) \in Nat
          /\ DOMAIN s.targets = 1..Len(s.targets) /\ DOMAIN r.targets = 1..Len(r.targets)
      BY <2>1, <1>1, <1>5, <1>6, <1>7
    <3> QED BY <2>1, <3>1, <1>1, <1>3, <1>5, <1>6
  <2>2. CASE r.free # <<>>
    BY <2>2, <1>1, <1>3, <1>5, <1>6
  <2> QED BY <2>1, <2>2
<1>9. /\ s.free \in Seq(Nat)
      /\ \A j \in DOMAIN s.free : j \in DOMAIN r.free /\ s.free[j] = r.free[j]
  <2>1. CASE r.free = <<>> BY <2>1, <1>1, <1>6
  <2>2. CASE r.free # <<>>
    <3>1. Len(r.free) \in Nat \ {0} /\ DOMAIN r.free = 1..Len(r.free)
      BY <2>2, <1>1
    <3>2. s.free = SubSeq(r.free, 1, Len(r.free) - 1)
      BY <2>2, <1>6 DEF Front
    <3> QED BY <3>1, <3>2, <1>1
  <2> QED BY <2>1, <2>2
<1>10. s.owners \in [Node -> Nat]
  BY <1>1, <1>3, <1>6
<1>11. s \in Runtime
  BY <1>1, <1>6, <1>7, <1>9, <1>10 DEF AllocateControllerTarget, Runtime, Same
<1>12. s \in Fit
  BY <1>1, <1>8, <1>9, <1>11 DEF Fit
<1>13. \A n \in Node : s.owners[n] = IF target.access = "ReadWrite" /\ n = target.node
                                     THEN x ELSE r.owners[n]
  BY <1>1, <1>6
<1> QED
  BY <1>3, <1>5, <1>6, <1>8, <1>12, <1>13 DEF record, x

(* An allocation of a target nobody else writes keeps the table exact.     *)
LEMMA AllocateOne ==
  ASSUME NEW r, Table(r), NEW target \in TargetDeclaration,
         target.access = "ReadWrite" => r.owners[target.node] = INVALID
  PROVE  /\ Table(AllocateControllerTarget(r, target))
         /\ NextTarget(r) \in DOMAIN r.targets => ~r.targets[NextTarget(r)].active
         /\ r \in Fit
<1> DEFINE s == AllocateControllerTarget(r, target)
           x == NextTarget(r)
           record == NewRecord(r, target)
<1>0. r \in Fit /\ r.free \in Seq(Nat) /\ r.targets \in Seq(TargetRecord) /\ r.owners \in [Node -> Nat]
  BY DEF Fit, Table, FreeExact, Runtime
<1>1. /\ s \in Fit
      /\ x \in Nat \ {0}
      /\ x \in DOMAIN r.targets <=> r.free # <<>>
      /\ DOMAIN s.targets = DOMAIN r.targets \union {x}
      /\ \A i \in DOMAIN r.targets : i # x => s.targets[i] = r.targets[i]
      /\ s.targets[x] = record
      /\ s.free = IF r.free = <<>> THEN r.free ELSE Front(r.free)
      /\ \A n \in Node : s.owners[n] = IF target.access = "ReadWrite" /\ n = target.node
                                       THEN x ELSE r.owners[n]
  BY <1>0, AllocateFields
<1>2. record.active /\ record.node = target.node /\ record.access = target.access /\ target.node \in Node
  BY DEF NewRecord, TargetDeclaration
<1>3. x = IF r.free = <<>> THEN Len(r.targets) + 1 ELSE r.free[Len(r.free)]
  BY DEF NextTarget, Last
<1> HIDE DEF s, x, record
<1>4. x \in DOMAIN r.targets => ~r.targets[x].active
  <2>1. CASE r.free # <<>>
    <3>1. Len(r.free) \in DOMAIN r.free BY <2>1, <1>0
    <3> QED BY <2>1, <3>1, <1>3 DEF Table, FreeExact
  <2> QED BY <2>1, <1>1
<1>5. FreeExact(s)
  <2>1. CASE r.free = <<>>
    <3>1. \A i \in DOMAIN r.targets : r.targets[i].active
      BY <2>1 DEF Table, FreeExact
    <3>2. \A i \in DOMAIN s.targets : s.targets[i].active
      BY <3>1, <1>1, <1>2
    <3>3. s.free = <<>> BY <2>1, <1>1
    <3> QED BY <3>2, <3>3 DEF FreeExact
  <2>2. CASE r.free # <<>>
    <3> DEFINE n == Len(r.free)
    <3>1. n \in Nat \ {0} /\ DOMAIN r.free = 1..n /\ x = r.free[n]
      BY <2>2, <1>0, <1>3
    <3>2. s.free = SubSeq(r.free, 1, n - 1)
      BY <2>2, <1>1 DEF Front
    <3>3. DOMAIN s.free = 1..(n - 1) /\ \A j \in 1..(n - 1) : s.free[j] = r.free[j]
      BY <3>1, <3>2, <1>0
    <3>4. /\ \A j \in DOMAIN r.free : r.free[j] \in DOMAIN r.targets /\ ~r.targets[r.free[j]].active
          /\ \A i \in DOMAIN r.targets : ~r.targets[i].active => \E j \in DOMAIN r.free : r.free[j] = i
          /\ \A j, l \in DOMAIN r.free : r.free[j] = r.free[l] => j = l
      BY DEF Table, FreeExact
    <3> HIDE DEF n
    <3>5. \A j \in 1..(n - 1) : j \in DOMAIN r.free /\ j # n /\ n \in DOMAIN r.free
      BY <3>1
    <3>6. \A j \in 1..(n - 1) : s.free[j] # x /\ s.free[j] \in DOMAIN r.targets /\ ~r.targets[s.free[j]].active
      BY <3>1, <3>3, <3>4, <3>5
    <3>7. \A j \in DOMAIN s.free : s.free[j] \in DOMAIN s.targets /\ ~s.targets[s.free[j]].active
      BY <3>3, <3>6, <1>1
    <3>8. ASSUME NEW i \in DOMAIN s.targets, ~s.targets[i].active
          PROVE  \E j \in DOMAIN s.free : s.free[j] = i
      <4>1. i # x /\ i \in DOMAIN r.targets /\ ~r.targets[i].active
        BY <3>8, <1>1, <1>2
      <4>2. PICK j \in DOMAIN r.free : r.free[j] = i
        BY <4>1, <3>4
      <4>3. j \in 1..(n - 1)
        BY <4>1, <4>2, <3>1
      <4> QED BY <4>2, <4>3, <3>3
    <3>9. \A j, l \in DOMAIN s.free : s.free[j] = s.free[l] => j = l
      BY <3>3, <3>4, <3>5
    <3> QED BY <3>7, <3>8, <3>9 DEF FreeExact
  <2> QED BY <2>1, <2>2
<1>6. OwnersExact(s)
  <2>1. ASSUME NEW i \in DOMAIN s.targets, s.targets[i].active
        PROVE  /\ s.targets[i].node \in Node
               /\ s.targets[i].access = "ReadWrite" => s.owners[s.targets[i].node] = i
    <3>1. CASE i = x BY <3>1, <1>1, <1>2
    <3>2. CASE i # x
      <4>1. i \in DOMAIN r.targets /\ s.targets[i] = r.targets[i]
        BY <3>2, <1>1
      <4>2. /\ r.targets[i].node \in Node
            /\ r.targets[i].access = "ReadWrite" => r.owners[r.targets[i].node] = i
        BY <4>1, <2>1 DEF Table, OwnersExact
      <4>3. i # INVALID
        BY <4>1, <1>0 DEF INVALID
      <4>4. r.targets[i].access = "ReadWrite" =>
              ~(target.access = "ReadWrite" /\ r.targets[i].node = target.node)
        BY <4>2, <4>3
      <4> QED BY <4>1, <4>2, <4>4, <1>1
    <3> QED BY <3>1, <3>2
  <2>2. ASSUME NEW n \in Node, s.owners[n] # INVALID
        PROVE  /\ s.owners[n] \in DOMAIN s.targets
               /\ s.targets[s.owners[n]].active
               /\ s.targets[s.owners[n]].node = n
               /\ s.targets[s.owners[n]].access = "ReadWrite"
    <3>1. CASE target.access = "ReadWrite" /\ n = target.node
      BY <3>1, <1>1, <1>2
    <3>2. CASE ~(target.access = "ReadWrite" /\ n = target.node)
      <4>1. s.owners[n] = r.owners[n] BY <3>2, <1>1
      <4>2. /\ r.owners[n] \in DOMAIN r.targets
            /\ r.targets[r.owners[n]].active
            /\ r.targets[r.owners[n]].node = n
            /\ r.targets[r.owners[n]].access = "ReadWrite"
        BY <4>1, <2>2 DEF Table, OwnersExact
      <4>3. r.owners[n] # x BY <4>2, <1>4
      <4> QED BY <4>1, <4>2, <4>3, <1>1
    <3> QED BY <3>1, <3>2
  <2> QED BY <2>1, <2>2 DEF OwnersExact
<1> QED
  BY <1>0, <1>1, <1>4, <1>5, <1>6 DEF Table, Fit, s, x

(* One round of AllocateAll.                                               *)
TokenFor(r, target) ==
  [index |-> NextTarget(r),
   generation |-> AllocateControllerTarget(r, target).targets[NextTarget(r)].generation]
AllocateNext(a, target) ==
  [rt |-> AllocateControllerTarget(a.rt, target), tokens |-> Append(a.tokens, TokenFor(a.rt, target))]

Allocation == [rt : Fit, tokens : Seq(Token)]

(* A round gives a runtime and tokens.                                     *)
LEMMA AllocateType ==
  ASSUME NEW a \in Allocation, NEW target \in TargetDeclaration
  PROVE  /\ AllocateNext(a, target) \in Allocation
         /\ TokenFor(a.rt, target) \in Token
         /\ TokenFor(a.rt, target).index = NextTarget(a.rt)
         /\ TokenFor(a.rt, target).generation = NewRecord(a.rt, target).generation
<1> DEFINE r == a.rt
           s == AllocateControllerTarget(r, target)
           x == NextTarget(r)
<1>1. r \in Fit /\ a.tokens \in Seq(Token)
  BY DEF Allocation
<1>2. s \in Fit /\ x \in Nat \ {0} /\ s.targets[x] = NewRecord(r, target) /\ NewRecord(r, target) \in TargetRecord
  BY <1>1, AllocateFields
<1>3. s.targets[x].generation \in Nat
  BY <1>2 DEF TargetRecord
<1>4. TokenFor(r, target) \in Token
  BY <1>2, <1>3 DEF TokenFor, Token
<1>5. Append(a.tokens, TokenFor(r, target)) \in Seq(Token)
  BY <1>1, <1>4
<1>6. AllocateNext(a, target) \in Allocation
  BY <1>2, <1>5 DEF AllocateNext, Allocation
<1> QED BY <1>2, <1>4, <1>6 DEF TokenFor

(* AllocateAll allocates its targets one after the other.                  *)
AllocateSteps(f, r, targets) ==
  /\ f[0] = [rt |-> r, tokens |-> <<>>]
  /\ \A i \in 1..Len(targets) : f[i] = AllocateNext(f[i - 1], targets[i])
  /\ AllocateAll(r, targets) = f[Len(targets)]

(* The recursion of AllocateAll has a solution.                            *)
LEMMA AllocateRec ==
  ASSUME NEW r \in Fit, NEW targets \in Seq(TargetDeclaration)
  PROVE  \E f : AllocateSteps(f, r, targets)
<1> DEFINE n == Len(targets)
           base == [rt |-> r, tokens |-> <<>>]
           step == [i \in 1..n |-> [a \in Allocation |-> AllocateNext(a, targets[i])]]
           Eq(g) == g = [i \in 0..n |-> IF i = 0 THEN base ELSE AllocateNext(g[i - 1], targets[i])]
<1>1. n \in Nat /\ \A i \in 1..n : targets[i] \in TargetDeclaration
  OBVIOUS
<1>2. step \in [1..n -> [Allocation -> Allocation]]
  BY <1>1, AllocateType
<1>3. base \in Allocation
  BY DEF Allocation
<1>4. PICK f \in [0..n -> Allocation] : Iterated(f, n, base, step)
  <2> HIDE DEF step, n, base
  <2> QED BY <1>1, <1>2, <1>3, Iterates
<1>5. ASSUME NEW i \in 1..n PROVE f[i] = AllocateNext(f[i - 1], targets[i])
  <2>1. f[i - 1] \in Allocation BY <1>1
  <2> HIDE DEF base
  <2> QED BY <1>4, <2>1 DEF Iterated
<1> HIDE DEF n, base
<1>6. Eq(f)
  BY <1>1, <1>4, <1>5 DEF Iterated
<1> DEFINE g == CHOOSE h : Eq(h)
<1>7. Eq(g)
  <2> HIDE DEF Eq
  <2> QED BY <1>6
<1>8. AllocateAll(r, targets) = g[n]
  BY DEF AllocateAll, AllocateNext, TokenFor, n, base
<1> HIDE DEF g
<1>9. g[0] = base /\ \A i \in 1..n : g[i] = AllocateNext(g[i - 1], targets[i])
  BY <1>1, <1>7
<1>10. AllocateSteps(g, r, targets)
  BY <1>8, <1>9 DEF n, base, AllocateSteps
<1> QED BY <1>10

(* s is r after the tokens were allocated for the first targets.           *)
AllocatedFrom(r, s, targets, tokens) ==
  /\ Same(r, s)
  /\ \A i \in DOMAIN r.targets :
       /\ i \in DOMAIN s.targets
       /\ s.targets[i].generation = r.targets[i].generation
       /\ i \notin Indices(tokens) => s.targets[i] = r.targets[i]
  /\ \A i \in DOMAIN s.targets : i \in DOMAIN r.targets \/ i \in Indices(tokens)
  /\ \A a \in DOMAIN tokens :
       /\ Current(s, tokens[a])
       /\ s.targets[tokens[a].index].node = targets[a].node
       /\ s.targets[tokens[a].index].pendingEpoch = [k \in Kind |-> 0]
       /\ tokens[a].index \in DOMAIN r.targets => ~r.targets[tokens[a].index].active
  /\ \A a, b \in DOMAIN tokens : tokens[a].index = tokens[b].index => a = b
  /\ \A n \in Node :
       (\A a \in DOMAIN tokens : targets[a].access = "ReadWrite" => targets[a].node # n)
         => s.owners[n] = r.owners[n]

(* The targets are for different nodes, none written by somebody else.     *)
Allocatable(r, targets) ==
  /\ \A i, j \in DOMAIN targets : targets[i].node = targets[j].node => i = j
  /\ \A i \in DOMAIN targets : targets[i].access = "ReadWrite" => r.owners[targets[i].node] = INVALID

(* Each round of an allocation adds one target.                            *)
LEMMA AllocateRound ==
  ASSUME NEW r, NEW a \in Allocation, NEW targets \in Seq(TargetDeclaration),
         NEW i \in DOMAIN targets, Allocatable(r, targets),
         Table(a.rt), Len(a.tokens) = i - 1, AllocatedFrom(r, a.rt, targets, a.tokens)
  PROVE  LET b == AllocateNext(a, targets[i])
         IN  /\ b \in Allocation /\ Table(b.rt) /\ Len(b.tokens) = i
             /\ AllocatedFrom(r, b.rt, targets, b.tokens)
<1> DEFINE b == AllocateNext(a, targets[i])
           q == a.rt
           s == b.rt
           target == targets[i]
           x == NextTarget(q)
           token == TokenFor(q, target)
<1>1. /\ q \in Fit /\ a.tokens \in Seq(Token) /\ target \in TargetDeclaration
      /\ i \in Nat /\ target.node \in Node
  <2>1. q \in Fit /\ a.tokens \in Seq(Token)
    BY DEF Allocation
  <2>2. target \in TargetDeclaration /\ i \in Nat
    OBVIOUS
  <2>3. target.node \in Node
    BY <2>2 DEF TargetDeclaration
  <2> QED BY <2>1, <2>2, <2>3
<1>2. /\ b \in Allocation /\ token \in Token /\ token.index = x
      /\ token.generation = NewRecord(q, target).generation
  BY <1>1, AllocateType
<1>3. /\ s = AllocateControllerTarget(q, target)
      /\ b.tokens = Append(a.tokens, token)
  BY DEF AllocateNext
<1>4. /\ DOMAIN a.tokens = 1..(i - 1) /\ DOMAIN b.tokens = 1..i /\ Len(b.tokens) = i
      /\ \A c \in 1..(i - 1) : b.tokens[c] = a.tokens[c]
      /\ b.tokens[i] = token
  BY <1>1, <1>2, <1>3
<1>5. target.access = "ReadWrite" => q.owners[target.node] = INVALID
  <2>1. \A c \in DOMAIN a.tokens : c \in DOMAIN targets /\ c # i
    BY <1>1, <1>4
  <2>2. \A c \in DOMAIN a.tokens : targets[c].node # target.node
    BY <2>1 DEF Allocatable
  <2>3. q.owners[target.node] = r.owners[target.node]
    BY <1>1, <2>2 DEF AllocatedFrom
  <2> QED BY <2>3 DEF Allocatable
<1>6. Table(s) /\ (x \in DOMAIN q.targets => ~q.targets[x].active)
  BY <1>1, <1>3, <1>5, AllocateOne
<1>7. /\ Same(q, s)
      /\ DOMAIN s.targets = DOMAIN q.targets \union {x}
      /\ \A j \in DOMAIN q.targets : j # x => s.targets[j] = q.targets[j]
      /\ s.targets[x] = NewRecord(q, target)
      /\ \A n \in Node : s.owners[n] = IF target.access = "ReadWrite" /\ n = target.node
                                       THEN x ELSE q.owners[n]
      /\ x \in DOMAIN q.targets <=> q.free # <<>>
  <2> HIDE DEF q, s, b, target
  <2> QED BY <1>1, <1>3, AllocateFields DEF x
<1>8. /\ NewRecord(q, target).active
      /\ NewRecord(q, target).node = target.node
      /\ NewRecord(q, target).pendingEpoch = [k \in Kind |-> 0]
      /\ q.free # <<>> => NewRecord(q, target).generation = q.targets[x].generation
  BY DEF NewRecord
<1>9. \A c \in DOMAIN a.tokens :
        /\ Current(q, a.tokens[c])
        /\ a.tokens[c].index \in DOMAIN q.targets
        /\ q.targets[a.tokens[c].index].active
        /\ a.tokens[c].index # x
  BY <1>6 DEF AllocatedFrom, Current
<1>10. Indices(b.tokens) = Indices(a.tokens) \union {x}
  <2>1. \A c \in 1..i : c \in 1..(i - 1) \/ c = i
    BY <1>1
  <2>2. \A c \in 1..(i - 1) : c \in 1..i
    BY <1>1
  <2>3. i \in 1..i
    BY <1>1, DOMAIN targets = 1..Len(targets)
  <2> QED BY <1>2, <1>4, <2>1, <2>2, <2>3 DEF Indices
<1> HIDE DEF b, q, s, x, token, target
<1>11. Same(r, s)
  BY <1>7 DEF AllocatedFrom, Same, q
<1>12. ASSUME NEW j \in DOMAIN r.targets
       PROVE  /\ j \in DOMAIN s.targets
              /\ s.targets[j].generation = r.targets[j].generation
              /\ j \notin Indices(b.tokens) => s.targets[j] = r.targets[j]
  <2>1. /\ j \in DOMAIN q.targets
        /\ q.targets[j].generation = r.targets[j].generation
        /\ j \notin Indices(a.tokens) => q.targets[j] = r.targets[j]
    BY DEF AllocatedFrom, q
  <2>2. CASE j # x BY <2>1, <2>2, <1>7, <1>10
  <2>3. CASE j = x BY <2>1, <2>3, <1>7, <1>8, <1>10
  <2> QED BY <2>2, <2>3
<1>13. \A j \in DOMAIN s.targets : j \in DOMAIN r.targets \/ j \in Indices(b.tokens)
  BY <1>7, <1>10 DEF AllocatedFrom, q
<1>14. ASSUME NEW c \in DOMAIN b.tokens
       PROVE  /\ Current(s, b.tokens[c])
              /\ s.targets[b.tokens[c].index].node = targets[c].node
              /\ s.targets[b.tokens[c].index].pendingEpoch = [k \in Kind |-> 0]
              /\ b.tokens[c].index \in DOMAIN r.targets => ~r.targets[b.tokens[c].index].active
  <2>1. CASE c = i
    <3>1. b.tokens[c] = token /\ token.index = x /\ x \in DOMAIN s.targets
      BY <2>1, <1>2, <1>4, <1>7
    <3>2. Current(s, token)
      BY <3>1, <1>2, <1>7, <1>8 DEF Current
    <3>3. x \in DOMAIN r.targets => ~r.targets[x].active
      <4> SUFFICES ASSUME x \in DOMAIN r.targets PROVE ~r.targets[x].active
        OBVIOUS
      <4>1. CASE x \in Indices(a.tokens)
        BY <4>1, <1>9 DEF Indices
      <4>2. CASE x \notin Indices(a.tokens)
        <5>1. q.targets[x] = r.targets[x] /\ x \in DOMAIN q.targets
          BY <4>2 DEF AllocatedFrom, q
        <5> QED BY <5>1, <1>6
      <4> QED BY <4>1, <4>2
    <3> QED BY <2>1, <3>1, <3>2, <3>3, <1>7, <1>8 DEF target
  <2>2. CASE c # i
    <3>1. c \in DOMAIN a.tokens /\ b.tokens[c] = a.tokens[c]
      BY <2>2, <1>1, <1>4
    <3>2. /\ q.targets[a.tokens[c].index].node = targets[c].node
          /\ q.targets[a.tokens[c].index].pendingEpoch = [k \in Kind |-> 0]
          /\ a.tokens[c].index \in DOMAIN r.targets => ~r.targets[a.tokens[c].index].active
      BY <3>1 DEF AllocatedFrom, q
    <3>3. s.targets[a.tokens[c].index] = q.targets[a.tokens[c].index]
      BY <3>1, <1>7, <1>9
    <3>4. Current(s, a.tokens[c])
      BY <3>1, <3>3, <1>7, <1>9 DEF Current
    <3> QED BY <3>1, <3>2, <3>3, <3>4
  <2> QED BY <2>1, <2>2
<1>15. ASSUME NEW c \in DOMAIN b.tokens, NEW d \in DOMAIN b.tokens,
              b.tokens[c].index = b.tokens[d].index
       PROVE  c = d
  <2>1. \A e \in DOMAIN b.tokens : e = i \/ (e \in DOMAIN a.tokens /\ b.tokens[e] = a.tokens[e])
    BY <1>1, <1>4
  <2>2. b.tokens[i].index = x
    BY <1>2, <1>4
  <2>3. \A e, g \in DOMAIN a.tokens : a.tokens[e].index = a.tokens[g].index => e = g
    BY DEF AllocatedFrom
  <2>4. \A e \in DOMAIN a.tokens : a.tokens[e].index # x
    BY <1>9
  <2>5. CASE c = i BY <1>15, <2>1, <2>2, <2>4, <2>5
  <2>6. CASE d = i BY <1>15, <2>1, <2>2, <2>4, <2>6
  <2>7. CASE c # i /\ d # i BY <1>15, <2>1, <2>3, <2>7
  <2> QED BY <2>5, <2>6, <2>7
<1>16. ASSUME NEW n \in Node,
              \A c \in DOMAIN b.tokens : targets[c].access = "ReadWrite" => targets[c].node # n
       PROVE  s.owners[n] = r.owners[n]
  <2>1. \A c \in DOMAIN a.tokens : c \in DOMAIN b.tokens
    BY <1>1, <1>4
  <2>2. i \in DOMAIN b.tokens
    BY <1>1, <1>4, DOMAIN targets = 1..Len(targets)
  <2>3. q.owners[n] = r.owners[n]
    BY <1>16, <2>1 DEF AllocatedFrom, q
  <2> QED BY <1>7, <1>16, <2>2, <2>3 DEF target
<1>17. AllocatedFrom(r, s, targets, b.tokens)
  BY <1>11, <1>12, <1>13, <1>14, <1>15, <1>16 DEF AllocatedFrom
<1> QED BY <1>2, <1>4, <1>6, <1>17 DEF b, s, target

(* Allocating the targets of one declaration keeps the table exact.        *)
LEMMA AllocateEach ==
  ASSUME NEW r, Table(r), NEW targets \in Seq(TargetDeclaration), Allocatable(r, targets)
  PROVE  LET b == AllocateAll(r, targets)
         IN  /\ b \in Allocation /\ Table(b.rt) /\ Len(b.tokens) = Len(targets)
             /\ AllocatedFrom(r, b.rt, targets, b.tokens)
<1> DEFINE n == Len(targets)
<1>0. r \in Fit BY DEF Table, FreeExact, Fit
<1>1. PICK f : AllocateSteps(f, r, targets)
  BY <1>0, AllocateRec
<1>2. f[0] = [rt |-> r, tokens |-> <<>>]
  BY <1>1 DEF AllocateSteps
<1> DEFINE Ok(b, i) == /\ b \in Allocation /\ Table(b.rt) /\ Len(b.tokens) = i
                       /\ AllocatedFrom(r, b.rt, targets, b.tokens)
           S == {i \in 0..n : Ok(f[i], i)}
<1>3. 0 \in S
  <2>1. f[0].rt = r /\ f[0].tokens = <<>> /\ f[0] \in Allocation
    BY <1>0, <1>2 DEF Allocation
  <2>2. AllocatedFrom(r, r, targets, <<>>)
    BY DEF AllocatedFrom, Same, Indices
  <2> QED BY <2>1, <2>2
<1>4. ASSUME NEW i \in 1..n, i - 1 \in S PROVE i \in S
  <2>1. f[i] = AllocateNext(f[i - 1], targets[i])
    BY <1>1 DEF AllocateSteps
  <2>2. Ok(f[i - 1], i - 1) /\ i \in DOMAIN targets /\ i \in 0..n
    <3> HIDE DEF Ok
    <3> QED BY <1>4
  <2>3. Ok(f[i], i)
    BY <2>1, <2>2, AllocateRound
  <2> HIDE DEF Ok
  <2> QED BY <2>2, <2>3
<1>5. n \in S
  <2> HIDE DEF S
  <2>1. n \in Nat /\ \A i \in 1..n : i - 1 \in S => i \in S BY <1>4
  <2>2. 0..n \subseteq S BY <1>3, <2>1, UpTo
  <2> QED BY <2>1, <2>2
<1>6. AllocateAll(r, targets) = f[n]
  BY <1>1 DEF AllocateSteps
<1> QED BY <1>5, <1>6

-----------------------------------------------------------------------------
(* Steps that leave the table alone                                        *)

(* Two runtimes whose targets differ only in what is pending.              *)
Alike(r, s) ==
  /\ s.free = r.free /\ s.owners = r.owners
  /\ DOMAIN s.targets = DOMAIN r.targets
  /\ \A i \in DOMAIN r.targets :
       /\ s.targets[i].active = r.targets[i].active
       /\ s.targets[i].node = r.targets[i].node
       /\ s.targets[i].access = r.targets[i].access
       /\ s.targets[i].generation = r.targets[i].generation

(* The table stays exact, and tokens stay current.                         *)
LEMMA AlikeTable ==
  ASSUME NEW r, Table(r), NEW s \in Runtime, Alike(r, s)
  PROVE  Table(s)
<1>1. FreeExact(s)
  BY DEF Table, FreeExact, Alike
<1>2. OwnersExact(s)
  BY DEF Table, OwnersExact, Alike
<1> QED BY <1>1, <1>2 DEF Table

(* Tokens held before a step that leaves the targets alike are held after it. *)
LEMMA AlikeHolds ==
  ASSUME NEW r, NEW s, Alike(r, s), NEW tokens, NEW slot, Holds(r, tokens, slot)
  PROVE  Holds(s, tokens, slot)
BY DEF Holds, Current, Alike

(* Two controllers that differ only in whether their input is closed.      *)
Kin(c, b) == /\ c.instance = b.instance /\ c.type = b.type
             /\ c.handle = b.handle /\ c.targets = b.targets

(* The controllers D are the controllers C again.                          *)
Followed(C, D) ==
  /\ \A c \in D : \E b \in C : Kin(c, b)
  /\ \A b \in C : \E c \in D : Kin(c, b)
  /\ \A c, d \in D : c # d => c.handle # d.handle

(* The controllers follow themselves when no two of them share a handle.   *)
LEMMA FollowedSame ==
  ASSUME HandlesNeverRevive
  PROVE  Followed(rt.controllers, rt.controllers)
BY DEF HandlesNeverRevive, Followed, Kin

(* A step that gives and takes no target and no controller.                *)
Steady ==
  /\ rt' \in Runtime
  /\ Alike(rt, rt')
  /\ Followed(rt.controllers, rt'.controllers)
  /\ rt'.batches = rt.batches
  /\ rt'.nextHandle = rt.nextHandle /\ rt'.handleGeneration = rt.handleGeneration
  /\ \A c \in rt.controllers : FindSlot(c.instance)'
  /\ frame'.tokens = frame.tokens
  /\ frame.tokens # <<>> => frame'.instance = frame.instance /\ frame'.todo = frame.todo
  /\ rt.batches \subseteq m_controllerFactories'
  /\ issued' = issued /\ retired' = retired

(* A steady step keeps every token with its holder.                        *)
LEMMA SteadyHeld ==
  ASSUME IndInv, Steady
  PROVE  HeldInv'
<1> USE DEF IndInv
<1>1. ASSUME NEW c \in rt'.controllers
      PROVE  /\ FindSlot(c.instance)'
             /\ Holds(rt', c.targets, c.instance.slot)
             /\ Apart(c.targets, frame'.tokens)
             /\ \A d \in rt'.controllers : c # d => Apart(c.targets, d.targets)
  <2>1. PICK b \in rt.controllers : Kin(c, b)
    BY DEF Steady, Followed
  <2>2. Holds(rt, b.targets, b.instance.slot) /\ Apart(b.targets, frame.tokens)
    BY DEF HeldInv
  <2>3. Alike(rt, rt') /\ frame'.tokens = frame.tokens /\ FindSlot(b.instance)'
    BY DEF Steady
  <2>4. Holds(rt', b.targets, b.instance.slot)
    BY <2>2, <2>3, AlikeHolds
  <2>5. ASSUME NEW d \in rt'.controllers, c # d PROVE Apart(c.targets, d.targets)
    <3>1. PICK e \in rt.controllers : Kin(d, e)
      BY DEF Steady, Followed
    <3>2. b # e
      BY <2>1, <2>5, <3>1 DEF Steady, Followed, Kin
    <3>3. Apart(b.targets, e.targets)
      BY <3>2 DEF HeldInv
    <3> QED BY <2>1, <3>1, <3>3 DEF Kin
  <2>6. FindSlot(c.instance)'
    BY <2>1, <2>3 DEF Kin, FindSlot
  <2> QED BY <2>1, <2>2, <2>3, <2>4, <2>5, <2>6 DEF Kin
<1>2. frame'.tokens # <<>> => Holds(rt', frame'.tokens, frame'.instance.slot)
  BY AlikeHolds DEF Steady, HeldInv
<1>3. ASSUME NEW i \in DOMAIN rt'.targets, rt'.targets[i].active
      PROVE  \/ \E c \in rt'.controllers : \E a \in DOMAIN c.targets : c.targets[a].index = i
             \/ \E a \in DOMAIN frame'.tokens : frame'.tokens[a].index = i
  <2>1. i \in DOMAIN rt.targets /\ rt.targets[i].active
    BY <1>3 DEF Steady, Alike
  <2>2. CASE \E a \in DOMAIN frame.tokens : frame.tokens[a].index = i
    BY <2>2 DEF Steady
  <2>3. CASE \E c \in rt.controllers : \E a \in DOMAIN c.targets : c.targets[a].index = i
    BY <2>3 DEF Steady, Followed, Kin
  <2> QED BY <2>1, <2>2, <2>3 DEF HeldInv
<1> QED BY <1>1, <1>2, <1>3 DEF HeldInv

(* Such a step keeps all of the invariant that is about who holds what.    *)
LEMMA SteadyStep ==
  ASSUME IndInv, Steady
  PROVE  Table(rt)' /\ HeldInv' /\ BatchInv' /\ IssuedInv' /\ HandleInv' /\ HandlesNeverRevive'
<1> USE DEF IndInv
<1>1. Table(rt')
  BY AlikeTable DEF Steady
<1>2. HeldInv'
  BY SteadyHeld
<1>3. BatchInv'
  <2>1. \A c \in rt'.controllers : c.type \in rt'.batches
    BY DEF BatchInv, Steady, Followed, Kin
  <2>2. ASSUME NEW b \in rt'.batches
        PROVE  \/ \E c \in rt'.controllers : c.type = b
               \/ frame'.tokens # <<>> /\ frame'.todo[1].type = b
    <3>1. CASE \E c \in rt.controllers : c.type = b
      BY <3>1 DEF Steady, Followed, Kin
    <3>2. CASE frame.tokens # <<>> /\ frame.todo[1].type = b
      BY <3>2 DEF Steady
    <3>3. b \in rt.batches BY DEF Steady
    <3> QED BY <3>1, <3>2, <3>3 DEF BatchInv
  <2> QED BY <2>1, <2>2 DEF BatchInv, Steady
<1>4. IssuedInv'
  BY DEF IssuedInv, Steady, Alike
<1>5. HandleInv'
  <2>1. \A h : Before(h, rt') <=> Before(h, rt)
    BY DEF Before, Steady
  <2>2. \A c \in rt'.controllers : Before(c.handle, rt)
    BY DEF HandleInv, Steady, Followed, Kin
  <2> QED BY <2>1, <2>2 DEF HandleInv, Steady
<1>6. HandlesNeverRevive'
  BY DEF HandlesNeverRevive, Steady, Followed, Kin
<1> QED BY <1>1, <1>2, <1>3, <1>4, <1>5, <1>6

(* The initial state.                                                      *)
LEMMA InitInv == Init => IndInv
<1> SUFFICES ASSUME Init PROVE IndInv
  OBVIOUS
<1> USE DEF Init
<1>1. Types
  <2>1. slots \in [Slot -> [reserved : BOOLEAN, generation : Nat]]
    OBVIOUS
  <2>2. rt \in Runtime
    BY ControllerAssumption DEF Runtime, INVALID
  <2>3. frame \in Callbacks
    BY DEF NoFrame, Frame, NoWrites, Callbacks
  <2>4. IsFiniteSet(rt.controllers)
    BY FS_EmptySet
  <2> QED BY <2>1, <2>2, <2>3, <2>4 DEF Types
<1>2. Table(rt)
  BY <1>1 DEF Table, Types, FreeExact, OwnersExact, INVALID
<1>3. frame.tokens = <<>> /\ frame.kind = "none" /\ rt.controllers = {} /\ DOMAIN rt.targets = {} /\ rt.batches = {}
  BY DEF NoFrame, Frame
<1>4. HeldInv /\ AttachInv /\ BatchInv
  BY <1>3 DEF HeldInv, AttachInv, BatchInv
<1>5. IssuedInv /\ HandleInv /\ HandlesNeverRevive /\ CommandInv /\ CallbacksApplyExactly
  BY <1>3 DEF IssuedInv, HandleInv, HandlesNeverRevive, CommandInv, Idle, CallbacksApplyExactly
<1>6. FreeSlotsStill
  BY ControllerAssumption DEF FreeSlotsStill
<1> QED BY <1>1, <1>2, <1>4, <1>5, <1>6 DEF IndInv

-----------------------------------------------------------------------------
(* Factories and leases                                                    *)

(* What a step may not change.                                             *)
LEMMA AlikeSame ==
  ASSUME NEW r, NEW s, s.targets = r.targets, s.free = r.free, s.owners = r.owners
  PROVE  Alike(r, s)
BY DEF Alike

(* RegisterControllerFactory keeps the invariant.                          *)
LEMMA RegisterKeeps ==
  ASSUME IndInv, NEW type \in Type, RegisterControllerFactory(type)
  PROVE  IndInv'
<1> USE DEF IndInv
<1>1. /\ Idle /\ m_controllerFactories' = m_controllerFactories \union {type}
      /\ slots' = slots /\ rt' = rt /\ frame' = frame
      /\ issued' = issued /\ retired' = retired /\ inexact' = inexact
  BY DEF RegisterControllerFactory
<1>2. Types'
  BY <1>1 DEF Types
<1>3. Steady
  BY <1>1, FollowedSame, AlikeSame DEF Steady, Types, BatchInv, HeldInv, FindSlot
<1>4. AttachInv'
  BY <1>1 DEF AttachInv, Idle
<1>5. CommandInv' /\ FreeSlotsStill' /\ CallbacksApplyExactly'
  BY <1>1 DEF CommandInv, Idle, FreeSlotsStill, CallbacksApplyExactly
<1> QED BY <1>2, <1>3, <1>4, <1>5, SteadyStep

(* A factory stays registered while a batch of its type exists.            *)
LEMMA UnregisterKeeps ==
  ASSUME IndInv, NEW type \in Type, UnregisterControllerFactory(type)
  PROVE  IndInv'
<1> USE DEF IndInv
<1>1. /\ Idle /\ m_controllerFactories' = m_controllerFactories \ {type}
      /\ \A c \in rt.controllers : c.type # type
      /\ slots' = slots /\ rt' = rt /\ frame' = frame
      /\ issued' = issued /\ retired' = retired /\ inexact' = inexact
  BY DEF UnregisterControllerFactory
<1>2. Types'
  BY <1>1 DEF Types
<1>3. frame.tokens = <<>>
  BY <1>1 DEF AttachInv, Idle
<1>4. rt.batches \subseteq m_controllerFactories'
  BY <1>1, <1>3 DEF BatchInv
<1>5. Steady
  BY <1>1, <1>4, FollowedSame, AlikeSame DEF Steady, Types, HeldInv, FindSlot
<1>6. AttachInv'
  BY <1>1 DEF AttachInv, Idle
<1>7. CommandInv' /\ FreeSlotsStill' /\ CallbacksApplyExactly'
  BY <1>1 DEF CommandInv, Idle, FreeSlotsStill, CallbacksApplyExactly
<1> QED BY <1>2, <1>5, <1>6, <1>7, SteadyStep

(* ReserveSlot keeps the invariant.                                        *)
LEMMA ReserveKeeps ==
  ASSUME IndInv, NEW slot \in Slot, ReserveSlot(slot)
  PROVE  IndInv'
<1> USE DEF IndInv
<1>1. /\ Idle /\ ~slots[slot].reserved
      /\ slots' = [slots EXCEPT ![slot].reserved = TRUE]
      /\ rt' = rt /\ frame' = frame /\ m_controllerFactories' = m_controllerFactories
      /\ issued' = issued /\ retired' = retired /\ inexact' = inexact
  BY DEF ReserveSlot
<1>2. slots \in [Slot -> [reserved : BOOLEAN, generation : Nat]]
  BY DEF Types
<1>3. slots' \in [Slot -> [reserved : BOOLEAN, generation : Nat]]
  BY <1>1, <1>2
<1>4. \A s \in Slot : s # slot => slots'[s] = slots[s]
  BY <1>1, <1>2
<1>5. Types'
  BY <1>1, <1>3 DEF Types
<1>6. ASSUME NEW c \in rt.controllers PROVE FindSlot(c.instance)'
  <2>1. FindSlot(c.instance) /\ c.instance.slot \in Slot
    BY DEF HeldInv, Types, Runtime, Controller, InstanceHandle
  <2>2. c.instance.slot # slot
    BY <1>1, <2>1 DEF FindSlot
  <2> QED BY <1>4, <2>1, <2>2 DEF FindSlot
<1>7. Steady
  BY <1>1, <1>6, FollowedSame, AlikeSame DEF Steady, Types, BatchInv
<1>8. FreeSlotsStill'
  <2>1. ASSUME NEW s \in Slot, ~slots'[s].reserved PROVE ~slots[s].reserved
    BY <1>1, <1>4, <2>1
  <2> QED BY <1>1, <2>1 DEF FreeSlotsStill
<1>9. AttachInv'
  BY <1>1 DEF AttachInv, Idle
<1>10. CommandInv' /\ CallbacksApplyExactly'
  BY <1>1 DEF CommandInv, Idle, CallbacksApplyExactly
<1> QED BY <1>5, <1>7, <1>8, <1>9, <1>10, SteadyStep

(* A slot that is released has no controllers, and its nodes are cleared.  *)
LEMMA ReleaseSlotKeeps ==
  ASSUME IndInv, NEW slot \in Slot, ReleaseSlot(slot)
  PROVE  IndInv'
<1> USE DEF IndInv
<1>1. /\ Idle /\ slots[slot].reserved
      /\ ~HasControllers(slot)
      /\ rt' = Cleared(slot)
      /\ slots' = [slots EXCEPT ![slot] = [reserved |-> FALSE, generation |-> @.generation + 1]]
      /\ frame' = frame /\ m_controllerFactories' = m_controllerFactories
      /\ issued' = issued /\ retired' = retired /\ inexact' = inexact
  BY DEF ReleaseSlot
<1>2. slots \in [Slot -> [reserved : BOOLEAN, generation : Nat]] /\ rt \in Runtime
  BY DEF Types
<1>3. slots' \in [Slot -> [reserved : BOOLEAN, generation : Nat]]
  BY <1>1, <1>2
<1>4. \A s \in Slot : s # slot => slots'[s] = slots[s]
  BY <1>1, <1>2
<1> DEFINE new == [k \in Kind |-> [n \in Node |-> IF n \in NodesOf[slot] THEN 0 ELSE rt.value[k][n]]]
<1>5. new \in [Kind -> [Node -> Value]]
  BY <1>2, ControllerAssumption DEF Runtime
<1>6. rt' = [rt EXCEPT !.value = new]
  BY <1>1 DEF Cleared
<1>7. /\ rt' \in Runtime /\ rt'.value = new
      /\ rt'.targets = rt.targets /\ rt'.free = rt.free /\ rt'.owners = rt.owners
      /\ rt'.controllers = rt.controllers /\ rt'.batches = rt.batches
      /\ rt'.nextHandle = rt.nextHandle /\ rt'.handleGeneration = rt.handleGeneration
      /\ rt'.epoch = rt.epoch
  <2> HIDE DEF new
  <2> QED BY <1>2, <1>5, <1>6 DEF Runtime
<1>8. Types'
  BY <1>1, <1>3, <1>7 DEF Types
<1>9. ASSUME NEW c \in rt.controllers PROVE FindSlot(c.instance)'
  <2>1. FindSlot(c.instance) /\ c.instance.slot \in Slot
    BY <1>2 DEF HeldInv, Runtime, Controller, InstanceHandle
  <2>2. c.instance.slot # slot
    BY <1>1 DEF HasControllers
  <2> QED BY <1>4, <2>1, <2>2 DEF FindSlot
<1>10. Steady
  BY <1>1, <1>7, <1>9, FollowedSame, AlikeSame DEF Steady, BatchInv
<1>11. FreeSlotsStill'
  <2>1. ASSUME NEW s \in Slot, ~slots'[s].reserved, NEW n \in NodesOf[s], NEW k \in Kind
        PROVE  rt'.value[k][n] = 0
    <3>1. n \in Node
      BY ControllerAssumption
    <3>2. CASE s = slot BY <1>7, <3>1, <3>2
    <3>3. CASE s # slot
      <4>1. ~slots[s].reserved BY <1>4, <2>1, <3>3
      <4>2. rt.value[k][n] = 0 BY <4>1 DEF FreeSlotsStill
      <4> QED BY <1>7, <3>1, <4>2
    <3> QED BY <3>2, <3>3
  <2> QED BY <2>1 DEF FreeSlotsStill
<1>12. AttachInv'
  BY <1>1 DEF AttachInv, Idle
<1>13. CommandInv' /\ CallbacksApplyExactly'
  BY <1>1, <1>7 DEF CommandInv, Idle, CallbacksApplyExactly
<1> QED BY <1>8, <1>10, <1>11, <1>12, <1>13, SteadyStep

-----------------------------------------------------------------------------
(* Callbacks                                                               *)

(* A new command epoch changes nothing else.                               *)
LEMMA BeginFields ==
  ASSUME NEW r \in Runtime
  PROVE  LET s == BeginControllerCommands(r)
         IN  /\ s \in Runtime
             /\ s.targets = r.targets /\ s.free = r.free /\ s.owners = r.owners
             /\ s.controllers = r.controllers /\ s.batches = r.batches
             /\ s.nextHandle = r.nextHandle /\ s.handleGeneration = r.handleGeneration
             /\ s.value = r.value
             /\ s.epoch = r.epoch + 1
             /\ \A k \in Kind : s.touched[k] = <<>>
<1> DEFINE t == [k \in Kind |-> <<>>]
<1>1. t \in [Kind -> Seq(Nat)] /\ \A k \in Kind : t[k] = <<>>
  OBVIOUS
<1>2. BeginControllerCommands(r) = [r EXCEPT !.touched = t, !.epoch = @ + 1]
  BY DEF BeginControllerCommands
<1> HIDE DEF t
<1> DEFINE s == [r EXCEPT !.touched = t, !.epoch = @ + 1]
<1>3. r.epoch \in Nat /\ r.epoch + 1 \in Nat
  BY DEF Runtime
<1>4. s \in Runtime
  BY <1>1, <1>3 DEF Runtime
<1>5. /\ s.targets = r.targets /\ s.free = r.free /\ s.owners = r.owners
      /\ s.controllers = r.controllers /\ s.batches = r.batches
      /\ s.nextHandle = r.nextHandle /\ s.handleGeneration = r.handleGeneration
      /\ s.value = r.value
      /\ s.epoch = r.epoch + 1 /\ s.touched = t
  BY DEF Runtime
<1> HIDE DEF s
<1> QED BY <1>1, <1>2, <1>4, <1>5 DEF s

(* The beginning of any callback, from one with no callback in progress.   *)
LEMMA BegunKeeps ==
  ASSUME IndInv, Idle, rt' = BeginControllerCommands(rt),
         frame' \in Callbacks, frame'.kind # "none", frame'.epoch = rt'.epoch,
         frame'.writes = NoWrites, frame'.tokens = <<>>, AttachInv',
         UNCHANGED <<slots, m_controllerFactories, issued, retired, inexact>>
  PROVE  IndInv'
<1> USE DEF IndInv
<1>1. rt \in Runtime /\ rt.epoch \in Nat
  BY DEF Types, Runtime
<1>2. /\ rt' \in Runtime
      /\ rt'.targets = rt.targets /\ rt'.free = rt.free /\ rt'.owners = rt.owners
      /\ rt'.controllers = rt.controllers /\ rt'.batches = rt.batches
      /\ rt'.nextHandle = rt.nextHandle /\ rt'.handleGeneration = rt.handleGeneration
      /\ rt'.value = rt.value
      /\ rt'.epoch = rt.epoch + 1
      /\ \A k \in Kind : rt'.touched[k] = <<>>
  BY <1>1, BeginFields
<1>3. frame.tokens = <<>>
  BY DEF AttachInv, Idle
<1>4. Types'
  BY <1>2 DEF Types
<1>5. Steady
  BY <1>2, <1>3, FollowedSame, AlikeSame DEF Steady, HeldInv, FindSlot, BatchInv
<1>6. CommandInv'
  <2>1. \A i \in DOMAIN rt'.targets, k \in Kind :
          rt'.targets[i].pendingEpoch[k] <= rt.epoch /\ rt'.targets[i].pendingEpoch[k] \in Nat
    <3>1. \A i \in DOMAIN rt.targets : rt.targets[i] \in TargetRecord
      BY <1>1 DEF Runtime
    <3>2. \A i \in DOMAIN rt.targets, k \in Kind : rt.targets[i].pendingEpoch[k] \in Nat
      BY <3>1 DEF TargetRecord
    <3> QED BY <1>2, <3>2 DEF CommandInv
  <2>2. \A k \in Kind, n \in Node : frame'.writes[k][n] = None
    BY DEF NoWrites
  <2>3. \A i \in DOMAIN rt'.targets, k \in Kind :
          rt'.targets[i].pendingEpoch[k] <= rt'.epoch /\ rt'.targets[i].pendingEpoch[k] # rt'.epoch
    BY <1>1, <1>2, <2>1
  <2>4. rt'.epoch > 0 BY <1>1, <1>2
  <2>5. \A k \in Kind : DOMAIN rt'.touched[k] = {} BY <1>2
  <2>6. \A k \in Kind : Noted(k)'
    BY <2>2, <2>3, <2>5 DEF Noted
  <2> QED BY <2>3, <2>4, <2>6 DEF CommandInv
<1>7. FreeSlotsStill' /\ CallbacksApplyExactly'
  BY <1>2 DEF FreeSlotsStill, CallbacksApplyExactly
<1> QED BY <1>4, <1>5, <1>6, <1>7, SteadyStep

(* The start of an input or step callback keeps the invariant.             *)
LEMMA CallbackKeeps ==
  ASSUME IndInv, Idle, NEW kind \in {"input", "step"}, Callback(kind)
  PROVE  IndInv'
<1>1. /\ rt' = BeginControllerCommands(rt)
      /\ frame' = Frame(kind, rt'.epoch)
      /\ UNCHANGED <<slots, m_controllerFactories, issued, retired, inexact>>
  BY DEF Callback
<1>2. rt' \in Runtime /\ rt'.epoch \in Nat
  BY <1>1, BeginFields DEF IndInv, Types, Runtime
<1>3. /\ frame' \in Callbacks /\ frame'.kind = kind /\ frame'.epoch = rt'.epoch
      /\ frame'.writes = NoWrites /\ frame'.tokens = <<>>
  BY <1>1, <1>2 DEF Frame, Callbacks, NoWrites
<1>4. AttachInv'
  BY <1>3 DEF AttachInv
<1> QED BY <1>1, <1>3, <1>4, BegunKeeps

(* The checks of AttachControllers leave every declaration constructible.  *)
LEMMA AttachKeeps ==
  ASSUME IndInv, NEW slot \in Slot, NEW declarations \in Declarations[slot],
         AttachControllers(slot, declarations)
  PROVE  IndInv'
<1>1. /\ Idle
      /\ rt' = BeginControllerCommands(rt)
      /\ FindSlot(Instance(slot))
      /\ declarations # <<>> /\ Prepared(slot, declarations)
      /\ frame' = [Frame("attach", rt'.epoch) EXCEPT !.instance = Instance(slot),
                                                     !.todo = declarations]
      /\ UNCHANGED <<slots, m_controllerFactories, issued, retired, inexact>>
  BY DEF AttachControllers
<1>2. rt' \in Runtime /\ rt'.epoch \in Nat /\ rt'.owners = rt.owners
  BY <1>1, BeginFields DEF IndInv, Types, Runtime
<1>3. /\ Instance(slot) \in InstanceHandle
      /\ Instance(slot).slot = slot
      /\ declarations \in Seq(Declaration)
  BY ControllerAssumption DEF IndInv, Types, Instance, InstanceHandle
<1>4. /\ frame' \in Callbacks /\ frame'.kind = "attach" /\ frame'.epoch = rt'.epoch
      /\ frame'.writes = NoWrites /\ frame'.tokens = <<>>
      /\ frame'.instance = Instance(slot) /\ frame'.todo = declarations
  <2> DEFINE new == Frame("attach", rt'.epoch)
  <2>1. /\ new \in Callbacks /\ new.kind = "attach" /\ new.epoch = rt'.epoch
        /\ new.writes = NoWrites /\ new.tokens = <<>>
    BY <1>2 DEF Frame, Callbacks, NoWrites
  <2> HIDE DEF new
  <2>2. frame' = [new EXCEPT !.instance = Instance(slot), !.todo = declarations]
    BY <1>1 DEF new
  <2> QED BY <1>3, <2>1, <2>2 DEF Callbacks
<1>5. AttachInv'
  <2>1. frame'.instance \in InstanceHandle /\ FindSlot(frame.instance)' /\ frame'.todo # <<>>
    BY <1>1, <1>3, <1>4 DEF FindSlot
  <2>2. \A i \in DOMAIN declarations : declarations[i] \in Range(declarations)
    BY DEF Range
  <2>3. ASSUME NEW i \in DOMAIN declarations
        PROVE  Constructible(slot, declarations[i])'
    BY <1>1, <2>2 DEF Prepared, Constructible
  <2>4. \A i \in DOMAIN declarations : \A a \in DOMAIN declarations[i].targets :
          declarations[i].targets[a] \in Range(declarations[i].targets)
    BY DEF Range
  <2>5. ASSUME NEW i \in DOMAIN declarations
        PROVE  Unowned(declarations[i])'
    BY <1>1, <1>2, <2>4 DEF Prepared, Unowned
  <2>6. ASSUME NEW i \in DOMAIN declarations, NEW j \in DOMAIN declarations, j < i
        PROVE  WriteApart(declarations[i], declarations[j])
    <3>1. j \in 1..i - 1
      BY <1>3, <2>6
    <3> QED BY <1>1, <2>4, <3>1 DEF Prepared, WriteApart
  <2>7. ASSUME NEW i \in DOMAIN declarations, NEW j \in DOMAIN declarations, i # j
        PROVE  WriteApart(declarations[i], declarations[j])
    <3>1. i < j \/ j < i
      BY <1>3, <2>7
    <3>2. CASE j < i BY <2>6, <3>2
    <3>3. CASE i < j
      <4>1. WriteApart(declarations[j], declarations[i]) BY <2>6, <3>3
      <4> QED BY <4>1 DEF WriteApart
    <3> QED BY <3>1, <3>2, <3>3
  <2>8. Instance(slot).slot = slot /\ frame'.instance.slot = slot
    BY <1>3, <1>4
  <2> QED BY <1>4, <2>1, <2>3, <2>5, <2>7, <2>8 DEF AttachInv
<1> QED BY <1>1, <1>4, <1>5, BegunKeeps

(* A nonempty finite set of positions has a greatest member.               *)
LEMMA MaxIn ==
  ASSUME NEW n \in Nat, NEW S, S \subseteq 1..n, S # {}
  PROVE  Max(S) \in S
<1> DEFINE T == {x \in 0..n : n - x \in S}
<1>1. T \subseteq Nat /\ T # {}
  <2>1. PICK x \in S : TRUE OBVIOUS
  <2>2. x \in 1..n /\ n - x \in 0..n /\ n - (n - x) = x BY <2>1
  <2>3. n - x \in T BY <2>2
  <2>4. T \subseteq Nat OBVIOUS
  <2> QED BY <2>3, <2>4
<1>2. PICK y \in T : \A z \in T : y <= z
  <2> HIDE DEF T
  <2> QED BY <1>1, WellOrder
<1>3. n - y \in S
  BY <1>2
<1>4. ASSUME NEW x \in S PROVE n - y >= x
  <2>1. x \in 1..n /\ n - x \in 0..n /\ n - (n - x) = x OBVIOUS
  <2>2. n - x \in T BY <2>1
  <2>3. y <= n - x /\ y \in 0..n BY <1>2, <2>2
  <2> QED BY <2>1, <2>3
<1>5. \E m \in S : \A x \in S : m >= x
  BY <1>3, <1>4
<1> QED BY <1>5 DEF Max

(* An active target is for a node of a leased slot.                        *)
LEMMA Leased ==
  ASSUME IndInv, NEW i \in DOMAIN rt.targets, rt.targets[i].active,
         NEW s \in Slot, rt.targets[i].node \in NodesOf[s]
  PROVE  slots[s].reserved
<1> USE DEF IndInv
<1>1. CASE \E c \in rt.controllers : \E a \in DOMAIN c.targets : c.targets[a].index = i
  <2>1. PICK c \in rt.controllers : \E a \in DOMAIN c.targets : c.targets[a].index = i
    BY <1>1
  <2>2. FindSlot(c.instance) /\ rt.targets[i].node \in NodesOf[c.instance.slot]
    BY <2>1 DEF HeldInv, Holds
  <2>3. c.instance.slot \in Slot
    BY DEF Types, Runtime, Controller, InstanceHandle
  <2>4. c.instance.slot = s
    BY <2>2, <2>3, ControllerAssumption
  <2> QED BY <2>2, <2>4 DEF FindSlot
<1>2. CASE \E a \in DOMAIN frame.tokens : frame.tokens[a].index = i
  <2>1. frame.tokens # <<>>
    BY <1>2
  <2>2. rt.targets[i].node \in NodesOf[frame.instance.slot]
    BY <1>2, <2>1 DEF HeldInv, Holds
  <2>3. FindSlot(frame.instance) /\ frame.instance.slot \in Slot
    BY <2>1 DEF AttachInv, InstanceHandle
  <2>4. frame.instance.slot = s
    BY <2>2, <2>3, ControllerAssumption
  <2> QED BY <2>3, <2>4 DEF FindSlot
<1> QED BY <1>1, <1>2 DEF HeldInv

(* Applying the touched targets writes just what the callback was granted. *)
LEMMA Applied ==
  ASSUME IndInv, ~Idle, NEW r, r.targets = rt.targets, r.touched = rt.touched, r.value = rt.value
  PROVE  AppliedValues(r) = Expected
<1> USE DEF IndInv
<1>0. AppliedValues(r) = AppliedValues(rt)
  <2> DEFINE Result(targets, touched, value) ==
        [k \in Kind |->
          LET nodes == {targets[touched[k][i]].node : i \in DOMAIN touched[k]}
              written(n) == {i \in DOMAIN touched[k] : targets[touched[k][i]].node = n}
          IN  IF k = "motion" /\ INVALID \in nodes THEN value[k]
              ELSE [n \in Node |-> IF written(n) = {} THEN value[k][n]
                                   ELSE targets[touched[k][Max(written(n))]].pending[k]]]
  <2>1. AppliedValues(r) = Result(r.targets, r.touched, r.value)
    BY DEF AppliedValues
  <2>2. AppliedValues(rt) = Result(rt.targets, rt.touched, rt.value)
    BY DEF AppliedValues
  <2> HIDE DEF Result
  <2> QED BY <2>1, <2>2
<1>1. ASSUME NEW k \in Kind
      PROVE  LET nodes == {rt.targets[rt.touched[k][i]].node : i \in DOMAIN rt.touched[k]}
                 written(n) == {i \in DOMAIN rt.touched[k] : rt.targets[rt.touched[k][i]].node = n}
             IN  (IF k = "motion" /\ INVALID \in nodes THEN rt.value[k]
                  ELSE [n \in Node |->
                          IF written(n) = {} THEN rt.value[k][n]
                          ELSE rt.targets[rt.touched[k][Max(written(n))]].pending[k]])
                 = [n \in Node |-> IF frame.writes[k][n] = None THEN rt.value[k][n]
                                   ELSE frame.writes[k][n]]
  <2> DEFINE touched == rt.touched[k]
             node(i) == rt.targets[touched[i]].node
             written(n) == {i \in DOMAIN touched : node(i) = n}
  <2>0. Noted(k)
    BY DEF CommandInv
  <2>1. \A i \in DOMAIN touched :
          /\ touched[i] \in DOMAIN rt.targets
          /\ rt.targets[touched[i]].active
          /\ frame.writes[k][node(i)] = rt.targets[touched[i]].pending[k]
    BY <2>0 DEF Noted
  <2>2. \A i \in DOMAIN touched : node(i) \in Node
    BY <2>1 DEF Table, OwnersExact
  <2>3. INVALID \notin {node(i) : i \in DOMAIN touched}
    BY <2>2, ControllerAssumption DEF INVALID
  <2>4. touched \in Seq(Nat) /\ Len(touched) \in Nat /\ DOMAIN touched = 1..Len(touched)
    BY DEF Types, Runtime
  <2>5. ASSUME NEW n \in Node
        PROVE  (IF written(n) = {} THEN rt.value[k][n]
                ELSE rt.targets[touched[Max(written(n))]].pending[k])
               = IF frame.writes[k][n] = None THEN rt.value[k][n] ELSE frame.writes[k][n]
    <3>1. CASE written(n) = {}
      <4>1. frame.writes[k][n] = None
        BY <3>1 DEF CommandInv, Noted
      <4> QED BY <3>1, <4>1
    <3>2. CASE written(n) # {}
      <4> DEFINE m == Max(written(n))
      <4>1. written(n) \subseteq 1..Len(touched)
        BY <2>4
      <4>2. m \in written(n)
        <5> HIDE DEF written
        <5> QED BY <2>4, <3>2, <4>1, MaxIn
      <4> HIDE DEF m
      <4>3. m \in DOMAIN touched /\ node(m) = n
        BY <4>2
      <4>4. frame.writes[k][n] = rt.targets[touched[m]].pending[k]
        BY <2>1, <4>3
      <4>5. rt.targets[touched[m]] \in TargetRecord
        BY <2>1, <4>3 DEF Types, Runtime
      <4>6. rt.targets[touched[m]].pending[k] # None
        BY <4>5, ControllerAssumption DEF TargetRecord
      <4> QED BY <3>2, <4>4, <4>6 DEF m
    <3> QED BY <3>1, <3>2
  <2>6. [n \in Node |-> IF written(n) = {} THEN rt.value[k][n]
                        ELSE rt.targets[touched[Max(written(n))]].pending[k]]
        = [n \in Node |-> IF frame.writes[k][n] = None THEN rt.value[k][n] ELSE frame.writes[k][n]]
    <3> HIDE DEF written, touched
    <3> QED BY <2>5
  <2> QED BY <2>3, <2>6, Zenon
<1>2. AppliedValues(rt) =
        [k \in Kind |-> [n \in Node |-> IF frame.writes[k][n] = None THEN rt.value[k][n]
                                        ELSE frame.writes[k][n]]]
  BY <1>1 DEF AppliedValues
<1> QED BY <1>0, <1>2 DEF Expected

(* What is expected has the type of values and leaves the free slots.      *)
LEMMA ExpectedStill ==
  ASSUME IndInv, ~Idle
  PROVE  /\ Expected \in [Kind -> [Node -> Value]]
         /\ \A s \in Slot : ~slots[s].reserved =>
              \A n \in NodesOf[s], k \in Kind : Expected[k][n] = 0
<1> USE DEF IndInv
<1>1. frame.writes \in [Kind -> [Node -> Value \union {None}]] /\ rt.value \in [Kind -> [Node -> Value]]
  BY DEF Types, Callbacks, Runtime
<1>2. Expected \in [Kind -> [Node -> Value]]
  BY <1>1 DEF Expected
<1>3. ASSUME NEW s \in Slot, ~slots[s].reserved, NEW n \in NodesOf[s], NEW k \in Kind
      PROVE  Expected[k][n] = 0
  <2>1. n \in Node
    BY ControllerAssumption
  <2>2. frame.writes[k][n] = None
    <3> SUFFICES ASSUME frame.writes[k][n] # None PROVE FALSE
      OBVIOUS
    <3>1. PICK j \in DOMAIN rt.touched[k] : rt.targets[rt.touched[k][j]].node = n
      BY <2>1 DEF CommandInv, Noted
    <3>2. rt.touched[k][j] \in DOMAIN rt.targets /\ rt.targets[rt.touched[k][j]].active
      BY <3>1 DEF CommandInv, Noted
    <3> QED BY <1>3, <3>1, <3>2, Leased
  <2>3. rt.value[k][n] = 0
    BY <1>3 DEF FreeSlotsStill
  <2> QED BY <2>1, <2>2, <2>3 DEF Expected
<1> QED BY <1>2, <1>3

(* The fields after the commands of a callback are applied or dropped.     *)
LEMMA EndFields ==
  ASSUME NEW r \in Runtime, NEW apply \in BOOLEAN,
         apply => AppliedValues(r) \in [Kind -> [Node -> Value]]
  PROVE  LET s == EndControllerCommands(r, apply)
         IN  /\ s \in Runtime
             /\ s.targets = r.targets /\ s.free = r.free /\ s.owners = r.owners
             /\ s.controllers = r.controllers /\ s.batches = r.batches
             /\ s.nextHandle = r.nextHandle /\ s.handleGeneration = r.handleGeneration
             /\ s.epoch = r.epoch
             /\ s.value = IF apply THEN AppliedValues(r) ELSE r.value
<1> DEFINE t == [k \in Kind |-> <<>>]
           v == IF apply THEN AppliedValues(r) ELSE r.value
<1>1. t \in [Kind -> Seq(Nat)] /\ v \in [Kind -> [Node -> Value]]
  BY DEF Runtime
<1>2. EndControllerCommands(r, apply) = [r EXCEPT !.value = v, !.touched = t]
  BY DEF EndControllerCommands
<1> HIDE DEF t, v
<1> DEFINE s == [r EXCEPT !.value = v, !.touched = t]
<1>3. s \in Runtime
  BY <1>1 DEF Runtime
<1>4. /\ s.targets = r.targets /\ s.free = r.free /\ s.owners = r.owners
      /\ s.controllers = r.controllers /\ s.batches = r.batches
      /\ s.nextHandle = r.nextHandle /\ s.handleGeneration = r.handleGeneration
      /\ s.epoch = r.epoch /\ s.value = v
  BY DEF Runtime
<1> HIDE DEF s
<1> QED BY <1>2, <1>3, <1>4 DEF s, v

(* The empty frame.                                                        *)
LEMMA NoFrameFields ==
  NoFrame \in Callbacks /\ NoFrame.kind = "none" /\ NoFrame.tokens = <<>>
BY DEF NoFrame, Frame, NoWrites, Callbacks

(* The end of an input or step callback keeps the invariant.               *)
LEMMA ReturnKeeps ==
  ASSUME IndInv, NEW apply \in BOOLEAN, CallbackReturns(apply)
  PROVE  IndInv'
<1> USE DEF IndInv
<1>1. /\ frame.kind \in {"input", "step"}
      /\ rt' = EndControllerCommands(rt, apply)
      /\ inexact' = IF rt'.value # (IF apply THEN Expected ELSE rt.value)
                    THEN inexact \union {frame.kind} ELSE inexact
      /\ frame' = NoFrame
      /\ UNCHANGED <<slots, m_controllerFactories, issued, retired>>
  BY DEF CallbackReturns
<1>2. ~Idle /\ frame.tokens = <<>>
  BY <1>1 DEF Idle, AttachInv
<1>3. AppliedValues(rt) = Expected
  BY <1>2, Applied
<1>4. AppliedValues(rt) \in [Kind -> [Node -> Value]] /\ rt \in Runtime
  BY <1>2, <1>3, ExpectedStill DEF Types
<1>5. /\ rt' \in Runtime
      /\ rt'.targets = rt.targets /\ rt'.free = rt.free /\ rt'.owners = rt.owners
      /\ rt'.controllers = rt.controllers /\ rt'.batches = rt.batches
      /\ rt'.nextHandle = rt.nextHandle /\ rt'.handleGeneration = rt.handleGeneration
      /\ rt'.epoch = rt.epoch
      /\ rt'.value = IF apply THEN Expected ELSE rt.value
  BY <1>1, <1>3, <1>4, EndFields
<1>6. frame' \in Callbacks /\ frame'.kind = "none" /\ frame'.tokens = <<>>
  BY <1>1, NoFrameFields
<1>7. Types'
  BY <1>1, <1>5, <1>6 DEF Types
<1>8. Steady
  BY <1>1, <1>2, <1>5, <1>6, FollowedSame, AlikeSame DEF Steady, HeldInv, FindSlot, BatchInv
<1>9. AttachInv'
  BY <1>6 DEF AttachInv
<1>10. CommandInv'
  BY <1>5, <1>6 DEF CommandInv, Idle
<1>11. FreeSlotsStill'
  BY <1>1, <1>2, <1>5, ExpectedStill DEF FreeSlotsStill
<1>12. CallbacksApplyExactly'
  BY <1>1, <1>5 DEF CallbacksApplyExactly
<1> QED BY <1>7, <1>8, <1>9, <1>10, <1>11, <1>12, SteadyStep

-----------------------------------------------------------------------------
(* Commands                                                                *)

(* The target after a command.                                             *)
LEMMA CommandedFields ==
  ASSUME NEW record \in TargetRecord, NEW epoch \in Nat, NEW k \in Kind, NEW value \in Value
  PROVE  LET new == Commanded(record, epoch, k, value)
         IN  /\ new \in TargetRecord
             /\ new.node = record.node /\ new.access = record.access
             /\ new.active = record.active /\ new.generation = record.generation
             /\ new.pending[k] = value /\ new.pendingEpoch[k] = epoch
             /\ \A l \in Kind : l # k => /\ new.pending[l] = record.pending[l]
                                         /\ new.pendingEpoch[l] = record.pendingEpoch[l]
<1> DEFINE p == [record.pending EXCEPT ![k] = value]
           e == [record.pendingEpoch EXCEPT ![k] = epoch]
           new == [record EXCEPT !.pending = p, !.pendingEpoch = e]
<1>1. record.pending \in [Kind -> Value] /\ record.pendingEpoch \in [Kind -> Nat]
  BY DEF TargetRecord
<1>2. /\ p \in [Kind -> Value] /\ p[k] = value /\ \A l \in Kind : l # k => p[l] = record.pending[l]
      /\ e \in [Kind -> Nat] /\ e[k] = epoch /\ \A l \in Kind : l # k => e[l] = record.pendingEpoch[l]
  BY <1>1
<1>3. Commanded(record, epoch, k, value) = new
  BY DEF Commanded, TargetRecord
<1> HIDE DEF p, e
<1>4. /\ new \in TargetRecord
      /\ new.node = record.node /\ new.access = record.access
      /\ new.active = record.active /\ new.generation = record.generation
      /\ new.pending = p /\ new.pendingEpoch = e
  BY <1>2 DEF TargetRecord
<1> HIDE DEF new
<1> QED BY <1>2, <1>3, <1>4

(* What was noted stays noted when the touched targets keep their command  *)
(* and no other gets the stamp of the present epoch.                       *)
LEMMA NotedStill ==
  ASSUME NEW k \in Kind, Noted(k),
         rt'.touched[k] = rt.touched[k], frame'.writes[k] = frame.writes[k],
         rt'.epoch = rt.epoch,
         \A j \in DOMAIN rt.touched[k] :
           /\ rt.touched[k][j] \in DOMAIN rt'.targets
           /\ rt'.targets[rt.touched[k][j]].active = rt.targets[rt.touched[k][j]].active
           /\ rt'.targets[rt.touched[k][j]].access = rt.targets[rt.touched[k][j]].access
           /\ rt'.targets[rt.touched[k][j]].node = rt.targets[rt.touched[k][j]].node
           /\ rt'.targets[rt.touched[k][j]].pending[k] = rt.targets[rt.touched[k][j]].pending[k],
         \A i \in DOMAIN rt'.targets : rt'.targets[i].pendingEpoch[k] = rt.epoch =>
           i \in DOMAIN rt.targets /\ rt.targets[i].pendingEpoch[k] = rt.epoch
  PROVE  Noted(k)'
<1>1. ASSUME NEW j \in DOMAIN rt.touched[k]
      PROVE  /\ rt.touched[k][j] \in DOMAIN rt'.targets
             /\ rt'.targets[rt.touched[k][j]].active
             /\ rt'.targets[rt.touched[k][j]].access = "ReadWrite"
             /\ frame.writes[k][rt'.targets[rt.touched[k][j]].node]
                  = rt'.targets[rt.touched[k][j]].pending[k]
  <2>1. /\ rt.targets[rt.touched[k][j]].active
        /\ rt.targets[rt.touched[k][j]].access = "ReadWrite"
        /\ frame.writes[k][rt.targets[rt.touched[k][j]].node]
             = rt.targets[rt.touched[k][j]].pending[k]
    BY <1>1, Zenon DEF Noted
  <2> QED BY <1>1, <2>1
<1>2. ASSUME NEW n \in Node, frame.writes[k][n] # None
      PROVE  \E j \in DOMAIN rt.touched[k] : rt'.targets[rt.touched[k][j]].node = n
  <2>1. PICK j \in DOMAIN rt.touched[k] : rt.targets[rt.touched[k][j]].node = n
    BY <1>2, Zenon DEF Noted
  <2> QED BY <2>1
<1>3. ASSUME NEW i \in DOMAIN rt'.targets, rt'.targets[i].pendingEpoch[k] = rt.epoch
      PROVE  \E j \in DOMAIN rt.touched[k] : rt.touched[k][j] = i
  <2>1. i \in DOMAIN rt.targets /\ rt.targets[i].pendingEpoch[k] = rt.epoch
    BY <1>3
  <2> QED BY <2>1, Zenon DEF Noted
<1>4. /\ rt'.touched[k] = rt.touched[k] /\ frame'.writes[k] = frame.writes[k]
      /\ rt'.epoch = rt.epoch
  OBVIOUS
<1>5. ASSUME NEW j \in DOMAIN rt'.touched[k]
      PROVE  /\ rt'.touched[k][j] \in DOMAIN rt'.targets
             /\ rt'.targets[rt'.touched[k][j]].active
             /\ rt'.targets[rt'.touched[k][j]].access = "ReadWrite"
             /\ frame'.writes[k][rt'.targets[rt'.touched[k][j]].node]
                  = rt'.targets[rt'.touched[k][j]].pending[k]
  <2>1. j \in DOMAIN rt.touched[k] BY ONLY <1>4, <1>5
  <2> QED BY ONLY <1>1, <1>4, <2>1
<1>6. ASSUME NEW n \in Node, frame'.writes[k][n] # None
      PROVE  \E j \in DOMAIN rt'.touched[k] : rt'.targets[rt'.touched[k][j]].node = n
  <2>1. frame.writes[k][n] # None BY ONLY <1>4, <1>6
  <2> QED BY ONLY <1>2, <1>4, <2>1
<1>7. ASSUME NEW i \in DOMAIN rt'.targets, rt'.targets[i].pendingEpoch[k] = rt'.epoch
      PROVE  \E j \in DOMAIN rt'.touched[k] : rt'.touched[k][j] = i
  <2>1. rt'.targets[i].pendingEpoch[k] = rt.epoch BY ONLY <1>4, <1>7
  <2> QED BY ONLY <1>3, <1>4, <2>1
<1> QED BY <1>5, <1>6, <1>7, Zenon DEF Noted

(* s is the runtime r after a command.                                     *)
SetFrom(r, s, x, epoch, k, value) ==
  /\ s \in Runtime
  /\ s.free = r.free /\ s.owners = r.owners
  /\ s.controllers = r.controllers /\ s.batches = r.batches
  /\ s.nextHandle = r.nextHandle /\ s.handleGeneration = r.handleGeneration
  /\ s.epoch = r.epoch /\ s.value = r.value
  /\ DOMAIN s.targets = DOMAIN r.targets
  /\ \A i \in DOMAIN r.targets : i # x => s.targets[i] = r.targets[i]
  /\ s.targets[x] = Commanded(r.targets[x], epoch, k, value)
  /\ \A l \in Kind : l # k => s.touched[l] = r.touched[l]
  /\ s.touched[k] = IF r.targets[x].pendingEpoch[k] # epoch
                    THEN Append(r.touched[k], x) ELSE r.touched[k]

(* SetController does just that.                                           *)
LEMMA SetFields ==
  ASSUME NEW r \in Runtime, NEW token \in Token, token.index \in DOMAIN r.targets,
         NEW epoch \in Nat, NEW k \in Kind, NEW value \in Value
  PROVE  SetFrom(r, SetController(r, token, epoch, k, value), token.index, epoch, k, value)
<1> DEFINE x == token.index
           new == Commanded(r.targets[x], epoch, k, value)
           ts == [r.targets EXCEPT ![x] = new]
           after == IF r.targets[x].pendingEpoch[k] # epoch THEN Append(r.touched[k], x) ELSE r.touched[k]
           us == [r.touched EXCEPT ![k] = after]
           s == [r EXCEPT !.targets = ts, !.touched = us]
<1>1. /\ r.targets \in Seq(TargetRecord) /\ r.touched \in [Kind -> Seq(Nat)] /\ x \in Nat
      /\ r.touched[k] \in Seq(Nat)
  BY DEF Runtime, Token
<1>2. r.targets[x] \in TargetRecord
  BY <1>1
<1>3. new \in TargetRecord
  BY <1>2, CommandedFields
<1>4. SetController(r, token, epoch, k, value) = s
  BY DEF SetController, Runtime
<1> HIDE DEF new
<1>5. /\ ts \in Seq(TargetRecord) /\ DOMAIN ts = DOMAIN r.targets /\ ts[x] = new
      /\ \A i \in DOMAIN r.targets : i # x => ts[i] = r.targets[i]
  BY <1>1, <1>3
<1>6. after \in Seq(Nat)
  BY <1>1
<1> HIDE DEF after
<1>7. us \in [Kind -> Seq(Nat)] /\ us[k] = after /\ \A l \in Kind : l # k => us[l] = r.touched[l]
  BY <1>1, <1>6
<1> HIDE DEF ts, us
<1>8. s \in Runtime
  BY <1>5, <1>7 DEF Runtime
<1>9. /\ s.free = r.free /\ s.owners = r.owners
      /\ s.controllers = r.controllers /\ s.batches = r.batches
      /\ s.nextHandle = r.nextHandle /\ s.handleGeneration = r.handleGeneration
      /\ s.epoch = r.epoch /\ s.value = r.value /\ s.targets = ts /\ s.touched = us
  BY DEF Runtime
<1> HIDE DEF s
<1>10. SetFrom(r, s, x, epoch, k, value)
  BY <1>5, <1>7, <1>8, <1>9 DEF SetFrom, after, new
<1> QED BY <1>4, <1>10

(* A granted command is for the present epoch, and gives and takes no      *)
(* target.                                                                 *)
LEMMA SetSteady ==
  ASSUME IndInv, NEW token \in Token, NEW epoch \in Nat, NEW k \in Kind, NEW value \in Value,
         Granted(token, epoch), rt' = SetController(rt, token, epoch, k, value),
         slots' = slots, frame'.tokens = frame.tokens, frame'.instance = frame.instance,
         frame'.todo = frame.todo, m_controllerFactories' = m_controllerFactories,
         issued' = issued, retired' = retired
  PROVE  Steady
<1> USE DEF IndInv
<1> DEFINE x == token.index
<1>1. x \in DOMAIN rt.targets /\ rt \in Runtime
  BY DEF Granted, FindControllerTarget, Current, Types
<1>2. /\ rt' \in Runtime
      /\ rt'.free = rt.free /\ rt'.owners = rt.owners
      /\ rt'.controllers = rt.controllers /\ rt'.batches = rt.batches
      /\ rt'.nextHandle = rt.nextHandle /\ rt'.handleGeneration = rt.handleGeneration
      /\ DOMAIN rt'.targets = DOMAIN rt.targets
      /\ \A i \in DOMAIN rt.targets : i # x => rt'.targets[i] = rt.targets[i]
      /\ rt'.targets[x] = Commanded(rt.targets[x], epoch, k, value)
  <2>1. SetFrom(rt, rt', x, epoch, k, value)
    BY <1>1, SetFields
  <2> QED BY <2>1 DEF SetFrom
<1>3. rt.targets[x] \in TargetRecord
  BY <1>1 DEF Runtime
<1>4. /\ rt'.targets[x].node = rt.targets[x].node /\ rt'.targets[x].access = rt.targets[x].access
      /\ rt'.targets[x].active = rt.targets[x].active
      /\ rt'.targets[x].generation = rt.targets[x].generation
  BY <1>2, <1>3, CommandedFields
<1>5. Alike(rt, rt')
  BY <1>2, <1>4 DEF Alike
<1> QED BY <1>2, <1>5, FollowedSame DEF Steady, HeldInv, FindSlot, BatchInv

(* A command of the callback in progress.                                  *)
LEMMA CommandKeeps ==
  ASSUME IndInv, NEW token \in Token, NEW k \in Kind, NEW value \in Value,
         Command(token, k, value)
  PROVE  IndInv'
<1> USE DEF IndInv
<1> DEFINE x == token.index
           epoch == frame.epoch
           node == rt.targets[x].node
           writes == [frame.writes EXCEPT ![k] = [frame.writes[k] EXCEPT ![node] = value]]
<1>1. /\ ~Idle
      /\ Granted(token, epoch)
      /\ rt' = SetController(rt, token, epoch, k, value)
      /\ frame' = [frame EXCEPT !.commands = @ + 1, !.writes[k][node] = value]
      /\ UNCHANGED <<slots, m_controllerFactories, issued, retired, inexact>>
  BY DEF Command, InCallback
<1>2. /\ x \in DOMAIN rt.targets /\ rt.targets[x].active /\ rt.targets[x].access = "ReadWrite"
      /\ rt \in Runtime /\ frame \in Callbacks /\ epoch \in Nat /\ epoch = rt.epoch
      /\ frame.writes \in [Kind -> [Node -> Value \union {None}]] /\ frame.commands \in Nat
  BY <1>1 DEF Granted, FindControllerTarget, Current, Types, Callbacks
<1>3. node \in Node /\ rt.targets[x] \in TargetRecord
  BY <1>2 DEF Table, OwnersExact, Runtime
<1>4. /\ writes \in [Kind -> [Node -> Value \union {None}]]
      /\ writes[k][node] = value
      /\ \A n \in Node : n # node => writes[k][n] = frame.writes[k][n]
      /\ \A l \in Kind : l # k => writes[l] = frame.writes[l]
  <2> HIDE DEF node
  <2> QED BY <1>2, <1>3
<1> DEFINE count == frame.commands + 1
<1>5. frame' = [frame EXCEPT !.commands = count, !.writes = writes] /\ count \in Nat
  BY <1>1, <1>2 DEF Callbacks
<1> HIDE DEF writes, count
<1>6. /\ frame' \in Callbacks /\ frame'.tokens = frame.tokens /\ frame'.instance = frame.instance
      /\ frame'.todo = frame.todo /\ frame'.kind = frame.kind /\ frame'.epoch = frame.epoch
      /\ frame'.writes = writes
  BY <1>2, <1>4, <1>5 DEF Callbacks
<1>7. /\ rt' \in Runtime
      /\ rt'.epoch = rt.epoch /\ rt'.value = rt.value
      /\ rt'.owners = rt.owners /\ rt'.controllers = rt.controllers
      /\ DOMAIN rt'.targets = DOMAIN rt.targets
      /\ \A i \in DOMAIN rt.targets : i # x => rt'.targets[i] = rt.targets[i]
      /\ rt'.targets[x] = Commanded(rt.targets[x], epoch, k, value)
      /\ \A l \in Kind : l # k => rt'.touched[l] = rt.touched[l]
      /\ rt'.touched[k] = IF rt.targets[x].pendingEpoch[k] # epoch
                          THEN Append(rt.touched[k], x) ELSE rt.touched[k]
  <2>1. SetFrom(rt, rt', x, epoch, k, value)
    BY <1>1, <1>2, SetFields
  <2> QED BY <2>1 DEF SetFrom
<1>8. /\ rt'.targets[x].node = node /\ rt'.targets[x].access = "ReadWrite"
      /\ rt'.targets[x].active
      /\ rt'.targets[x].pending[k] = value /\ rt'.targets[x].pendingEpoch[k] = epoch
      /\ \A l \in Kind : l # k =>
           /\ rt'.targets[x].pending[l] = rt.targets[x].pending[l]
           /\ rt'.targets[x].pendingEpoch[l] = rt.targets[x].pendingEpoch[l]
  <2> DEFINE record == rt.targets[x]
             new == rt'.targets[x]
  <2>1. record \in TargetRecord /\ new = Commanded(record, epoch, k, value)
    BY <1>3, <1>7
  <2> HIDE DEF record, new
  <2>2. /\ new.node = record.node /\ new.access = record.access /\ new.active = record.active
        /\ new.pending[k] = value /\ new.pendingEpoch[k] = epoch
        /\ \A l \in Kind : l # k => /\ new.pending[l] = record.pending[l]
                                    /\ new.pendingEpoch[l] = record.pendingEpoch[l]
    BY <1>2, <2>1, CommandedFields
  <2> QED BY <1>2, <2>2 DEF record, new
<1>9. Types'
  BY <1>1, <1>6, <1>7 DEF Types
<1>10. Steady
  BY <1>1, <1>2, <1>6, SetSteady
<1>11. AttachInv'
  <2>1. FindSlot(frame.instance)' <=> FindSlot(frame.instance)
    BY <1>1, <1>6 DEF FindSlot
  <2>2. \A d : Unowned(d)' <=> Unowned(d)
    BY <1>7 DEF Unowned
  <2>3. \A s, d : Constructible(s, d)' <=> Constructible(s, d)
    BY <1>1 DEF Constructible
  <2>4. Remaining' = Remaining
    BY <1>6 DEF Remaining
  <2> QED BY <1>6, <2>1, <2>2, <2>3, <2>4 DEF AttachInv
<1>12. CommandInv'
  <2>1. \A i \in DOMAIN rt'.targets, l \in Kind : rt'.targets[i].pendingEpoch[l] <= rt'.epoch
    <3>1. ASSUME NEW i \in DOMAIN rt.targets, NEW l \in Kind
          PROVE  rt'.targets[i].pendingEpoch[l] <= rt'.epoch
      <4>1. rt.targets[i].pendingEpoch[l] <= rt.epoch BY DEF CommandInv
      <4>2. CASE i = x /\ l = k BY <1>2, <1>7, <1>8, <4>2
      <4>3. CASE i = x /\ l # k BY <1>7, <1>8, <4>1, <4>3
      <4>4. CASE i # x BY <1>7, <4>1, <4>4
      <4> QED BY <4>2, <4>3, <4>4
    <3> QED BY <1>7, <3>1
  <2>2. rt'.epoch > 0 /\ frame'.epoch = rt'.epoch
    BY <1>2, <1>6, <1>7 DEF CommandInv
  <2>3. ASSUME NEW l \in Kind, l # k PROVE Noted(l)'
    <3>1. rt'.touched[l] = rt.touched[l] /\ frame'.writes[l] = frame.writes[l]
      BY <1>4, <1>6, <1>7, <2>3
    <3>2. ASSUME NEW i \in DOMAIN rt.targets
          PROVE  /\ rt'.targets[i].node = rt.targets[i].node
                 /\ rt'.targets[i].active = rt.targets[i].active
                 /\ rt'.targets[i].access = rt.targets[i].access
                 /\ rt'.targets[i].pending[l] = rt.targets[i].pending[l]
                 /\ rt'.targets[i].pendingEpoch[l] = rt.targets[i].pendingEpoch[l]
      <4>1. CASE i = x BY <1>2, <1>8, <2>3, <4>1
      <4>2. CASE i # x BY <1>7, <4>2
      <4> QED BY <4>1, <4>2
    <3>3. Noted(l)
      BY <1>1 DEF CommandInv
    <3>4. rt'.epoch = rt.epoch /\ DOMAIN rt'.targets = DOMAIN rt.targets
      BY <1>7
    <3>5. \A j \in DOMAIN rt.touched[l] : rt.touched[l][j] \in DOMAIN rt.targets
      BY <3>3 DEF Noted
    <3> HIDE DEF IndInv
    <3> QED BY <3>1, <3>2, <3>3, <3>4, <3>5, NotedStill
  <2>0. Noted(k)
    BY <1>1 DEF CommandInv
  <2> DEFINE before == rt.touched[k]
             after == rt'.touched[k]
  <2>4. /\ \A j \in DOMAIN before : /\ before[j] \in DOMAIN rt.targets
                                    /\ rt.targets[before[j]].active
                                    /\ rt.targets[before[j]].access = "ReadWrite"
                                    /\ rt.targets[before[j]].node \in Node
                                    /\ frame.writes[k][rt.targets[before[j]].node]
                                         = rt.targets[before[j]].pending[k]
        /\ before \in Seq(Nat)
    BY <1>2, <2>0 DEF Noted, Table, OwnersExact, Runtime
  <2>5. /\ \A j \in DOMAIN after : after[j] = x \/ \E i \in DOMAIN before : after[j] = before[i]
        /\ \A i \in DOMAIN before : i \in DOMAIN after /\ after[i] = before[i]
        /\ \E j \in DOMAIN after : after[j] = x
    <3>1. CASE rt.targets[x].pendingEpoch[k] = epoch
      <4>1. after = before BY <1>7, <3>1
      <4>2. \E j \in DOMAIN before : before[j] = x
        BY <1>2, <2>0, <3>1 DEF Noted
      <4> QED BY <4>1, <4>2
    <3>2. CASE rt.targets[x].pendingEpoch[k] # epoch
      <4>1. after = Append(before, x) BY <1>7, <3>2
      <4> HIDE DEF before, after
      <4>2. /\ Len(before) \in Nat /\ DOMAIN before = 1..Len(before)
            /\ DOMAIN after = 1..(Len(before) + 1)
            /\ after[Len(before) + 1] = x
            /\ \A i \in 1..Len(before) : after[i] = before[i]
        BY <2>4, <4>1
      <4> QED BY <4>2
    <3> QED BY <3>1, <3>2
  <2>6. ASSUME NEW j \in DOMAIN after
        PROVE  /\ after[j] \in DOMAIN rt'.targets
               /\ rt'.targets[after[j]].active
               /\ rt'.targets[after[j]].access = "ReadWrite"
               /\ frame'.writes[k][rt'.targets[after[j]].node] = rt'.targets[after[j]].pending[k]
    <3>1. CASE after[j] = x
      <4>1. frame'.writes[k][node] = value
        BY <1>4, <1>6
      <4> HIDE DEF after, node
      <4> QED BY <1>2, <1>7, <1>8, <3>1, <4>1
    <3>2. CASE after[j] # x
      <4>1. PICK i \in DOMAIN before : after[j] = before[i]
        BY <2>5, <3>2
      <4> DEFINE y == before[i]
      <4>2. /\ y \in DOMAIN rt.targets /\ rt.targets[y].active /\ rt.targets[y].access = "ReadWrite"
            /\ rt.targets[y].node \in Node
            /\ frame.writes[k][rt.targets[y].node] = rt.targets[y].pending[k]
            /\ y # x /\ after[j] = y
        BY <2>4, <3>2, <4>1
      <4> HIDE DEF y
      <4>3. rt.targets[y].node # node
        BY <1>2, <4>2 DEF Table, OwnersExact
      <4>4. rt'.targets[y] = rt.targets[y]
        BY <1>7, <4>2
      <4>5. frame'.writes[k][rt.targets[y].node] = frame.writes[k][rt.targets[y].node]
        BY <1>4, <1>6, <4>2, <4>3
      <4> HIDE DEF after
      <4> QED BY <1>7, <4>2, <4>4, <4>5
    <3> QED BY <3>1, <3>2
  <2>7. ASSUME NEW n \in Node, frame'.writes[k][n] # None
        PROVE  \E j \in DOMAIN after : rt'.targets[after[j]].node = n
    <3>1. CASE n = node
      BY <1>8, <2>5, <3>1
    <3>2. CASE n # node
      <4>1. frame.writes[k][n] # None
        BY <1>4, <1>6, <2>7, <3>2
      <4>2. PICK j \in DOMAIN before : rt.targets[before[j]].node = n
        BY <2>0, <4>1 DEF Noted
      <4>3. before[j] # x
        BY <3>2, <4>2
      <4>4. rt'.targets[before[j]] = rt.targets[before[j]]
        BY <1>7, <2>4, <4>2, <4>3
      <4> QED BY <2>5, <4>2, <4>4
    <3> QED BY <3>1, <3>2
  <2>8. ASSUME NEW i \in DOMAIN rt'.targets, rt'.targets[i].pendingEpoch[k] = rt'.epoch
        PROVE  \E j \in DOMAIN after : after[j] = i
    <3>1. CASE i = x
      BY <2>5, <3>1
    <3>2. CASE i # x
      <4>1. i \in DOMAIN rt.targets /\ rt.targets[i].pendingEpoch[k] = rt.epoch
        BY <1>7, <2>8, <3>2
      <4>2. PICK j \in DOMAIN before : before[j] = i
        BY <2>0, <4>1 DEF Noted
      <4> QED BY <2>5, <4>2
    <3> QED BY <3>1, <3>2
  <2>9. Noted(k)'
    BY <2>6, <2>7, <2>8 DEF Noted
  <2> QED BY <2>1, <2>2, <2>3, <2>9 DEF CommandInv
<1>13. FreeSlotsStill' /\ CallbacksApplyExactly'
  BY <1>1, <1>7 DEF FreeSlotsStill, CallbacksApplyExactly
<1> QED BY <1>9, <1>10, <1>11, <1>12, <1>13, SteadyStep

(* A command through a copy of a sink, after its callback returned: it is  *)
(* dropped when the next callback begins.                                  *)
LEMMA LateKeeps ==
  ASSUME IndInv, NEW token \in Token, NEW k \in Kind, NEW value \in Value,
         LateCommand(token, k, value)
  PROVE  IndInv'
<1> USE DEF IndInv
<1> DEFINE x == token.index
           epoch == rt.epoch
<1>1. /\ Idle /\ Granted(token, epoch)
      /\ rt' = SetController(rt, token, epoch, k, value)
      /\ frame' = frame
      /\ UNCHANGED <<slots, m_controllerFactories, issued, retired, inexact>>
  BY DEF LateCommand
<1>2. x \in DOMAIN rt.targets /\ rt \in Runtime /\ epoch \in Nat
  BY <1>1 DEF Granted, FindControllerTarget, Current, Types, Runtime
<1>3. rt.targets[x] \in TargetRecord
  BY <1>2 DEF Runtime
<1>4. /\ rt' \in Runtime
      /\ rt'.epoch = rt.epoch /\ rt'.value = rt.value /\ rt'.controllers = rt.controllers
      /\ DOMAIN rt'.targets = DOMAIN rt.targets
      /\ \A i \in DOMAIN rt.targets : i # x => rt'.targets[i] = rt.targets[i]
      /\ rt'.targets[x] = Commanded(rt.targets[x], epoch, k, value)
  <2>1. SetFrom(rt, rt', x, epoch, k, value)
    BY <1>1, <1>2, SetFields
  <2> QED BY <2>1 DEF SetFrom
<1>5. /\ rt'.targets[x].pendingEpoch[k] = epoch
      /\ \A l \in Kind : l # k =>
           rt'.targets[x].pendingEpoch[l] = rt.targets[x].pendingEpoch[l]
  <2> DEFINE record == rt.targets[x]
             new == rt'.targets[x]
  <2>1. record \in TargetRecord /\ new = Commanded(record, epoch, k, value)
    BY <1>3, <1>4
  <2> HIDE DEF record, new
  <2>2. /\ new.pendingEpoch[k] = epoch
        /\ \A l \in Kind : l # k => new.pendingEpoch[l] = record.pendingEpoch[l]
    BY <1>2, <2>1, CommandedFields
  <2> QED BY <2>2 DEF record, new
<1>6. Types'
  BY <1>1, <1>4 DEF Types
<1>7. Steady
  BY <1>1, <1>2, SetSteady
<1>8. AttachInv'
  BY <1>1 DEF AttachInv, Idle
<1>9. CommandInv'
  <2>1. ASSUME NEW i \in DOMAIN rt.targets, NEW l \in Kind
        PROVE  rt'.targets[i].pendingEpoch[l] <= rt'.epoch
    <3>1. rt.targets[i].pendingEpoch[l] <= rt.epoch BY DEF CommandInv
    <3>2. CASE i = x /\ l = k BY <1>2, <1>4, <1>5, <3>2
    <3>3. CASE i = x /\ l # k BY <1>4, <1>5, <3>1, <3>3
    <3>4. CASE i # x BY <1>4, <3>1, <3>4
    <3> QED BY <3>2, <3>3, <3>4
  <2> QED BY <1>1, <1>4, <2>1 DEF CommandInv, Idle
<1>10. FreeSlotsStill' /\ CallbacksApplyExactly'
  BY <1>1, <1>4 DEF FreeSlotsStill, CallbacksApplyExactly
<1> QED BY <1>6, <1>7, <1>8, <1>9, <1>10, SteadyStep

(* Closing inputs leaves everything else about the controllers.            *)
LEMMA CloseKeeps ==
  ASSUME IndInv, NEW slot \in Slot, CloseControllerInput(slot)
  PROVE  IndInv'
<1> USE DEF IndInv
<1>1. PICK closed : 
      /\ Idle
      /\ rt' = [rt EXCEPT !.controllers =
                  {[c EXCEPT !.inputClosed = @ \/ c \in closed] : c \in rt.controllers}]
      /\ UNCHANGED <<slots, frame, m_controllerFactories, issued, retired, inexact>>
  BY DEF CloseControllerInput
<1> DEFINE Closed(c) == [c EXCEPT !.inputClosed = @ \/ c \in closed]
           new == {Closed(c) : c \in rt.controllers}
<1>2. rt \in Runtime /\ rt.controllers \subseteq Controller /\ IsFiniteSet(rt.controllers)
  BY DEF Types, Runtime
<1>3. ASSUME NEW c \in rt.controllers PROVE Closed(c) \in Controller /\ Kin(Closed(c), c)
  <2>1. c \in Controller BY <1>2
  <2> DEFINE flag == c.inputClosed \/ c \in closed
  <2>2. flag \in BOOLEAN OBVIOUS
  <2>3. Closed(c) = [c EXCEPT !.inputClosed = flag] OBVIOUS
  <2> HIDE DEF flag, Closed
  <2> QED BY <2>1, <2>2, <2>3 DEF Controller, Kin
<1> HIDE DEF Closed
<1>4. new \subseteq Controller
  BY <1>3
<1>5. IsFiniteSet(new)
  <2> DEFINE f == [c \in rt.controllers |-> Closed(c)]
  <2>1. f \in Surjection(rt.controllers, new)
    BY DEF Surjection
  <2> HIDE DEF f, new
  <2> QED BY <1>2, <2>1, FS_Surjection
<1>6. Followed(rt.controllers, new)
  <2>1. \A c \in new : \E b \in rt.controllers : Kin(c, b)
    BY <1>3
  <2>2. \A b \in rt.controllers : \E c \in new : Kin(c, b)
    BY <1>3
  <2>3. ASSUME NEW c \in new, NEW d \in new, c # d PROVE c.handle # d.handle
    <3>1. PICK b \in rt.controllers : c = Closed(b) OBVIOUS
    <3>2. PICK e \in rt.controllers : d = Closed(e) OBVIOUS
    <3>3. b # e BY <2>3, <3>1, <3>2
    <3>4. b.handle # e.handle BY <3>3 DEF HandlesNeverRevive
    <3> QED BY <1>3, <3>1, <3>2, <3>4 DEF Kin
  <2> QED BY <2>1, <2>2, <2>3 DEF Followed
<1>7. rt' = [rt EXCEPT !.controllers = new]
  BY <1>1 DEF Closed
<1> HIDE DEF new
<1>8. /\ rt' \in Runtime /\ rt'.controllers = new
      /\ rt'.targets = rt.targets /\ rt'.free = rt.free /\ rt'.owners = rt.owners
      /\ rt'.batches = rt.batches /\ rt'.value = rt.value /\ rt'.epoch = rt.epoch
      /\ rt'.nextHandle = rt.nextHandle /\ rt'.handleGeneration = rt.handleGeneration
  BY <1>2, <1>4, <1>7 DEF Runtime
<1>9. Types'
  BY <1>1, <1>5, <1>8 DEF Types
<1>10. Steady
  BY <1>1, <1>6, <1>8, AlikeSame DEF Steady, HeldInv, FindSlot, BatchInv
<1>11. AttachInv'
  BY <1>1 DEF AttachInv, Idle
<1>12. CommandInv' /\ FreeSlotsStill' /\ CallbacksApplyExactly'
  BY <1>1, <1>8 DEF CommandInv, Idle, FreeSlotsStill, CallbacksApplyExactly
<1> QED BY <1>9, <1>10, <1>11, <1>12, SteadyStep

-----------------------------------------------------------------------------
(* Detachments and failed attachments                                      *)

(* The targets of D were released, and nothing else.                       *)
GivenUp(r, s, D) ==
  /\ DOMAIN s.targets = DOMAIN r.targets
  /\ \A i \in DOMAIN r.targets :
       /\ i \notin D => s.targets[i] = r.targets[i]
       /\ i \in D => /\ ~s.targets[i].active
                     /\ s.targets[i].generation = r.targets[i].generation + 1
                     /\ s.targets[i].pendingEpoch = r.targets[i].pendingEpoch

(* The controllers gone were destroyed, the one under construction was     *)
(* dropped, and no callback is in progress.                                *)
Undone(gone) ==
  /\ Table(rt')
  /\ rt'.controllers = rt.controllers \ gone
  /\ rt'.batches = {b \in rt.batches : \E c \in rt.controllers \ gone : c.type = b}
  /\ rt'.epoch = rt.epoch /\ rt'.value = rt.value
  /\ rt'.nextHandle = rt.nextHandle /\ rt'.handleGeneration = rt.handleGeneration
  /\ GivenUp(rt, rt', TargetsOf(gone) \union Indices(frame.tokens))
  /\ frame' \in Callbacks /\ frame'.kind = "none" /\ frame'.tokens = <<>>
  /\ retired' = retired \union {c.handle : c \in gone}
  /\ UNCHANGED <<slots, m_controllerFactories, issued, inexact>>

(* Undoing controllers and an allocation keeps the invariant.              *)
LEMMA UndoneKeeps ==
  ASSUME IndInv, NEW gone, gone \subseteq rt.controllers, Undone(gone)
  PROVE  IndInv'
<1> USE DEF IndInv
<1> DEFINE D == TargetsOf(gone) \union Indices(frame.tokens)
<1>1. Types'
  <2>1. {c.handle : c \in gone} \subseteq Handle
    <3>1. \A c \in gone : c \in Controller BY DEF Types, Runtime
    <3> QED BY <3>1 DEF Controller
  <2>2. IsFiniteSet(rt'.controllers)
    BY FS_Subset DEF Types, Undone
  <2>3. rt' \in Runtime BY DEF Undone, Table
  <2> QED BY <2>1, <2>2, <2>3 DEF Types, Undone
<1>2. ASSUME NEW c \in rt'.controllers, NEW a \in DOMAIN c.targets
      PROVE  c.targets[a].index \notin D
  <2>1. c \in rt.controllers /\ c \notin gone
    BY DEF Undone
  <2>2. \A d \in gone : Apart(c.targets, d.targets)
    BY <2>1 DEF HeldInv
  <2>3. Apart(c.targets, frame.tokens)
    BY <2>1 DEF HeldInv
  <2> QED BY <2>2, <2>3 DEF TargetsOf, Indices, Apart
<1>3. GivenUp(rt, rt', D)
  BY DEF Undone
<1> HIDE DEF D
<1>4. HeldInv'
  <2>1. ASSUME NEW c \in rt'.controllers
        PROVE  /\ FindSlot(c.instance)'
               /\ Holds(rt', c.targets, c.instance.slot)
               /\ Apart(c.targets, frame'.tokens)
               /\ \A d \in rt'.controllers : c # d => Apart(c.targets, d.targets)
    <3>1. c \in rt.controllers /\ rt'.controllers \subseteq rt.controllers
      BY DEF Undone
    <3>2. Holds(rt, c.targets, c.instance.slot)
      BY <3>1 DEF HeldInv
    <3>3. Holds(rt', c.targets, c.instance.slot)
      BY <1>2, <1>3, <3>2 DEF Holds, Current, GivenUp
    <3>4. FindSlot(c.instance)'
      BY <3>1 DEF HeldInv, FindSlot, Undone
    <3>5. Apart(c.targets, frame'.tokens)
      BY DEF Apart, Undone
    <3> QED BY <3>1, <3>3, <3>4, <3>5 DEF HeldInv
  <2>2. ASSUME NEW i \in DOMAIN rt'.targets, rt'.targets[i].active
        PROVE  \E c \in rt'.controllers : \E a \in DOMAIN c.targets : c.targets[a].index = i
    <3>1. i \in DOMAIN rt.targets /\ i \notin D /\ rt.targets[i].active
      BY <1>3, <2>2 DEF GivenUp
    <3>2. \A a \in DOMAIN frame.tokens : frame.tokens[a].index # i
      BY <3>1 DEF D, Indices
    <3>3. PICK c \in rt.controllers : \E a \in DOMAIN c.targets : c.targets[a].index = i
      BY <3>1, <3>2 DEF HeldInv
    <3>4. c \notin gone
      BY <3>1, <3>3 DEF D, TargetsOf, Indices
    <3> QED BY <3>3, <3>4 DEF Undone
  <2> QED BY <2>1, <2>2 DEF HeldInv, Undone
<1>5. AttachInv'
  BY DEF AttachInv, Undone
<1>6. BatchInv'
  BY DEF BatchInv, Undone
<1>7. IssuedInv'
  <2>1. ASSUME NEW i \in issued
        PROVE  /\ i.token.index \in DOMAIN rt'.targets
               /\ i.token.generation <= rt'.targets[i.token.index].generation
               /\ i.token.generation = rt'.targets[i.token.index].generation =>
                    rt'.targets[i.token.index].active /\ rt'.targets[i.token.index].node = i.node
    <3> DEFINE x == i.token.index
               g == i.token.generation
    <3>1. /\ x \in DOMAIN rt.targets
          /\ g <= rt.targets[x].generation
          /\ g = rt.targets[x].generation => rt.targets[x].active /\ rt.targets[x].node = i.node
      BY DEF IssuedInv
    <3>2. g \in Nat
      BY DEF Types, Token
    <3>3. rt.targets[x].generation \in Nat
      <4>1. rt.targets[x] \in TargetRecord
        BY <3>1 DEF Types, Runtime
      <4> QED BY <4>1 DEF TargetRecord
    <3>4. CASE x \in D
      BY <1>3, <3>1, <3>2, <3>3, <3>4 DEF GivenUp
    <3>5. CASE x \notin D
      BY <1>3, <3>1, <3>5 DEF GivenUp
    <3> QED BY <3>4, <3>5
  <2> QED BY <2>1 DEF IssuedInv, Undone
<1>8. HandleInv' /\ HandlesNeverRevive'
  <2>1. \A h : Before(h, rt') <=> Before(h, rt)
    BY DEF Before, Undone
  <2>2. \A h \in retired' : h \in retired \/ \E c \in gone : h = c.handle
    BY DEF Undone
  <2>3. rt'.controllers = rt.controllers \ gone
    BY DEF Undone
  <2>4. HandleInv'
    BY <2>1, <2>2, <2>3 DEF HandleInv
  <2> QED BY <2>2, <2>3, <2>4 DEF HandlesNeverRevive
<1>9. CommandInv'
  <2>1. \A i \in DOMAIN rt'.targets : i \in DOMAIN rt.targets /\ rt'.targets[i].pendingEpoch = rt.targets[i].pendingEpoch
    BY <1>3 DEF GivenUp
  <2> QED BY <2>1 DEF CommandInv, Undone, Idle
<1>10. FreeSlotsStill' /\ CallbacksApplyExactly'
  BY DEF FreeSlotsStill, CallbacksApplyExactly, Undone
<1> QED BY <1>1, <1>4, <1>5, <1>6, <1>7, <1>8, <1>9, <1>10 DEF Undone

(* The controllers of any set hold current tokens of different targets.    *)
LEMMA HeldLive ==
  ASSUME IndInv, NEW gone, gone \subseteq rt.controllers
  PROVE  AllLive(rt, gone)
<1> USE DEF IndInv
<1>1. ASSUME NEW c \in gone PROVE c.targets \in Seq(Token) /\ Live(rt, c.targets)
  <2>1. c \in Controller BY DEF Types, Runtime
  <2>2. Holds(rt, c.targets, c.instance.slot) BY DEF HeldInv
  <2> QED BY <2>1, <2>2 DEF Controller, Holds, Live
<1>2. \A c, d \in gone : c # d => Apart(c.targets, d.targets)
  BY DEF HeldInv
<1> QED BY <1>1, <1>2 DEF AllLive

(* DetachControllers keeps the invariant.                                  *)
LEMMA DetachKeeps ==
  ASSUME IndInv, NEW slot \in Slot, DetachControllers(slot)
  PROVE  IndInv'
<1> DEFINE gone == ControllersOf(rt, Instance(slot))
<1>1. /\ Idle
      /\ rt' = DetachControllersIn(rt, Instance(slot))
      /\ retired' = retired \union {c.handle : c \in gone}
      /\ UNCHANGED <<slots, frame, m_controllerFactories, issued, inexact>>
  BY DEF DetachControllers
<1>2. gone \subseteq rt.controllers
  BY DEF ControllersOf
<1>3. AllLive(rt, gone)
  <2> HIDE DEF gone
  <2> QED BY <1>2, HeldLive
<1>4. Table(rt') /\ DetachedFrom(rt, rt', gone)
  BY <1>1, <1>3, DetachEffect DEF IndInv, Types
<1>5. frame \in Callbacks /\ frame.kind = "none" /\ frame.tokens = <<>>
  BY <1>1 DEF IndInv, Types, Idle, AttachInv
<1>6. Indices(frame.tokens) = {}
  BY <1>5 DEF Indices
<1> HIDE DEF gone
<1>7. Undone(gone)
  BY <1>1, <1>4, <1>5, <1>6 DEF Undone, DetachedFrom, GivenUp
<1> QED BY <1>2, <1>7, UndoneKeeps

(* A failed attachment gives back the targets of the controller under      *)
(* construction and destroys those before it.                              *)
LEMMA AbortKeeps ==
  ASSUME IndInv, Attaching, NEW r, Table(r), ReleasedFrom(rt, r, Indices(frame.tokens)),
         AbortAttach(r)
  PROVE  IndInv'
<1> DEFINE e == EndControllerCommands(r, FALSE)
           gone == ControllersOf(rt, frame.instance)
<1>1. /\ rt' = DetachControllersIn(e, frame.instance)
      /\ retired' = retired \union {c.handle : c \in ControllersOf(r, frame.instance)}
      /\ frame' = NoFrame
      /\ UNCHANGED <<slots, m_controllerFactories, issued, inexact>>
  BY DEF AbortAttach
<1>2. r \in Runtime
  BY DEF Table
<1>3. /\ e \in Runtime
      /\ e.targets = r.targets /\ e.free = r.free /\ e.owners = r.owners
      /\ e.controllers = r.controllers /\ e.batches = r.batches
      /\ e.nextHandle = r.nextHandle /\ e.handleGeneration = r.handleGeneration
      /\ e.epoch = r.epoch /\ e.value = r.value
  BY <1>2, EndFields
<1> HIDE DEF e
<1>4. Table(e)
  BY <1>3, AlikeSame, AlikeTable
<1>5. /\ ControllersOf(r, frame.instance) = gone /\ ControllersOf(e, frame.instance) = gone
      /\ IsFiniteSet(e.controllers) /\ gone \subseteq rt.controllers
  BY <1>3 DEF ControllersOf, ReleasedFrom, Same, IndInv, Types
<1> HIDE DEF gone
<1>6. AllLive(rt, gone)
  BY <1>5, HeldLive
<1>7. AllLive(e, gone)
  <2>1. ASSUME NEW c \in gone, NEW a \in DOMAIN c.targets PROVE Current(e, c.targets[a])
    <3>1. Current(rt, c.targets[a])
      BY <1>6 DEF AllLive, Live
    <3>2. c.targets[a].index \notin Indices(frame.tokens)
      BY <1>5 DEF IndInv, HeldInv, Apart, Indices
    <3> QED BY <1>3, <3>1, <3>2 DEF Current, ReleasedFrom
  <2> QED BY <1>6, <2>1 DEF AllLive, Live
<1>8. Table(rt') /\ DetachedFrom(e, rt', gone)
  BY <1>1, <1>4, <1>5, <1>7, DetachEffect
<1>9. frame' \in Callbacks /\ frame'.kind = "none" /\ frame'.tokens = <<>>
  BY <1>1, NoFrameFields
<1>10. GivenUp(rt, rt', TargetsOf(gone) \union Indices(frame.tokens))
  <2>1. DOMAIN rt'.targets = DOMAIN rt.targets
    BY <1>3, <1>8 DEF DetachedFrom, ReleasedFrom
  <2>2. ASSUME NEW i \in DOMAIN rt.targets
        PROVE  /\ i \notin TargetsOf(gone) \union Indices(frame.tokens) => rt'.targets[i] = rt.targets[i]
               /\ i \in TargetsOf(gone) \union Indices(frame.tokens) =>
                    /\ ~rt'.targets[i].active
                    /\ rt'.targets[i].generation = rt.targets[i].generation + 1
                    /\ rt'.targets[i].pendingEpoch = rt.targets[i].pendingEpoch
    <3>1. i \in TargetsOf(gone) => i \notin Indices(frame.tokens)
      BY <1>5 DEF TargetsOf, Indices, IndInv, HeldInv, Apart
    <3>2. /\ i \notin Indices(frame.tokens) => e.targets[i] = rt.targets[i]
          /\ i \in Indices(frame.tokens) =>
               /\ ~e.targets[i].active
               /\ e.targets[i].generation = rt.targets[i].generation + 1
               /\ e.targets[i].pendingEpoch = rt.targets[i].pendingEpoch
          /\ i \in DOMAIN e.targets
      BY <1>3 DEF ReleasedFrom
    <3>3. /\ i \notin TargetsOf(gone) => rt'.targets[i] = e.targets[i]
          /\ i \in TargetsOf(gone) =>
               /\ ~rt'.targets[i].active
               /\ rt'.targets[i].generation = e.targets[i].generation + 1
               /\ rt'.targets[i].pendingEpoch = e.targets[i].pendingEpoch
      BY <1>8, <3>2 DEF DetachedFrom
    <3>4. CASE i \in TargetsOf(gone) BY <3>1, <3>2, <3>3, <3>4
    <3>5. CASE i \notin TargetsOf(gone) BY <3>2, <3>3, <3>5
    <3> QED BY <3>4, <3>5
  <2> QED BY <2>1, <2>2 DEF GivenUp
<1>11. /\ e.controllers = rt.controllers /\ e.batches = rt.batches /\ e.epoch = rt.epoch
       /\ e.value = rt.value /\ e.nextHandle = rt.nextHandle
       /\ e.handleGeneration = rt.handleGeneration
  BY <1>3 DEF ReleasedFrom, Same
<1>12. Undone(gone)
  BY <1>1, <1>5, <1>8, <1>9, <1>10, <1>11 DEF Undone, DetachedFrom
<1> QED BY <1>5, <1>12, UndoneKeeps

(* An attachment whose factory makes no batch keeps the invariant.         *)
LEMMA NoBatchKeeps ==
  ASSUME IndInv, NoBatch
  PROVE  IndInv'
<1>1. Attaching /\ frame.tokens = <<>> /\ AbortAttach(rt)
  BY DEF NoBatch
<1>2. ReleasedFrom(rt, rt, Indices(frame.tokens))
  BY <1>1 DEF ReleasedFrom, Same, Indices
<1> QED BY <1>1, <1>2, AbortKeeps DEF IndInv

(* A failed CreateController keeps the invariant.                          *)
LEMMA FailureKeeps ==
  ASSUME IndInv, ConstructionFails
  PROVE  IndInv'
<1>1. Attaching /\ frame.tokens # <<>> /\ AbortAttach(ReleaseAll(rt, frame.tokens))
  BY DEF ConstructionFails
<1>2. frame.tokens \in Seq(Token) /\ Live(rt, frame.tokens)
  BY <1>1 DEF IndInv, Types, Callbacks, HeldInv, Holds, Live
<1>3. /\ Table(ReleaseAll(rt, frame.tokens))
      /\ ReleasedFrom(rt, ReleaseAll(rt, frame.tokens), Indices(frame.tokens))
  BY <1>2, ReleaseEach DEF IndInv
<1> QED BY <1>1, <1>3, AbortKeeps

-----------------------------------------------------------------------------
(* Construction                                                            *)

(* The declaration to be constructed next.                                 *)
LEMMA NextDeclaration ==
  ASSUME IndInv, Attaching
  PROVE  LET d == Head(frame.todo)
         IN  /\ frame.todo \in Seq(Declaration) /\ 1 \in DOMAIN frame.todo
             /\ d = frame.todo[1] /\ d \in Declaration
             /\ d.type \in Type /\ d.targets \in Seq(TargetDeclaration)
             /\ Constructible(frame.instance.slot, d)
             /\ frame.instance \in InstanceHandle /\ FindSlot(frame.instance)
<1>1. frame.kind = "attach" /\ frame.todo \in Seq(Declaration)
  BY DEF Attaching, IndInv, Types, Callbacks
<1>2. frame.todo # <<>>
  BY <1>1 DEF IndInv, AttachInv
<1>3. 1 \in DOMAIN frame.todo /\ Head(frame.todo) = frame.todo[1] /\ frame.todo[1] \in Declaration
  BY <1>1, <1>2
<1>4. frame.todo[1].type \in Type /\ frame.todo[1].targets \in Seq(TargetDeclaration)
  BY <1>3 DEF Declaration, TargetDeclaration, Access
<1>5. /\ Constructible(frame.instance.slot, frame.todo[1])
      /\ frame.instance \in InstanceHandle /\ FindSlot(frame.instance)
  BY <1>1, <1>3 DEF IndInv, AttachInv
<1> QED BY <1>1, <1>3, <1>4, <1>5

(* The next declaration gets targets nobody holds, for nodes nobody        *)
(* writes.                                                                 *)
LEMMA BeginKeeps ==
  ASSUME IndInv, BeginConstruction
  PROVE  IndInv'
<1> USE DEF IndInv
<1> DEFINE d == Head(frame.todo)
           batched == [rt EXCEPT !.batches = @ \union {d.type}]
           allocated == AllocateAll(batched, d.targets)
           tokens == allocated.tokens
           given == {[token |-> tokens[i], node |-> d.targets[i].node] : i \in DOMAIN tokens}
<1>1. /\ Attaching /\ frame.tokens = <<>>
      /\ rt' = allocated.rt
      /\ issued' = issued \union given
      /\ frame' = [frame EXCEPT !.tokens = tokens]
      /\ UNCHANGED <<slots, m_controllerFactories, retired, inexact>>
  BY DEF BeginConstruction
<1>2. /\ frame.todo \in Seq(Declaration) /\ 1 \in DOMAIN frame.todo
      /\ d = frame.todo[1] /\ d \in Declaration
      /\ d.type \in Type /\ d.targets \in Seq(TargetDeclaration)
      /\ Constructible(frame.instance.slot, d)
      /\ frame.instance \in InstanceHandle /\ FindSlot(frame.instance)
  BY <1>1, NextDeclaration
<1> HIDE DEF d
<1>3. /\ batched \in Runtime /\ batched.batches = rt.batches \union {d.type}
      /\ batched.targets = rt.targets /\ batched.free = rt.free /\ batched.owners = rt.owners
      /\ batched.controllers = rt.controllers /\ batched.touched = rt.touched
      /\ batched.epoch = rt.epoch /\ batched.nextHandle = rt.nextHandle
      /\ batched.handleGeneration = rt.handleGeneration /\ batched.value = rt.value
  BY <1>2 DEF Types, Runtime
<1> HIDE DEF batched
<1>4. Table(batched)
  BY <1>3, AlikeSame, AlikeTable
<1>5. Allocatable(batched, d.targets)
  <2>1. Unowned(frame.todo[1])
    BY <1>1, <1>2 DEF AttachInv, Attaching, Remaining
  <2> QED BY <1>2, <1>3, <2>1 DEF Allocatable, Unowned, Constructible
<1>6. /\ allocated \in Allocation /\ Table(allocated.rt) /\ Len(tokens) = Len(d.targets)
      /\ AllocatedFrom(batched, allocated.rt, d.targets, tokens)
  BY <1>2, <1>4, <1>5, AllocateEach
<1>7. tokens \in Seq(Token) /\ DOMAIN tokens = DOMAIN d.targets /\ tokens # <<>>
  <2>1. tokens \in Seq(Token) /\ d.targets # <<>>
    BY <1>2, <1>6 DEF Allocation, Constructible
  <2> QED BY <1>2, <1>6, <2>1
<1> HIDE DEF allocated, tokens
<1>8. Same(batched, rt') /\ Table(rt') /\ AllocatedFrom(batched, rt', d.targets, tokens)
  BY <1>1, <1>6 DEF AllocatedFrom
<1>9. /\ rt'.controllers = rt.controllers /\ rt'.batches = rt.batches \union {d.type}
      /\ rt'.touched = rt.touched /\ rt'.epoch = rt.epoch /\ rt'.nextHandle = rt.nextHandle
      /\ rt'.handleGeneration = rt.handleGeneration /\ rt'.value = rt.value
  BY <1>3, <1>8 DEF Same
<1>10. \A i \in DOMAIN rt.targets :
         /\ i \in DOMAIN rt'.targets
         /\ rt'.targets[i].generation = rt.targets[i].generation
         /\ i \notin Indices(tokens) => rt'.targets[i] = rt.targets[i]
         /\ rt.targets[i].active => i \notin Indices(tokens)
  BY <1>3, <1>8 DEF AllocatedFrom, Indices
<1>11. \A i \in DOMAIN rt'.targets : i \in DOMAIN rt.targets \/ i \in Indices(tokens)
  BY <1>3, <1>8 DEF AllocatedFrom
<1>12. \A a \in DOMAIN tokens :
         /\ Current(rt', tokens[a])
         /\ rt'.targets[tokens[a].index].node = d.targets[a].node
         /\ \A k \in Kind : rt'.targets[tokens[a].index].pendingEpoch[k] = 0
         /\ tokens[a].index \in DOMAIN rt.targets => ~rt.targets[tokens[a].index].active
  BY <1>3, <1>8 DEF AllocatedFrom
<1>13. \A a, b \in DOMAIN tokens : tokens[a].index = tokens[b].index => a = b
  BY <1>8 DEF AllocatedFrom
<1>14. \A n \in Node :
         (\A a \in DOMAIN tokens : d.targets[a].access = "ReadWrite" => d.targets[a].node # n)
           => rt'.owners[n] = rt.owners[n]
  BY <1>3, <1>8 DEF AllocatedFrom
<1>15. /\ frame' \in Callbacks /\ frame'.kind = "attach" /\ frame'.tokens = tokens
       /\ frame'.instance = frame.instance /\ frame'.todo = frame.todo
       /\ frame'.epoch = frame.epoch /\ frame'.writes = frame.writes
  BY <1>1, <1>7 DEF Types, Callbacks, Attaching
<1>16. \A i \in DOMAIN d.targets : d.targets[i].node \in Node
  <2>1. \A i \in DOMAIN d.targets : d.targets[i] \in TargetDeclaration BY <1>2
  <2> QED BY <2>1 DEF TargetDeclaration
<1>17. Types'
  <2>1. given \subseteq [token : Token, node : Node]
    BY <1>7, <1>16
  <2>2. rt' \in Runtime BY <1>8 DEF Table
  <2> HIDE DEF given
  <2> QED BY <1>1, <1>9, <1>15, <2>1, <2>2 DEF Types
<1>18. HeldInv'
  <2>1. ASSUME NEW c \in rt.controllers
        PROVE  /\ FindSlot(c.instance)'
               /\ Holds(rt', c.targets, c.instance.slot)
               /\ Apart(c.targets, tokens)
               /\ \A e \in rt.controllers : c # e => Apart(c.targets, e.targets)
    <3>1. /\ FindSlot(c.instance)
          /\ Holds(rt, c.targets, c.instance.slot)
          /\ \A e \in rt.controllers : c # e => Apart(c.targets, e.targets)
      BY DEF HeldInv
    <3>2. FindSlot(c.instance)'
      BY <1>1, <3>1 DEF FindSlot
    <3>3. \A a \in DOMAIN c.targets :
            /\ c.targets[a].index \in DOMAIN rt.targets
            /\ rt.targets[c.targets[a].index].active
      BY <3>1 DEF Holds, Current
    <3>4. Holds(rt', c.targets, c.instance.slot)
      BY <1>10, <3>1, <3>3 DEF Holds, Current
    <3>5. Apart(c.targets, tokens)
      BY <1>12, <3>3 DEF Apart
    <3> QED BY <3>1, <3>2, <3>4, <3>5
  <2>2. Holds(rt', tokens, frame.instance.slot)
    BY <1>2, <1>7, <1>12, <1>13 DEF Holds, Constructible
  <2>3. ASSUME NEW i \in DOMAIN rt'.targets, rt'.targets[i].active
        PROVE  \/ \E c \in rt.controllers : \E a \in DOMAIN c.targets : c.targets[a].index = i
               \/ \E a \in DOMAIN tokens : tokens[a].index = i
    <3>1. CASE i \in Indices(tokens) BY <3>1 DEF Indices
    <3>2. CASE i \notin Indices(tokens)
      <4>1. i \in DOMAIN rt.targets /\ rt.targets[i].active
        BY <1>10, <1>11, <2>3, <3>2
      <4> QED BY <1>1, <4>1 DEF HeldInv
    <3> QED BY <3>1, <3>2
  <2> QED BY <1>9, <1>15, <2>1, <2>2, <2>3 DEF HeldInv
<1>19. AttachInv'
  <2>1. FindSlot(frame.instance)'
    BY <1>1, <1>2, <1>15 DEF FindSlot
  <2>2. \A s, e : Constructible(s, e)' <=> Constructible(s, e)
    BY <1>1 DEF Constructible
  <2>3. ASSUME NEW i \in DOMAIN frame.todo, 2 <= i PROVE Unowned(frame.todo[i])'
    <3>1. Unowned(frame.todo[i])
      BY <1>1, <1>2, <2>3 DEF AttachInv, Attaching, Remaining
    <3>2. WriteApart(d, frame.todo[i])
      BY <1>1, <1>2, <2>3 DEF AttachInv, Attaching
    <3>3. ASSUME NEW j \in DOMAIN frame.todo[i].targets, frame.todo[i].targets[j].access = "ReadWrite"
          PROVE  rt'.owners[frame.todo[i].targets[j].node] = INVALID
      <4>1. rt.owners[frame.todo[i].targets[j].node] = INVALID
        BY <3>1, <3>3 DEF Unowned
      <4>2. frame.todo[i].targets[j].node \in Node
        <5>1. frame.todo[i] \in Declaration BY <1>2
        <5>2. frame.todo[i].targets \in Seq(TargetDeclaration)
          BY <5>1 DEF Declaration, TargetDeclaration, Access
        <5>3. frame.todo[i].targets[j] \in TargetDeclaration BY <5>2
        <5> QED BY <5>3 DEF TargetDeclaration
      <4>3. \A a \in DOMAIN tokens : d.targets[a].access = "ReadWrite"
              => d.targets[a].node # frame.todo[i].targets[j].node
        BY <1>7, <3>2, <3>3 DEF WriteApart
      <4> QED BY <1>14, <4>1, <4>2, <4>3
    <3> QED BY <1>15, <3>3 DEF Unowned
  <2>4. Remaining' = 2
    BY <1>7, <1>15 DEF Remaining
  <2>5. /\ frame.todo # <<>>
        /\ \A i \in DOMAIN frame.todo : Constructible(frame.instance.slot, frame.todo[i])
        /\ \A i, j \in DOMAIN frame.todo : i # j => WriteApart(frame.todo[i], frame.todo[j])
    BY <1>1 DEF AttachInv, Attaching
  <2> QED BY <1>2, <1>15, <2>1, <2>2, <2>3, <2>4, <2>5 DEF AttachInv
<1>20. BatchInv'
  <2>1. rt'.batches \subseteq m_controllerFactories'
    BY <1>1, <1>2, <1>9 DEF BatchInv, Constructible
  <2>2. frame'.tokens # <<>> /\ frame'.todo[1].type = d.type
    BY <1>2, <1>7, <1>15
  <2> QED BY <1>1, <1>9, <2>1, <2>2 DEF BatchInv
<1>21. IssuedInv'
  <2>1. ASSUME NEW i \in issued
        PROVE  /\ i.token.index \in DOMAIN rt'.targets
               /\ i.token.generation <= rt'.targets[i.token.index].generation
               /\ i.token.generation = rt'.targets[i.token.index].generation =>
                    rt'.targets[i.token.index].active /\ rt'.targets[i.token.index].node = i.node
    <3>1. /\ i.token.index \in DOMAIN rt.targets
          /\ i.token.generation <= rt.targets[i.token.index].generation
          /\ i.token.generation = rt.targets[i.token.index].generation =>
               rt.targets[i.token.index].active /\ rt.targets[i.token.index].node = i.node
      BY DEF IssuedInv
    <3> QED BY <1>10, <3>1
  <2>2. ASSUME NEW a \in DOMAIN tokens
        PROVE  /\ tokens[a].index \in DOMAIN rt'.targets
               /\ tokens[a].generation <= rt'.targets[tokens[a].index].generation
               /\ rt'.targets[tokens[a].index].active
               /\ rt'.targets[tokens[a].index].node = d.targets[a].node
    <3>1. tokens[a] \in Token BY <1>7
    <3>2. tokens[a].generation \in Nat BY <3>1 DEF Token
    <3> QED BY <1>12, <3>2 DEF Current
  <2>3. \A i \in issued' : i \in issued
          \/ \E a \in DOMAIN tokens : i = [token |-> tokens[a], node |-> d.targets[a].node]
    BY <1>1
  <2> QED BY <2>1, <2>2, <2>3 DEF IssuedInv
<1>22. HandleInv' /\ HandlesNeverRevive'
  BY <1>1, <1>9 DEF HandleInv, HandlesNeverRevive, Before
<1>23. CommandInv'
  <2>1. rt.epoch \in Nat /\ rt.epoch > 0 /\ ~Idle /\ frame.epoch = rt.epoch
    BY <1>1 DEF CommandInv, Attaching, Idle, Types, Runtime
  <2>2. ASSUME NEW i \in DOMAIN rt'.targets, NEW k \in Kind
        PROVE  /\ rt'.targets[i].pendingEpoch[k] <= rt'.epoch
               /\ rt'.targets[i].pendingEpoch[k] = rt'.epoch =>
                    i \in DOMAIN rt.targets /\ rt.targets[i].pendingEpoch[k] = rt.epoch
    <3>1. CASE i \in Indices(tokens)
      <4>1. rt'.targets[i].pendingEpoch[k] = 0
        BY <1>12, <3>1 DEF Indices
      <4> QED BY <1>9, <2>1, <4>1
    <3>2. CASE i \notin Indices(tokens)
      BY <1>9, <1>10, <1>11, <3>2 DEF CommandInv
    <3> QED BY <3>1, <3>2
  <2>3. ASSUME NEW k \in Kind PROVE Noted(k)'
    <3>1. Noted(k) BY <2>1 DEF CommandInv
    <3>2. \A j \in DOMAIN rt.touched[k] :
            /\ rt.touched[k][j] \in DOMAIN rt'.targets
            /\ rt'.targets[rt.touched[k][j]] = rt.targets[rt.touched[k][j]]
      BY <1>10, <3>1 DEF Noted
    <3>3. rt'.touched = rt.touched /\ frame'.writes = frame.writes /\ rt'.epoch = rt.epoch
      BY <1>9, <1>15
    <3> HIDE DEF IndInv
    <3> QED BY <2>2, <3>1, <3>2, <3>3, NotedStill
  <2> QED BY <1>9, <1>15, <2>1, <2>2, <2>3 DEF CommandInv
<1>24. FreeSlotsStill' /\ CallbacksApplyExactly'
  BY <1>1, <1>9 DEF FreeSlotsStill, CallbacksApplyExactly
<1> QED BY <1>8, <1>17, <1>18, <1>19, <1>20, <1>21, <1>22, <1>23, <1>24

(* The fields after a public handle was given out: it was not before.      *)
LEMMA AdvanceFields ==
  ASSUME NEW r \in Runtime
  PROVE  LET s == AdvanceHandle(r)
         IN  /\ s \in Runtime
             /\ s.targets = r.targets /\ s.free = r.free /\ s.owners = r.owners
             /\ s.controllers = r.controllers /\ s.batches = r.batches
             /\ s.touched = r.touched /\ s.epoch = r.epoch /\ s.value = r.value
             /\ \A h \in Handle : Before(h, r) => Before(h, s)
             /\ Before(NextHandle(r), s)
             /\ ~Before(NextHandle(r), r)
             /\ NextHandle(r) \in Handle
<1> DEFINE wraps == (r.nextHandle + 1) % HandleWidth = 0
           n == IF wraps THEN 1 ELSE r.nextHandle + 1
           g == IF wraps THEN r.handleGeneration + 1 ELSE r.handleGeneration
           s == [r EXCEPT !.nextHandle = n, !.handleGeneration = g]
<1>1. r.nextHandle \in Nat /\ r.handleGeneration \in Nat
  BY DEF Runtime
<1>2. AdvanceHandle(r) = s
  BY DEF AdvanceHandle
<1> HIDE DEF wraps
<1>3. /\ n \in Nat /\ g \in Nat
      /\ \/ g = r.handleGeneration + 1
         \/ g = r.handleGeneration /\ n = r.nextHandle + 1
  BY <1>1
<1> HIDE DEF n, g
<1>4. /\ s \in Runtime /\ s.nextHandle = n /\ s.handleGeneration = g
      /\ s.targets = r.targets /\ s.free = r.free /\ s.owners = r.owners
      /\ s.controllers = r.controllers /\ s.batches = r.batches
      /\ s.touched = r.touched /\ s.epoch = r.epoch /\ s.value = r.value
  BY <1>3 DEF Runtime
<1> HIDE DEF s
<1>5. ASSUME NEW h \in Handle, Before(h, r) PROVE Before(h, s)
  <2>1. h.value \in Nat /\ h.generation \in Nat BY DEF Handle
  <2> QED BY <1>1, <1>3, <1>4, <1>5, <2>1 DEF Before
<1>6. /\ NextHandle(r) \in Handle
      /\ NextHandle(r).value = r.nextHandle /\ NextHandle(r).generation = r.handleGeneration
  BY <1>1 DEF NextHandle, Handle
<1>7. Before(NextHandle(r), s) /\ ~Before(NextHandle(r), r)
  BY <1>1, <1>3, <1>4, <1>6 DEF Before
<1> QED BY <1>2, <1>4, <1>5, <1>6, <1>7

(* A controller that was constructed takes over the targets of the frame.  *)
Recorded(record) ==
  /\ record \in Controller
  /\ record.instance = frame.instance /\ record.type = frame.todo[1].type
  /\ record.handle = NextHandle(rt) /\ record.targets = frame.tokens

(* The new controller takes over the tokens of its construction.           *)
LEMMA RecordedHeld ==
  ASSUME IndInv, Attaching, frame.tokens # <<>>, NEW record, Recorded(record),
         rt'.controllers = rt.controllers \union {record},
         Alike(rt, rt'), frame'.tokens = <<>>, slots' = slots
  PROVE  HeldInv'
<1> USE DEF IndInv
<1>1. /\ FindSlot(frame.instance)
      /\ Holds(rt, frame.tokens, frame.instance.slot)
  BY NextDeclaration DEF HeldInv
<1>2. /\ Holds(rt', record.targets, record.instance.slot)
      /\ FindSlot(record.instance)'
      /\ record.targets = frame.tokens
  BY <1>1, AlikeHolds DEF Recorded, FindSlot
<1>3. ASSUME NEW c \in rt.controllers
      PROVE  /\ FindSlot(c.instance)'
             /\ Holds(rt', c.targets, c.instance.slot)
             /\ Apart(c.targets, record.targets) /\ Apart(record.targets, c.targets)
             /\ \A d \in rt.controllers : c # d => Apart(c.targets, d.targets)
  <2>1. /\ FindSlot(c.instance)
        /\ Holds(rt, c.targets, c.instance.slot)
        /\ Apart(c.targets, frame.tokens)
        /\ \A d \in rt.controllers : c # d => Apart(c.targets, d.targets)
    BY DEF HeldInv
  <2>2. Holds(rt', c.targets, c.instance.slot)
    BY <2>1, AlikeHolds
  <2>3. Apart(record.targets, c.targets)
    BY <1>2, <2>1 DEF Apart
  <2> QED BY <1>2, <2>1, <2>2, <2>3 DEF FindSlot
<1>4. ASSUME NEW c \in rt'.controllers
      PROVE  /\ FindSlot(c.instance)'
             /\ Holds(rt', c.targets, c.instance.slot)
             /\ Apart(c.targets, frame'.tokens)
             /\ \A d \in rt'.controllers : c # d => Apart(c.targets, d.targets)
  <2>1. Apart(c.targets, frame'.tokens)
    BY DEF Apart
  <2>2. CASE c = record
    BY <1>2, <1>3, <2>1, <2>2
  <2>3. CASE c \in rt.controllers
    BY <1>3, <2>1, <2>3
  <2> QED BY <2>2, <2>3
<1>5. ASSUME NEW i \in DOMAIN rt'.targets, rt'.targets[i].active
      PROVE  \E c \in rt'.controllers : \E a \in DOMAIN c.targets : c.targets[a].index = i
  <2>1. i \in DOMAIN rt.targets /\ rt.targets[i].active
    BY <1>5 DEF Alike
  <2>2. CASE \E c \in rt.controllers : \E a \in DOMAIN c.targets : c.targets[a].index = i
    BY <2>2
  <2>3. CASE \E a \in DOMAIN frame.tokens : frame.tokens[a].index = i
    BY <1>2, <2>3
  <2> QED BY <2>1, <2>2, <2>3 DEF HeldInv
<1> QED BY <1>4, <1>5 DEF HeldInv

(* The part of the step that is the same for every controller constructed. *)
Constructed(record) ==
  /\ Recorded(record)
  /\ rt' \in Runtime
  /\ rt'.controllers = rt.controllers \union {record}
  /\ Alike(rt, rt') /\ rt'.targets = rt.targets
  /\ rt'.batches = rt.batches /\ rt'.epoch = rt.epoch
  /\ \A h \in Handle : Before(h, rt) => Before(h, rt')
  /\ Before(NextHandle(rt), rt') /\ ~Before(NextHandle(rt), rt)
  /\ frame' \in Callbacks /\ frame'.tokens = <<>>
  /\ slots' = slots /\ m_controllerFactories' = m_controllerFactories
  /\ issued' = issued /\ retired' = retired

(* What a successful CreateController keeps, apart from values and attachment. *)
LEMMA ConstructedKeeps ==
  ASSUME IndInv, Attaching, frame.tokens # <<>>, NEW record, Constructed(record)
  PROVE  /\ Types' /\ Table(rt)' /\ HeldInv' /\ BatchInv' /\ IssuedInv'
         /\ HandleInv' /\ HandlesNeverRevive'
<1> USE DEF IndInv
<1>1. /\ rt' \in Runtime
      /\ rt'.controllers = rt.controllers \union {record}
      /\ Alike(rt, rt') /\ frame'.tokens = <<>> /\ slots' = slots /\ Recorded(record)
      /\ rt'.targets = rt.targets
      /\ rt'.batches = rt.batches
  BY DEF Constructed
<1>2. Types'
  <2>1. IsFiniteSet(rt'.controllers)
    BY <1>1, FS_AddElement DEF Types
  <2> QED BY <2>1 DEF Types, Constructed
<1>3. Table(rt')
  BY <1>1, AlikeTable
<1>4. HeldInv'
  BY <1>1, RecordedHeld
<1>5. BatchInv'
  <2>1. record.type = frame.todo[1].type BY <1>1 DEF Recorded
  <2>2. Head(frame.todo) = frame.todo[1] BY NextDeclaration
  <2>3. \A b \in rt.batches : \E c \in rt'.controllers : c.type = b
    BY <1>1, <2>1 DEF BatchInv
  <2>4. frame.todo[1].type \in rt.batches
    BY DEF BatchInv
  <2> QED BY <1>1, <2>1, <2>3, <2>4 DEF BatchInv, Constructed
<1>6. IssuedInv'
  BY <1>1 DEF IssuedInv, Constructed
<1>7. \A c \in rt.controllers : c.handle \in Handle
  <2>1. \A c \in rt.controllers : c \in Controller BY DEF Types, Runtime
  <2> QED BY <2>1 DEF Controller
<1>8. record.handle = NextHandle(rt) /\ retired' = retired /\ retired \subseteq Handle
  BY <1>1 DEF Recorded, Constructed, Types
<1>9. HandleInv'
  BY <1>1, <1>7, <1>8 DEF HandleInv, Constructed
<1>10. HandlesNeverRevive'
  <2>1. record.handle \notin retired
    BY <1>8 DEF HandleInv, Constructed
  <2>2. \A c \in rt.controllers : c.handle # record.handle
    BY <1>8 DEF HandleInv, Constructed
  <2> QED BY <1>1, <1>8, <2>1, <2>2 DEF HandlesNeverRevive
<1> QED BY <1>2, <1>3, <1>4, <1>5, <1>6, <1>9, <1>10

(* CreateController succeeds; after the last one the start commands are    *)
(* applied.                                                                *)
LEMMA SuccessKeeps ==
  ASSUME IndInv, ConstructionSucceeds
  PROVE  IndInv'
<1> USE DEF IndInv
<1> DEFINE d == Head(frame.todo)
           record == [instance |-> frame.instance, type |-> d.type, handle |-> NextHandle(rt),
                      targets |-> frame.tokens, inputClosed |-> FALSE]
           advanced == AdvanceHandle(rt)
           added == [advanced EXCEPT !.controllers = @ \union {record}]
           done == Len(frame.todo) = 1
<1>1. /\ Attaching /\ frame.tokens # <<>>
      /\ rt' = IF done THEN EndControllerCommands(added, TRUE) ELSE added
      /\ inexact' = IF done /\ rt'.value # Expected THEN inexact \union {"attach"} ELSE inexact
      /\ frame' = IF done THEN NoFrame ELSE [frame EXCEPT !.todo = Tail(@), !.tokens = <<>>]
      /\ slots' = slots /\ m_controllerFactories' = m_controllerFactories
      /\ issued' = issued /\ retired' = retired
  BY DEF ConstructionSucceeds
<1>2. /\ frame.todo \in Seq(Declaration) /\ 1 \in DOMAIN frame.todo
      /\ d = frame.todo[1] /\ d.type \in Type
      /\ frame.instance \in InstanceHandle /\ FindSlot(frame.instance)
  BY <1>1, NextDeclaration
<1>3. rt \in Runtime /\ frame \in Callbacks /\ frame.tokens \in Seq(Token) /\ ~Idle
  BY <1>1 DEF Types, Callbacks, Attaching, Idle
<1> HIDE DEF d
<1>4. /\ advanced \in Runtime
      /\ advanced.targets = rt.targets /\ advanced.free = rt.free /\ advanced.owners = rt.owners
      /\ advanced.controllers = rt.controllers /\ advanced.batches = rt.batches
      /\ advanced.touched = rt.touched /\ advanced.epoch = rt.epoch /\ advanced.value = rt.value
      /\ \A h \in Handle : Before(h, rt) => Before(h, advanced)
      /\ Before(NextHandle(rt), advanced)
      /\ ~Before(NextHandle(rt), rt)
      /\ NextHandle(rt) \in Handle
  BY <1>3, AdvanceFields
<1> HIDE DEF advanced
<1>5. Recorded(record)
  BY <1>2, <1>3, <1>4 DEF Recorded, Controller
<1> HIDE DEF record
<1>6. /\ added \in Runtime
      /\ added.targets = rt.targets /\ added.free = rt.free /\ added.owners = rt.owners
      /\ added.controllers = rt.controllers \union {record} /\ added.batches = rt.batches
      /\ added.touched = rt.touched /\ added.epoch = rt.epoch /\ added.value = rt.value
      /\ added.nextHandle = advanced.nextHandle
      /\ added.handleGeneration = advanced.handleGeneration
  BY <1>4, <1>5 DEF Recorded, Runtime
<1> HIDE DEF added
<1>7. AppliedValues(added) = Expected /\ Expected \in [Kind -> [Node -> Value]]
  BY <1>3, <1>6, Applied, ExpectedStill
<1> DEFINE ended == EndControllerCommands(added, TRUE)
<1>8. /\ ended \in Runtime
      /\ ended.targets = added.targets /\ ended.free = added.free /\ ended.owners = added.owners
      /\ ended.controllers = added.controllers /\ ended.batches = added.batches
      /\ ended.nextHandle = added.nextHandle /\ ended.handleGeneration = added.handleGeneration
      /\ ended.epoch = added.epoch /\ ended.value = Expected
  BY <1>6, <1>7, EndFields
<1> HIDE DEF ended
<1>9. /\ rt' \in Runtime
      /\ rt'.targets = rt.targets /\ rt'.free = rt.free /\ rt'.owners = rt.owners
      /\ rt'.controllers = rt.controllers \union {record} /\ rt'.batches = rt.batches
      /\ rt'.epoch = rt.epoch
      /\ rt'.nextHandle = advanced.nextHandle /\ rt'.handleGeneration = advanced.handleGeneration
      /\ done => rt'.value = Expected
      /\ ~done => rt'.value = rt.value /\ rt'.touched = rt.touched
  BY <1>1, <1>6, <1>8 DEF ended
<1>10. \A h : Before(h, advanced) => Before(h, rt')
  BY <1>9 DEF Before
<1>11. done => frame' \in Callbacks /\ frame'.kind = "none" /\ frame'.tokens = <<>>
  BY <1>1, NoFrameFields
<1> DEFINE rest == Tail(frame.todo)
<1>12. /\ rest \in Seq(Declaration)
       /\ ~done => rest # <<>>
       /\ \A i \in DOMAIN rest : i + 1 \in DOMAIN frame.todo /\ rest[i] = frame.todo[i + 1] /\ i \in Nat /\ i > 0
  <2>1. Len(frame.todo) \in Nat /\ DOMAIN frame.todo = 1..Len(frame.todo) /\ frame.todo # <<>>
    BY <1>2
  <2>2. Len(frame.todo) > 0
    BY <1>2, <2>1
  <2>3. rest \in Seq(Declaration) /\ Len(rest) = Len(frame.todo) - 1
    BY <1>2, <2>1
  <2>4. DOMAIN rest = 1..(Len(frame.todo) - 1)
    BY <2>1, <2>2, <2>3
  <2>5. \A i \in DOMAIN rest : rest[i] = frame.todo[i + 1]
    BY <1>2, <2>1, <2>4
  <2>6. ~done => rest # <<>>
    <3>1. ASSUME ~done PROVE 1 \in DOMAIN rest
      <4>1. Len(frame.todo) # 1 BY <3>1
      <4> DEFINE n == Len(frame.todo)
      <4>2. n \in Nat /\ n > 0 /\ n # 1 BY <2>1, <2>2, <4>1
      <4> HIDE DEF n
      <4>3. 1 \in 1..(n - 1) BY <4>2
      <4> QED BY <2>4, <4>3 DEF n
    <3> HIDE DEF rest, done
    <3> QED BY <3>1
  <2> HIDE DEF rest
  <2> QED BY <2>1, <2>2, <2>3, <2>4, <2>5, <2>6
<1>13. ~done => frame' = [frame EXCEPT !.todo = rest, !.tokens = <<>>]
  BY <1>1
<1> HIDE DEF rest
<1>14. ~done => /\ frame' \in Callbacks /\ frame'.kind = "attach" /\ frame'.tokens = <<>>
                /\ frame'.instance = frame.instance /\ frame'.todo = rest
                /\ frame'.epoch = frame.epoch /\ frame'.writes = frame.writes
  <2> SUFFICES ASSUME ~done
               PROVE  /\ frame' \in Callbacks /\ frame'.kind = "attach" /\ frame'.tokens = <<>>
                      /\ frame'.instance = frame.instance /\ frame'.todo = rest
                      /\ frame'.epoch = frame.epoch /\ frame'.writes = frame.writes
    OBVIOUS
  <2>1. frame' = [frame EXCEPT !.todo = rest, !.tokens = <<>>] /\ frame.kind = "attach"
    BY <1>1, <1>13 DEF Attaching
  <2>2. <<>> \in Seq(Token) /\ rest \in Seq(Declaration)
    BY <1>12
  <2> DEFINE empty == <<>>
  <2> HIDE DEF empty, done
  <2>3. frame' = [frame EXCEPT !.todo = rest, !.tokens = empty] /\ empty \in Seq(Token)
    BY <2>1, <2>2 DEF empty
  <2>4. /\ frame' \in Callbacks /\ frame'.kind = "attach" /\ frame'.tokens = empty
        /\ frame'.instance = frame.instance /\ frame'.todo = rest
        /\ frame'.epoch = frame.epoch /\ frame'.writes = frame.writes
    BY <1>3, <2>1, <2>2, <2>3 DEF Callbacks
  <2> QED BY <2>4 DEF empty
<1> HIDE DEF done
<1>15. Alike(rt, rt')
  BY <1>9, AlikeSame
<1>16. Constructed(record)
  BY <1>1, <1>4, <1>5, <1>9, <1>10, <1>11, <1>14, <1>15 DEF Constructed
<1>17. /\ Types' /\ Table(rt)' /\ HeldInv' /\ BatchInv' /\ IssuedInv'
       /\ HandleInv' /\ HandlesNeverRevive'
  BY <1>1, <1>16, ConstructedKeeps
<1>18. AttachInv'
  <2>1. CASE done
    BY <1>11, <2>1 DEF AttachInv
  <2>2. CASE ~done
    <3>1. /\ \A i \in DOMAIN frame.todo : Constructible(frame.instance.slot, frame.todo[i])
          /\ \A i \in DOMAIN frame.todo : Remaining <= i => Unowned(frame.todo[i])
          /\ \A i, j \in DOMAIN frame.todo : i # j => WriteApart(frame.todo[i], frame.todo[j])
      BY <1>1 DEF AttachInv, Attaching
    <3>2. FindSlot(frame.instance)'
      BY <1>1, <1>2, <1>14, <2>2 DEF FindSlot
    <3>3. ASSUME NEW i \in DOMAIN rest
          PROVE  Constructible(frame.instance.slot, rest[i]) /\ Unowned(rest[i])
      <4>1. Remaining <= i + 1
        BY <1>1, <1>12 DEF Remaining
      <4> QED BY <1>12, <3>1, <4>1
    <3>4. ASSUME NEW i \in DOMAIN rest, NEW j \in DOMAIN rest, i # j
          PROVE  WriteApart(rest[i], rest[j])
      <4>1. i + 1 # j + 1 BY <1>12, <3>4
      <4> QED BY <1>12, <3>1, <4>1
    <3>5. \A s, e : Constructible(s, e)' <=> Constructible(s, e)
      BY <1>1 DEF Constructible
    <3>6. \A e : Unowned(e)' <=> Unowned(e)
      BY <1>9 DEF Unowned
    <3> QED BY <1>2, <1>12, <1>14, <2>2, <3>2, <3>3, <3>4, <3>5, <3>6 DEF AttachInv
  <2> QED BY <2>1, <2>2
<1>19. CommandInv'
  <2>1. CASE done
    BY <1>9, <1>11, <2>1 DEF CommandInv, Idle
  <2>2. CASE ~done
    <3>1. /\ rt'.targets = rt.targets /\ rt'.touched = rt.touched /\ rt'.epoch = rt.epoch
          /\ frame'.writes = frame.writes /\ frame'.epoch = frame.epoch
      BY <1>9, <1>14, <2>2
    <3>2. \A k \in Kind : Noted(k)'
      <4>1. \A k \in Kind : Noted(k) BY <1>3 DEF CommandInv
      <4>2. \A k \in Kind : \A j \in DOMAIN rt.touched[k] : rt.touched[k][j] \in DOMAIN rt.targets
        BY <4>1 DEF Noted
      <4> HIDE DEF IndInv
      <4> QED BY <3>1, <4>1, <4>2, NotedStill
    <3> QED BY <1>3, <3>1, <3>2 DEF CommandInv
  <2> QED BY <2>1, <2>2
<1>20. FreeSlotsStill'
  <2>1. CASE done
    <3>1. \A s \in Slot : ~slots[s].reserved =>
            \A n \in NodesOf[s], k \in Kind : Expected[k][n] = 0
      BY <1>3, ExpectedStill
    <3>2. rt'.value = Expected /\ slots' = slots
      BY <1>1, <1>9, <2>1
    <3> QED BY <3>1, <3>2 DEF FreeSlotsStill
  <2>2. CASE ~done
    BY <1>1, <1>9, <2>2 DEF FreeSlotsStill
  <2> QED BY <2>1, <2>2
<1>21. CallbacksApplyExactly'
  BY <1>1, <1>9 DEF CallbacksApplyExactly
<1> QED BY <1>17, <1>18, <1>19, <1>20, <1>21

-----------------------------------------------------------------------------
(* The theorems                                                            *)

(* Every step keeps the invariant.                                         *)
LEMMA NextKeeps == IndInv /\ [Next]_vars => IndInv'
<1> SUFFICES ASSUME IndInv, [Next]_vars PROVE IndInv'
  OBVIOUS
<1>1. CASE UNCHANGED vars
  <2>1. Steady
    BY <1>1, FollowedSame, AlikeSame DEF vars, IndInv, Steady, Types, HeldInv, FindSlot, BatchInv
  <2>2. Types'
    BY <1>1 DEF vars, IndInv, Types
  <2>3. AttachInv'
    BY <1>1 DEF vars, IndInv, AttachInv, FindSlot, Constructible, Unowned, Remaining
  <2>4. rt' = rt /\ frame' = frame
    BY <1>1 DEF vars
  <2>5. \A k \in Kind : Noted(k)' <=> Noted(k)
    BY <2>4 DEF Noted
  <2>6. CommandInv'
    BY <2>4, <2>5 DEF IndInv, CommandInv, Idle
  <2>7. FreeSlotsStill' /\ CallbacksApplyExactly'
    BY <1>1 DEF vars, IndInv, FreeSlotsStill, CallbacksApplyExactly
  <2> QED BY <2>1, <2>2, <2>3, <2>6, <2>7, SteadyStep DEF IndInv
<1>2. ASSUME NEW type \in Type, RegisterControllerFactory(type) \/ UnregisterControllerFactory(type)
      PROVE  IndInv'
  BY <1>2, RegisterKeeps, UnregisterKeeps
<1>3. ASSUME NEW slot \in Slot, ReserveSlot(slot) \/ ReleaseSlot(slot) PROVE IndInv'
  BY <1>3, ReserveKeeps, ReleaseSlotKeeps
<1>4. ASSUME NEW slot \in Slot, NEW declarations \in Declarations[slot],
             AttachControllers(slot, declarations)
      PROVE  IndInv'
  BY <1>4, AttachKeeps
<1>5. ASSUME NEW slot \in Slot, CloseControllerInput(slot) \/ DetachControllers(slot) PROVE IndInv'
  BY <1>5, CloseKeeps, DetachKeeps
<1>6. CASE BeginConstruction BY <1>6, BeginKeeps
<1>7. CASE NoBatch BY <1>7, NoBatchKeeps
<1>8. CASE ConstructionFails BY <1>8, FailureKeeps
<1>9. CASE ConstructionSucceeds BY <1>9, SuccessKeeps
<1>10. CASE SubmitControllerInput \/ RunControllers
  BY <1>10, CallbackKeeps DEF SubmitControllerInput, RunControllers
<1>11. ASSUME NEW apply \in BOOLEAN, CallbackReturns(apply) PROVE IndInv'
  BY <1>11, ReturnKeeps
<1>12. ASSUME NEW i \in issued, NEW k \in Kind, NEW value \in Value,
              Command(i.token, k, value) \/ LateCommand(i.token, k, value)
       PROVE  IndInv'
  <2>1. i.token \in Token
    BY DEF IndInv, Types
  <2> QED BY <1>12, <2>1, CommandKeeps, LateKeeps
<1> QED BY <1>1, <1>2, <1>3, <1>4, <1>5, <1>6, <1>7, <1>8, <1>9, <1>10, <1>11, <1>12 DEF Next

(* The inductive invariant holds: the table, the controllers, the          *)
(* attachment and the callback in progress agree at every step.            *)
THEOREM ControllerInvariant == Spec => []IndInv
<1>1. Init => IndInv
  BY InitInv
<1>2. IndInv /\ [Next]_vars => IndInv'
  BY NextKeeps
<1> QED BY <1>1, <1>2, PTL DEF Spec

(* Between callbacks the target table, the write owners and the batches    *)
(* are exactly those of the controllers: AllocateControllerTarget,         *)
(* ReleaseControllerTarget, the detachment and the rollback of a failed    *)
(* AttachControllers leave nothing behind.                                 *)
THEOREM TargetTable == Spec => []TargetsExact
<1>1. IndInv => TargetsExact
  <2> SUFFICES ASSUME IndInv, Idle PROVE
        /\ Range(rt.free) = {i \in DOMAIN rt.targets : ~rt.targets[i].active}
        /\ \A i \in DOMAIN rt.targets : rt.targets[i].active =>
            \E c \in rt.controllers :
                /\ [index |-> i, generation |-> rt.targets[i].generation] \in Range(c.targets)
                /\ FindSlot(c.instance)
                /\ rt.targets[i].node \in NodesOf[c.instance.slot]
                /\ \A d \in rt.controllers \ {c} :
                    i \notin {t.index : t \in Range(d.targets)}
        /\ \A n \in Node :
            {i \in DOMAIN rt.targets : /\ rt.targets[i].active /\ rt.targets[i].node = n
                                       /\ rt.targets[i].access = "ReadWrite"}
            = {rt.owners[n]} \ {INVALID}
        /\ rt.batches = {c.type : c \in rt.controllers}
        /\ rt.batches \subseteq m_controllerFactories
    BY DEF TargetsExact
  <2> USE DEF IndInv
  <2>1. frame.tokens = <<>>
    BY DEF AttachInv, Idle
  <2>2. Range(rt.free) = {i \in DOMAIN rt.targets : ~rt.targets[i].active}
    BY DEF Range, Table, FreeExact
  <2>3. ASSUME NEW i \in DOMAIN rt.targets, rt.targets[i].active
        PROVE  \E c \in rt.controllers :
                 /\ [index |-> i, generation |-> rt.targets[i].generation] \in Range(c.targets)
                 /\ FindSlot(c.instance)
                 /\ rt.targets[i].node \in NodesOf[c.instance.slot]
                 /\ \A d \in rt.controllers \ {c} : i \notin {t.index : t \in Range(d.targets)}
    <3>1. PICK c \in rt.controllers : \E a \in DOMAIN c.targets : c.targets[a].index = i
      BY <2>1, <2>3 DEF HeldInv
    <3>2. PICK a \in DOMAIN c.targets : c.targets[a].index = i
      BY <3>1
    <3>3. /\ FindSlot(c.instance) /\ Current(rt, c.targets[a])
          /\ rt.targets[i].node \in NodesOf[c.instance.slot]
          /\ \A d \in rt.controllers : c # d => Apart(c.targets, d.targets)
      BY <3>2 DEF HeldInv, Holds
    <3>4. c.targets[a] \in Token
      <4>1. c \in Controller BY DEF Types, Runtime
      <4>2. c.targets \in Seq(Token) BY <4>1 DEF Controller
      <4> QED BY <4>2
    <3>5. c.targets[a] = [index |-> i, generation |-> rt.targets[i].generation]
      BY <3>2, <3>3, <3>4 DEF Current, Token
    <3>6. [index |-> i, generation |-> rt.targets[i].generation] \in Range(c.targets)
      BY <3>5 DEF Range
    <3>7. ASSUME NEW d \in rt.controllers \ {c} PROVE i \notin {t.index : t \in Range(d.targets)}
      BY <3>2, <3>3 DEF Range, Apart
    <3> QED BY <3>3, <3>6, <3>7
  <2>4. ASSUME NEW n \in Node
        PROVE  {i \in DOMAIN rt.targets : /\ rt.targets[i].active /\ rt.targets[i].node = n
                                          /\ rt.targets[i].access = "ReadWrite"}
               = {rt.owners[n]} \ {INVALID}
    <3>1. \A i \in DOMAIN rt.targets : i # INVALID
      BY DEF Types, Runtime, INVALID
    <3> QED BY <3>1 DEF Table, OwnersExact
  <2>5. rt.batches = {c.type : c \in rt.controllers} /\ rt.batches \subseteq m_controllerFactories
    BY <2>1 DEF BatchInv
  <2> QED BY <2>2, <2>3, <2>4, <2>5
<1> QED BY <1>1, ControllerInvariant, PTL

(* FindControllerTarget never takes a token to another node than the one   *)
(* it was issued for, however often the table is recycled.                 *)
THEOREM FaithfulTokens == Spec => []TokensFaithful
<1>1. IndInv => TokensFaithful
  BY DEF IndInv, IssuedInv, TokensFaithful, FindControllerTarget, Current
<1> QED BY <1>1, ControllerInvariant, PTL

(* The public handle of a destroyed controller never names another one,    *)
(* through any wrap of m_nextControllerHandle.                             *)
THEOREM HandlesStayDead == Spec => []HandlesNeverRevive
<1>1. IndInv => HandlesNeverRevive
  BY DEF IndInv
<1> QED BY <1>1, ControllerInvariant, PTL

(* The nodes of a slot that is not leased keep their initial values,       *)
(* whatever callbacks and old sinks do.                                    *)
THEOREM FreeSlotsAreStill == Spec => []FreeSlotsStill
<1>1. IndInv => FreeSlotsStill
  BY DEF IndInv
<1> QED BY <1>1, ControllerInvariant, PTL

(* EndControllerCommands applies exactly the commands the callback was     *)
(* granted, or none.                                                       *)
THEOREM ExactCallbacks == Spec => []CallbacksApplyExactly
<1>1. IndInv => CallbacksApplyExactly
  BY DEF IndInv
<1> QED BY <1>1, ControllerInvariant, PTL
=============================================================================
