---------------------------- MODULE SceneSyncProofs ----------------------------
(***************************************************************************)
(* The safety properties of SceneSync for every forest, every transform    *)
(* algebra with inverses, every assignment of nodes to slots and every     *)
(* limit of revisions, ticks and epochs.                                   *)
(*                                                                         *)
(* The argument has three layers: functions defined by recursion along the *)
(* forest exist and satisfy their equations; each operation on a scene is  *)
(* an edit or an evaluation (EditOf, EvaluationOf); whatever edits or      *)
(* evaluates keeps an instance Good and its entities ShownUpTo date.       *)
(***************************************************************************)
EXTENDS SceneSync, FiniteSetTheorems, WellFoundedInduction, TLAPS

(* Every nonempty set of naturals has a least element.                      *)
LEMMA WellOrder ==
  ASSUME NEW T, T \subseteq Nat, T # {}
  PROVE  \E x \in T : \A y \in T : x <= y
<1> DEFINE R == {p \in Nat \X Nat : p[1] < p[2]}
<1>1. IsWellFoundedOn(R, Nat)
  BY NatLessThanWellFounded DEF OpToRel
<1>2. \E x \in T : \A y \in T : ~ (<<y, x>> \in R)
  <2> HIDE DEF R
  <2> QED BY <1>1, WFMin, Zenon
<1>3. PICK x \in T : \A y \in T : ~ (<<y, x>> \in R)
  BY <1>2
<1>4. ASSUME NEW y \in T PROVE x <= y
  <2>1. <<y, x>> \in Nat \X Nat BY Zenon
  <2>2. ~(y < x) BY <1>3, <2>1
  <2>3. x \in Nat /\ y \in Nat OBVIOUS
  <2> QED BY <2>2, <2>3
<1> QED BY <1>4

(* Induction over the naturals, about a set instead of a formula.           *)
LEMMA NatInd ==
  ASSUME NEW S, 0 \in S, \A n \in Nat : n \in S => n + 1 \in S
  PROVE  Nat \subseteq S
<1> DEFINE T == Nat \ S
<1>1. CASE T # {}
  <2>1. PICK x \in T : \A y \in T : x <= y BY <1>1, WellOrder
  <2> QED BY <2>1, x - 1 \in Nat
<1> QED BY <1>1

(* A finite set of naturals has an upper bound.                             *)
LEMMA FiniteBounded ==
  ASSUME NEW T, T \subseteq Nat, IsFiniteSet(T)
  PROVE  \E k \in Nat : \A n \in T : n < k
<1> DEFINE Bounded(U) == \E k \in Nat : \A n \in U : n < k
           All(c) == \A U \in SUBSET Nat : IsFiniteSet(U) /\ Cardinality(U) = c => Bounded(U)
           S == {c \in Nat : All(c)}
<1>1. All(0)
  BY FS_EmptySet
<1>2. ASSUME NEW c \in Nat, All(c) PROVE All(c + 1)
  <2> SUFFICES ASSUME NEW U \in SUBSET Nat, IsFiniteSet(U), Cardinality(U) = c + 1
               PROVE  Bounded(U)
    <3> HIDE DEF Bounded
    <3> QED OBVIOUS
  <2>1. PICK x : x \in U
    BY FS_EmptySet
  <2>2. IsFiniteSet(U \ {x}) /\ Cardinality(U \ {x}) = Cardinality(U) - 1
    BY <2>1, FS_RemoveElement
  <2>3. Cardinality(U \ {x}) = c
    BY <2>2
  <2>4. Bounded(U \ {x})
    <3> HIDE DEF Bounded
    <3> QED BY <1>2, <2>2, <2>3
  <2>5. PICK k \in Nat : \A n \in U \ {x} : n < k
    BY <2>4
  <2>6. \A n \in U : n < k + x + 1
    BY <2>1, <2>5
  <2> QED BY <2>1, <2>6
<1>3. 0 \in S /\ \A c \in Nat : c \in S => c + 1 \in S
  <2> HIDE DEF All
  <2> QED BY <1>1, <1>2
<1>4. Nat \subseteq S
  <2> HIDE DEF S
  <2> QED BY <1>3, NatInd
<1> QED BY <1>4, FS_CardinalityType

(* What the recursions over the forest need.                               *)
LEMMA Forest ==
  /\ Node \subseteq Nat /\ IsFiniteSet(Node) /\ NoNode \notin Node
  /\ Parent \in [Node -> Node \union {NoNode}]
  /\ \A n \in Node : Parent[n] # NoNode => Parent[n] \in Node /\ Parent[n] < n
BY StepAssumption

(* f is what root and step make of the forest, from its roots down.         *)
Recurs(f, root, step) ==
  \A n \in Node : f[n] = IF Parent[n] = NoNode THEN root[n] ELSE step[n][f[Parent[n]]]

(* A recursion along Parent has a solution: parents have smaller numbers.   *)
LEMMA ForestRecursion ==
  ASSUME NEW V, NEW root \in [Node -> V], NEW step \in [Node -> [V -> V]]
  PROVE  \E f \in [Node -> V] : Recurs(f, root, step)
<1> USE Forest
<1> DEFINE Low(k) == {n \in Node : n < k}
           Solves(f, k) == \A n \in Low(k) :
              f[n] = IF Parent[n] = NoNode THEN root[n] ELSE step[n][f[Parent[n]]]
           S == {k \in Nat : \E f \in [Low(k) -> V] : Solves(f, k)}
<1>1. 0 \in S
  <2>1. Low(0) = {}
    <3>1. ASSUME NEW n \in Low(0) PROVE FALSE
      <4>1. n \in Nat /\ n < 0 OBVIOUS
      <4> QED BY <4>1
    <3> QED BY <3>1
  <2>2. [n \in {} |-> n] \in [Low(0) -> V] /\ Solves([n \in {} |-> n], 0)
    BY <2>1
  <2> QED BY <2>2
<1>2. ASSUME NEW k \in Nat, k \in S PROVE k + 1 \in S
  <2>1. PICK f \in [Low(k) -> V] : Solves(f, k) BY <1>2
  <2> DEFINE g == [n \in Low(k + 1) |->
                     IF n # k THEN f[n]
                     ELSE IF Parent[n] = NoNode THEN root[n] ELSE step[n][f[Parent[n]]]]
  <2>2. ASSUME NEW n \in Low(k + 1) PROVE n \in Low(k) \/ n = k
    OBVIOUS
  <2>3. ASSUME NEW n \in Low(k + 1), Parent[n] # NoNode PROVE Parent[n] \in Low(k)
    <3>1. n \in Node /\ n < k + 1
      OBVIOUS
    <3>2. Parent[n] \in Node /\ Parent[n] < n
      BY <2>3, <3>1
    <3>3. Parent[n] \in Nat /\ n \in Nat
      BY <3>1, <3>2
    <3> QED BY <3>1, <3>2, <3>3
  <2>4. g \in [Low(k + 1) -> V]
    <3> SUFFICES ASSUME NEW n \in Low(k + 1) PROVE g[n] \in V
      OBVIOUS
    <3>1. CASE n # k BY <3>1, <2>2
    <3>2. CASE n = k /\ Parent[n] # NoNode
      <4>1. f[Parent[n]] \in V BY <2>3, <3>2
      <4> QED BY <4>1, <3>2
    <3>3. CASE n = k /\ Parent[n] = NoNode BY <3>3
    <3> QED BY <3>1, <3>2, <3>3
  <2>5. \A n \in Low(k) : g[n] = f[n]
    OBVIOUS
  <2>6. Solves(g, k + 1)
    <3> SUFFICES ASSUME NEW n \in Low(k + 1)
                 PROVE  g[n] = IF Parent[n] = NoNode THEN root[n] ELSE step[n][g[Parent[n]]]
      OBVIOUS
    <3>1. Parent[n] # NoNode => g[Parent[n]] = f[Parent[n]]
      BY <2>3, <2>5
    <3>2. CASE n = k BY <3>1, <3>2
    <3>3. CASE n # k
      <4>1. n \in Low(k) BY <3>3, <2>2
      <4>2. g[n] = f[n] BY <4>1, <2>5
      <4> HIDE DEF g, Low
      <4> QED BY <4>1, <4>2, <3>1, <2>1
    <3> QED BY <3>2, <3>3
  <2>7. \E h \in [Low(k + 1) -> V] : Solves(h, k + 1)
    <3> HIDE DEF g, Low, Solves
    <3> QED BY <2>4, <2>6
  <2> HIDE DEF Low, Solves
  <2> QED BY <2>7, k + 1 \in Nat
<1>3. Nat \subseteq S
  <2> HIDE DEF S
  <2> QED BY <1>1, <1>2, NatInd
<1>4. PICK k \in Nat : \A n \in Node : n < k
  BY FiniteBounded
<1>5. Low(k) = Node BY <1>4
<1>6. PICK f \in [Low(k) -> V] : Solves(f, k) BY <1>3
<1> HIDE DEF Low
<1> QED BY <1>5, <1>6 DEF Recurs

(* Above satisfies its recursive definition.                                *)
LEMMA AboveRec ==
  /\ Above \in [Node -> SUBSET Node]
  /\ \A n \in Node : Above[n] = {n} \union (IF Parent[n] = NoNode THEN {} ELSE Above[Parent[n]])
<1> USE Forest
<1> DEFINE V == SUBSET Node
           root == [n \in Node |-> {n}]
           step == [n \in Node |-> [x \in V |-> {n} \union x]]
           Eq(f) == f = [n \in Node |-> {n} \union (IF Parent[n] = NoNode THEN {} ELSE f[Parent[n]])]
<1>1. root \in [Node -> V] OBVIOUS
<1>2. step \in [Node -> [V -> V]] OBVIOUS
<1>3. PICK f \in [Node -> V] : Recurs(f, root, step)
  <2> HIDE DEF V, root, step
  <2> QED BY <1>1, <1>2, ForestRecursion
<1>4. ASSUME NEW n \in Node
      PROVE f[n] = {n} \union (IF Parent[n] = NoNode THEN {} ELSE f[Parent[n]])
  <2>1. CASE Parent[n] # NoNode
    <3>1. f[Parent[n]] \in V BY <2>1
    <3>2. step[n][f[Parent[n]]] = {n} \union f[Parent[n]] BY <3>1
    <3> QED BY <2>1, <3>2, <1>3 DEF Recurs
  <2>2. CASE Parent[n] = NoNode BY <2>2, <1>3 DEF Recurs
  <2> QED BY <2>1, <2>2
<1>5. Eq(f) BY <1>4
<1>6. Eq(Above)
  <2>1. Above = CHOOSE g : Eq(g) BY DEF Above
  <2> HIDE DEF Eq
  <2> QED BY <2>1, <1>5
<1>7. \A n \in Node : Above[n] = {n} \union (IF Parent[n] = NoNode THEN {} ELSE Above[Parent[n]])
  BY <1>6
<1> DEFINE T == {n \in Node : ~ (Above[n] \subseteq Node)}
<1>8. T = {}
  <2> SUFFICES ASSUME T # {} PROVE FALSE OBVIOUS
  <2>1. PICK n \in T : \A m \in T : n <= m BY WellOrder
  <2>2. n \in Node /\ ~ (Above[n] \subseteq Node)
    BY <2>1
  <2>3. CASE Parent[n] # NoNode
    <3>1. Parent[n] \in Node /\ Parent[n] < n
      BY <2>2, <2>3
    <3>2. Parent[n] \notin T
      BY <2>1, <3>1, n \in Nat, Parent[n] \in Nat
    <3> QED BY <2>2, <2>3, <3>1, <3>2, <1>7
  <2>4. CASE Parent[n] = NoNode
    BY <2>2, <2>4, <1>7
  <2> QED BY <2>3, <2>4
<1> QED BY <1>6, <1>7, <1>8

(* The ancestors of a node: itself and those of its parent, none behind it. *)
LEMMA AboveFacts ==
  /\ \A n \in Node : n \in Above[n]
  /\ \A n \in Node : Parent[n] # NoNode => Above[n] = {n} \union Above[Parent[n]]
  /\ \A n \in Node : Parent[n] = NoNode => Above[n] = {n}
  /\ \A n \in Node : \A m \in Above[n] : m <= n
<1> USE Forest
<1>1. /\ \A n \in Node : n \in Above[n]
      /\ \A n \in Node : Parent[n] # NoNode => Above[n] = {n} \union Above[Parent[n]]
      /\ \A n \in Node : Parent[n] = NoNode => Above[n] = {n}
  BY AboveRec
<1> DEFINE T == {n \in Node : \E m \in Above[n] : ~ (m <= n)}
<1>2. T = {}
  <2> SUFFICES ASSUME T # {} PROVE FALSE OBVIOUS
  <2>1. PICK n \in T : \A m \in T : n <= m BY WellOrder
  <2>2. PICK m \in Above[n] : ~ (m <= n)
    BY <2>1
  <2>3. n \in Node /\ n \in Nat /\ m \in Nat
    BY <2>1, <2>2, AboveRec
  <2>4. Parent[n] # NoNode /\ m \in Above[Parent[n]]
    BY <1>1, <2>2, <2>3
  <2>5. Parent[n] \in Node /\ Parent[n] \in Nat /\ Parent[n] < n
    BY <2>3, <2>4
  <2>6. Parent[n] \in T
    BY <2>2, <2>3, <2>4, <2>5
  <2> QED BY <2>1, <2>3, <2>5, <2>6
<1> QED BY <1>1, <1>2

(* EvaluatedWorlds satisfies its recursive definition, whatever is dirty.   *)
LEMMA EvaluatedRec ==
  ASSUME NEW s, s.local \in [Node -> Transform], s.world \in [Node -> Transform]
  PROVE  /\ EvaluatedWorlds(s) \in [Node -> Transform]
         /\ \A n \in Node :
              EvaluatedWorlds(s)[n] =
                IF n \notin Affected(s) THEN s.world[n]
                ELSE IF Parent[n] = NoNode THEN s.local[n]
                ELSE Compose(EvaluatedWorlds(s)[Parent[n]], s.local[n])
<1> USE Forest
<1> DEFINE aff == Affected(s)
<1> HIDE DEF aff
<1> DEFINE root == [n \in Node |-> IF n \notin aff THEN s.world[n] ELSE s.local[n]]
           step == [n \in Node |-> [x \in Transform |->
                      IF n \notin aff THEN s.world[n] ELSE Compose(x, s.local[n])]]
           Eq(w) == w = [n \in Node |-> IF n \notin aff THEN s.world[n]
                                        ELSE IF Parent[n] = NoNode THEN s.local[n]
                                        ELSE Compose(w[Parent[n]], s.local[n])]
<1>1. root \in [Node -> Transform] OBVIOUS
<1>2. step \in [Node -> [Transform -> Transform]]
  BY StepAssumption
<1>3. PICK f \in [Node -> Transform] : Recurs(f, root, step)
  <2> HIDE DEF root, step
  <2> QED BY <1>1, <1>2, ForestRecursion
<1>4. ASSUME NEW n \in Node
      PROVE  f[n] = IF n \notin aff THEN s.world[n]
                    ELSE IF Parent[n] = NoNode THEN s.local[n]
                    ELSE Compose(f[Parent[n]], s.local[n])
  <2>1. CASE Parent[n] # NoNode
    <3>1. f[Parent[n]] \in Transform BY <2>1
    <3>2. f[n] = step[n][f[Parent[n]]] BY <2>1, <1>3 DEF Recurs
    <3> QED BY <2>1, <3>1, <3>2
  <2>2. CASE Parent[n] = NoNode BY <2>2, <1>3 DEF Recurs
  <2> QED BY <2>1, <2>2
<1>5. Eq(f) BY <1>4
<1> DEFINE w == CHOOSE g : Eq(g)
<1>6. Eq(w)
  <2> HIDE DEF Eq
  <2> QED BY <1>5
<1>7. EvaluatedWorlds(s) = [n \in Node |-> w[n]]
  BY DEF EvaluatedWorlds, aff
<1> HIDE DEF w
<1>8. EvaluatedWorlds(s) = w
  BY <1>6, <1>7
<1>9. \A n \in Node : w[n] = IF n \notin aff THEN s.world[n]
                             ELSE IF Parent[n] = NoNode THEN s.local[n]
                             ELSE Compose(w[Parent[n]], s.local[n])
  BY <1>6
<1> DEFINE T == {n \in Node : w[n] \notin Transform}
<1>10. T = {}
  <2> SUFFICES ASSUME T # {} PROVE FALSE OBVIOUS
  <2>1. PICK n \in T : \A m \in T : n <= m BY WellOrder
  <2>2. n \in Node /\ n \in Nat /\ w[n] \notin Transform BY <2>1
  <2>3. n \in aff /\ Parent[n] # NoNode /\ w[n] = Compose(w[Parent[n]], s.local[n])
    BY <1>9, <2>2
  <2>4. Parent[n] \in Node /\ Parent[n] \in Nat /\ Parent[n] < n BY <2>2, <2>3
  <2>5. w[Parent[n]] \in Transform
    BY <2>1, <2>2, <2>4
  <2> QED BY <2>2, <2>3, <2>5, StepAssumption
<1>11. w \in [Node -> Transform]
  BY <1>6, <1>10
<1> QED BY <1>8, <1>9, <1>11 DEF aff

--------------------------------------------------------------------------------
(* set_local or mark_dirty for each node of a set, until the revisions run  *)
(* out: all of them exactly if there is room, and else as many as there is  *)
(* room for.                                                                *)
LEMMA GrantedCount ==
  ASSUME NEW s, s.revision \in 0 .. MaxRevision, NEW nodes, nodes \subseteq Node
  PROVE  LET room == MaxRevision - s.revision
             granted == Granted(s, nodes)
         IN  /\ IsFiniteSet(nodes) /\ IsFiniteSet(granted) /\ granted \subseteq nodes
             /\ Cardinality(nodes) \in Nat /\ Cardinality(granted) \in 0 .. room
             /\ granted # nodes => Cardinality(granted) = room
             /\ granted = nodes <=> Cardinality(nodes) <= room
<1> DEFINE room == MaxRevision - s.revision
           lower == [n \in Nat |-> {m \in nodes : m < n}]
           rank == [n \in Nat |-> Cardinality(lower[n])]
           granted == Granted(s, nodes)
<1>1. room \in Nat
  BY StepAssumption
<1>2. nodes \subseteq Nat /\ IsFiniteSet(nodes) /\ Cardinality(nodes) \in Nat
  BY Forest, FS_Subset, FS_CardinalityType
<1>3. granted = {n \in nodes : rank[n] < room}
  BY <1>2 DEF Granted
<1>4. IsFiniteSet(granted) /\ granted \subseteq nodes /\ Cardinality(granted) \in Nat
      /\ Cardinality(granted) <= Cardinality(nodes)
      /\ (Cardinality(granted) = Cardinality(nodes) => granted = nodes)
  <2>1. granted \in SUBSET nodes BY <1>3
  <2> HIDE DEF granted
  <2> QED BY <2>1, <1>2, FS_Subset, FS_CardinalityType
<1>5. \A n \in Nat : lower[n] \subseteq nodes /\ IsFiniteSet(lower[n]) /\ rank[n] \in Nat
  <2> SUFFICES ASSUME NEW n \in Nat
               PROVE  lower[n] \subseteq nodes /\ IsFiniteSet(lower[n]) /\ rank[n] \in Nat
    OBVIOUS
  <2>1. lower[n] \in SUBSET nodes OBVIOUS
  <2>2. rank[n] = Cardinality(lower[n]) OBVIOUS
  <2> HIDE DEF lower, rank
  <2> QED BY <2>1, <2>2, <1>2, FS_Subset, FS_CardinalityType
<1>6. \A n \in nodes, m \in nodes : n < m => rank[n] < rank[m]
  <2> SUFFICES ASSUME NEW n \in nodes, NEW m \in nodes, n < m PROVE rank[n] < rank[m]
    OBVIOUS
  <2>1. n \in Nat /\ m \in Nat BY <1>2
  <2>2. n \notin lower[n] /\ lower[n] \union {n} \subseteq lower[m]
    <3>1. n \notin lower[n] BY <2>1
    <3>2. ASSUME NEW k \in lower[n] PROVE k \in lower[m]
      <4>1. k \in nodes /\ k < n BY <2>1
      <4>2. k \in Nat BY <4>1, <1>2
      <4> QED BY <4>1, <4>2, <2>1
    <3>3. n \in lower[m] BY <2>1
    <3> QED BY <3>1, <3>2, <3>3
  <2>3. rank[n] = Cardinality(lower[n]) /\ rank[m] = Cardinality(lower[m]) BY <2>1
  <2> HIDE DEF lower, rank
  <2>4. Cardinality(lower[n] \union {n}) = Cardinality(lower[n]) + 1
    BY <2>1, <2>2, <1>5, FS_AddElement
  <2>5. Cardinality(lower[n] \union {n}) <= Cardinality(lower[m])
    BY <2>1, <2>2, <1>5, FS_Subset
  <2> QED BY <2>1, <2>3, <2>4, <2>5, <1>5
<1>7. Cardinality(granted) <= room
  <2> DEFINE f == [n \in granted |-> rank[n]]
             T == 0 .. (room - 1)
  <2>1. f \in [granted -> T]
    <3> SUFFICES ASSUME NEW n \in granted PROVE rank[n] \in T
      OBVIOUS
    <3>1. n \in nodes /\ rank[n] < room BY <1>3
    <3>2. rank[n] \in Nat BY <3>1, <1>2, <1>5
    <3> QED BY <3>1, <3>2, <1>1
  <2>2. ASSUME NEW a \in granted, NEW b \in granted, f[a] = f[b] PROVE a = b
    <3>1. a \in nodes /\ b \in nodes /\ rank[a] = rank[b] BY <2>2, <1>4
    <3>2. a \in Nat /\ b \in Nat /\ rank[a] \in Nat /\ rank[b] \in Nat
      <4> HIDE DEF rank
      <4> QED BY <3>1, <1>2, <1>5
    <3>3. ~ (a < b) /\ ~ (b < a)
      <4> HIDE DEF rank
      <4> QED BY <3>1, <3>2, <1>6
    <3> QED BY <3>2, <3>3
  <2>3. f \in Injection(granted, T)
    <3> HIDE DEF f, T, granted
    <3> QED BY <2>1, <2>2 DEF Injection, IsInjective
  <2>4. IsFiniteSet(T) /\ Cardinality(T) = room
    <3> HIDE DEF room
    <3>1. 0 \in Int /\ room - 1 \in Int BY <1>1
    <3>2. IsFiniteSet(T) /\ Cardinality(T) = IF 0 > room - 1 THEN 0 ELSE (room - 1) - 0 + 1
      BY <3>1, FS_Interval
    <3> QED BY <3>2, <1>1
  <2> HIDE DEF f, T, granted
  <2>5. Cardinality(granted) <= Cardinality(T)
    BY <2>3, <2>4, FS_Injection
  <2> QED BY <2>4, <2>5
<1>8. ASSUME granted # nodes PROVE Cardinality(granted) = room
  <2>1. PICK x \in nodes \ granted : \A y \in nodes \ granted : x <= y
    <3>1. nodes \ granted # {} /\ nodes \ granted \subseteq Nat BY <1>8, <1>4, <1>2
    <3> HIDE DEF granted
    <3> QED BY <3>1, WellOrder
  <2>2. x \in nodes /\ x \in Nat /\ rank[x] \in Nat BY <2>1, <1>2, <1>5
  <2>3. room <= rank[x]
    <3>1. ~ (rank[x] < room) BY <2>1, <1>3
    <3> HIDE DEF rank, room
    <3> QED BY <3>1, <2>2, <1>1
  <2>4. lower[x] \subseteq granted
    <3> SUFFICES ASSUME NEW k \in lower[x] PROVE k \in granted
      OBVIOUS
    <3>1. k \in nodes /\ k < x BY <2>2
    <3>2. k \in Nat BY <3>1, <1>2
    <3> HIDE DEF granted
    <3> QED BY <3>1, <3>2, <2>1, <2>2
  <2>5. rank[x] = Cardinality(lower[x]) BY <2>2
  <2> HIDE DEF granted, lower, rank, room
  <2>6. Cardinality(lower[x]) <= Cardinality(granted)
    BY <2>4, <1>4, FS_Subset
  <2> QED BY <2>2, <2>3, <2>5, <2>6, <1>1, <1>4, <1>7
<1> HIDE DEF granted, rank, lower, room
<1>9. /\ IsFiniteSet(nodes) /\ IsFiniteSet(granted) /\ granted \subseteq nodes
      /\ Cardinality(nodes) \in Nat /\ Cardinality(granted) \in 0 .. room
      /\ granted # nodes => Cardinality(granted) = room
      /\ granted = nodes <=> Cardinality(nodes) <= room
  <2>1. CASE granted = nodes BY <2>1, <1>1, <1>2, <1>4, <1>7
  <2>2. CASE granted # nodes BY <2>2, <1>1, <1>2, <1>4, <1>7, <1>8
  <2> QED BY <2>1, <2>2
<1> QED BY <1>9 DEF granted, room

--------------------------------------------------------------------------------
(* Scenes.                                                                  *)

SceneRecord ==
  [local : [Node -> Transform], world : [Node -> Transform], dirty : SUBSET Node,
   world_revision : [Node -> Nat], revision : 0 .. MaxRevision,
   motion : [Node -> Motion \union {Still}], next_tick : Nat]

(* A world with nothing dirty above it is what its parent's world makes of  *)
(* its local transform.                                                     *)
Coherent(s) ==
  \A n \in Node : n \notin Affected(s) =>
    s.world[n] = IF Parent[n] = NoNode THEN s.local[n]
                 ELSE Compose(s.world[Parent[n]], s.local[n])

(* u is s with some locals written and some nodes marked.                   *)
EditOf(s, u) ==
  /\ u \in SceneRecord
  /\ u.world = s.world /\ u.world_revision = s.world_revision
  /\ s.revision <= u.revision
  /\ s.dirty \subseteq u.dirty
  /\ \A n \in Node : n \notin u.dirty => u.local[n] = s.local[n]

(* u is s with all that was dirty evaluated, and the changed nodes stamped. *)
EvaluationOf(s, u, changed) ==
  /\ u \in SceneRecord
  /\ s.revision <= u.revision /\ u.dirty = {}
  /\ changed \subseteq Node /\ Affected(s) \subseteq changed
  /\ \A n \in Node \ changed : /\ u.world[n] = s.world[n]
                               /\ u.world_revision[n] = s.world_revision[n]
  /\ \A n \in changed : u.world_revision[n] = u.revision /\ s.revision < u.revision
  /\ Coherent(s) => Coherent(u)

(* An affected node has an affected parent, or is dirty itself.             *)
LEMMA AffectedFacts ==
  ASSUME NEW s, s.dirty \subseteq Node
  PROVE  /\ s.dirty \subseteq Affected(s) /\ Affected(s) \subseteq Node
         /\ \A n \in Node : Parent[n] # NoNode =>
              (n \in Affected(s) <=> n \in s.dirty \/ Parent[n] \in Affected(s))
         /\ \A n \in Node : Parent[n] = NoNode => (n \in Affected(s) <=> n \in s.dirty)
<1>1. ASSUME NEW n \in Node
      PROVE  n \in Affected(s) <=> Above[n] \intersect s.dirty # {}
  BY DEF Affected
<1>2. s.dirty \subseteq Affected(s) /\ Affected(s) \subseteq Node
  BY <1>1, AboveFacts DEF Affected
<1>3. ASSUME NEW n \in Node, Parent[n] # NoNode
      PROVE  n \in Affected(s) <=> n \in s.dirty \/ Parent[n] \in Affected(s)
  <2>1. Parent[n] \in Node BY <1>3, Forest
  <2>2. Above[n] = {n} \union Above[Parent[n]] BY <1>3, AboveFacts
  <2> QED BY <2>1, <2>2, <1>1
<1>4. ASSUME NEW n \in Node, Parent[n] = NoNode
      PROVE  n \in Affected(s) <=> n \in s.dirty
  <2>1. Above[n] = {n} BY <1>4, AboveFacts
  <2> QED BY <2>1, <1>1
<1> QED BY <1>2, <1>3, <1>4

(* Edits keep what is coherent coherent.                                    *)
LEMMA EditCoherent ==
  ASSUME NEW s \in SceneRecord, NEW u, EditOf(s, u), Coherent(s)
  PROVE  Coherent(u) /\ Affected(s) \subseteq Affected(u)
<1>1. s.dirty \subseteq Node /\ u.dirty \subseteq Node
  BY DEF EditOf, SceneRecord
<1>2. Affected(s) \subseteq Affected(u)
  BY DEF EditOf, Affected
<1>3. ASSUME NEW n \in Node, n \notin Affected(u)
      PROVE  u.world[n] = IF Parent[n] = NoNode THEN u.local[n]
                          ELSE Compose(u.world[Parent[n]], u.local[n])
  <2>1. n \notin Affected(s) /\ n \notin u.dirty
    BY <1>1, <1>2, <1>3, AffectedFacts
  <2>2. u.local[n] = s.local[n] /\ u.world = s.world
    BY <2>1 DEF EditOf
  <2> QED BY <2>1, <2>2 DEF Coherent
<1> QED BY <1>2, <1>3 DEF Coherent

(* set_local is an edit.                                                    *)
LEMMA SetLocalEdit ==
  ASSUME NEW s \in SceneRecord, NEW n \in Node, NEW value \in Transform
  PROVE  /\ EditOf(s, set_local(s, n, value).scene)
         /\ set_local(s, n, value).scene.next_tick = s.next_tick
<1> DEFINE u == [s EXCEPT !.local[n] = value, !.dirty = @ \union {n}, !.revision = @ + 1]
<1>1. CASE revision_available(s)
  <2>1. s.revision + 1 \in 0 .. MaxRevision /\ s.revision <= s.revision + 1
    BY <1>1, StepAssumption DEF revision_available, SceneRecord
  <2>2. /\ u \in SceneRecord /\ u.world = s.world /\ u.world_revision = s.world_revision
        /\ u.revision = s.revision + 1 /\ u.dirty = s.dirty \union {n}
        /\ u.local = [s.local EXCEPT ![n] = value] /\ u.next_tick = s.next_tick
    BY <2>1 DEF SceneRecord
  <2>3. s.local \in [Node -> Transform] BY DEF SceneRecord
  <2> HIDE DEF u
  <2>4. EditOf(s, u) BY <2>1, <2>2, <2>3 DEF EditOf
  <2>5. set_local(s, n, value).scene = u
    BY <1>1 DEF set_local, Ok, u
  <2> QED BY <2>2, <2>4, <2>5
<1>2. CASE ~revision_available(s)
  <2>1. set_local(s, n, value).scene = s
    BY <1>2 DEF set_local, Refuse
  <2>2. s.revision <= s.revision
    BY StepAssumption DEF SceneRecord
  <2> QED BY <2>1, <2>2 DEF EditOf
<1> QED BY <1>1, <1>2

(* mark_each is an edit that marks all it is asked to, or uses up the       *)
(* revisions.                                                               *)
LEMMA MarkEachEdit ==
  ASSUME NEW s \in SceneRecord, NEW nodes, nodes \subseteq Node
  PROVE  /\ EditOf(s, mark_each(s, nodes))
         /\ nodes \subseteq mark_each(s, nodes).dirty \/ mark_each(s, nodes).revision = MaxRevision
<1> DEFINE g == Granted(s, nodes)
<1>1. s.revision \in 0 .. MaxRevision BY DEF SceneRecord
<1>2. /\ g \subseteq nodes /\ Cardinality(g) \in 0 .. MaxRevision - s.revision
      /\ g # nodes => Cardinality(g) = MaxRevision - s.revision
  BY <1>1, GrantedCount
<1> HIDE DEF g
<1>3. mark_each(s, nodes) = [s EXCEPT !.dirty = @ \union g, !.revision = @ + Cardinality(g)]
  BY DEF mark_each, g
<1>4. s.revision + Cardinality(g) \in 0 .. MaxRevision /\ s.revision <= s.revision + Cardinality(g)
  BY <1>1, <1>2, StepAssumption
<1>5. EditOf(s, mark_each(s, nodes))
  BY <1>2, <1>3, <1>4 DEF EditOf, SceneRecord
<1>6. mark_each(s, nodes).dirty = s.dirty \union g
      /\ mark_each(s, nodes).revision = s.revision + Cardinality(g)
  BY <1>3 DEF SceneRecord
<1>7. g # nodes => s.revision + Cardinality(g) = MaxRevision
  BY <1>1, <1>2, StepAssumption
<1> QED BY <1>5, <1>6, <1>7

(* set_locals is an edit that is refused exactly when revisions are missing. *)
LEMMA SetLocalsEdit ==
  ASSUME NEW s \in SceneRecord, NEW values, DOMAIN values \subseteq Node,
         values \in [DOMAIN values -> Transform]
  PROVE  LET result == set_locals(s, values)
         IN  /\ EditOf(s, result.scene)
             /\ result.error = "none" <=> Cardinality(DOMAIN values) <= MaxRevision - s.revision
             /\ result.error = "none" =>
                  /\ result.scene.dirty = s.dirty \union DOMAIN values
                  /\ result.scene.revision = s.revision + Cardinality(DOMAIN values)
             /\ result.scene.next_tick = s.next_tick /\ result.scene.motion = s.motion
<1> DEFINE g == Granted(s, DOMAIN values)
           written == [s EXCEPT !.local = [n \in Node |-> IF n \in g THEN values[n] ELSE @[n]],
                                !.dirty = @ \union g, !.revision = @ + Cardinality(g)]
           result == set_locals(s, values)
<1>1. s.revision \in 0 .. MaxRevision BY DEF SceneRecord
<1>2. /\ g \subseteq DOMAIN values /\ Cardinality(g) \in 0 .. MaxRevision - s.revision
      /\ g = DOMAIN values <=> Cardinality(DOMAIN values) <= MaxRevision - s.revision
  BY <1>1, GrantedCount
<1>3. result = IF g = DOMAIN values THEN Ok(written) ELSE Refuse(written, "revision_exhausted")
  BY DEF set_locals
<1> HIDE DEF g
<1>4. s.revision + Cardinality(g) \in 0 .. MaxRevision /\ s.revision <= s.revision + Cardinality(g)
  BY <1>1, <1>2, StepAssumption
<1>5. EditOf(s, written) /\ written.next_tick = s.next_tick /\ written.motion = s.motion
      /\ written.dirty = s.dirty \union g /\ written.revision = s.revision + Cardinality(g)
  BY <1>2, <1>4 DEF EditOf, SceneRecord
<1> HIDE DEF written, result
<1>6. result.scene = written /\ (result.error = "none" <=> g = DOMAIN values)
  BY <1>3 DEF Ok, Refuse
<1> QED BY <1>2, <1>5, <1>6 DEF result

(* evaluate_transforms is an evaluation, or refused without a change.       *)
LEMMA EvaluateScene ==
  ASSUME NEW s \in SceneRecord
  PROVE  LET result == evaluate_transforms(s)
         IN  /\ result.error # "none" => result.scene = s /\ result.error = "revision_exhausted"
             /\ result.error = "none" => EvaluationOf(s, result.scene, result.changed)
             /\ result.error = "none" <=> (s.dirty = {} \/ s.revision < MaxRevision)
             /\ result.scene.local = s.local /\ result.scene.motion = s.motion
             /\ result.scene.next_tick = s.next_tick
<1> DEFINE result == evaluate_transforms(s)
<1>0. s.dirty \subseteq Node /\ s.local \in [Node -> Transform] /\ s.world \in [Node -> Transform]
      /\ s.world_revision \in [Node -> Nat] /\ s.revision \in Nat /\ s.revision <= MaxRevision
  BY StepAssumption DEF SceneRecord
<1>1. CASE s.dirty = {}
  <2>1. result = Ok(s) BY <1>1 DEF evaluate_transforms
  <2>2. Affected(s) = {} BY <1>1 DEF Affected
  <2> QED BY <1>0, <1>1, <2>1, <2>2 DEF Ok, EvaluationOf
<1>2. CASE s.dirty # {} /\ ~revision_available(s)
  <2>1. result = Refuse(s, "revision_exhausted") BY <1>2 DEF evaluate_transforms
  <2> QED BY <1>2, <2>1 DEF Refuse, revision_available
<1>3. CASE s.dirty # {} /\ revision_available(s)
  <2> DEFINE w == EvaluatedWorlds(s)
             a == Affected(s)
             u == [s EXCEPT !.world = w, !.dirty = {}, !.revision = @ + 1,
                            !.world_revision = [n \in Node |-> IF n \in a THEN s.revision + 1 ELSE @[n]]]
  <2>1. result = [scene |-> u, error |-> "none", changed |-> a]
    BY <1>3 DEF evaluate_transforms
  <2>2. /\ w \in [Node -> Transform]
        /\ \A n \in Node : w[n] = IF n \notin a THEN s.world[n]
                                  ELSE IF Parent[n] = NoNode THEN s.local[n]
                                  ELSE Compose(w[Parent[n]], s.local[n])
    BY <1>0, EvaluatedRec
  <2>3. /\ a \subseteq Node
        /\ \A n \in Node : n \notin a /\ Parent[n] # NoNode => Parent[n] \notin a
    BY <1>0, AffectedFacts
  <2>4. s.revision + 1 \in 0 .. MaxRevision /\ s.revision < s.revision + 1 /\ s.revision < MaxRevision
    BY <1>0, <1>3, StepAssumption DEF revision_available
  <2> HIDE DEF w
  <2>5. /\ u \in SceneRecord
        /\ u.world = w /\ u.dirty = {} /\ u.revision = s.revision + 1 /\ u.local = s.local
        /\ u.motion = s.motion /\ u.next_tick = s.next_tick
        /\ \A n \in Node : u.world_revision[n] = IF n \in a THEN s.revision + 1
                                                 ELSE s.world_revision[n]
    <3> DEFINE r == [n \in Node |-> IF n \in a THEN s.revision + 1 ELSE s.world_revision[n]]
    <3>1. r \in [Node -> Nat] /\ \A n \in Node : r[n] = IF n \in a THEN s.revision + 1
                                                        ELSE s.world_revision[n]
      BY <1>0
    <3>2. u = [s EXCEPT !.world = w, !.dirty = {}, !.revision = @ + 1, !.world_revision = r]
      BY DEF SceneRecord
    <3> HIDE DEF r, u
    <3> QED BY <1>0, <2>2, <2>4, <3>1, <3>2 DEF SceneRecord
  <2> HIDE DEF u, a
  <2>6. ASSUME Coherent(s) PROVE Coherent(u)
    <3> SUFFICES ASSUME NEW n \in Node
                 PROVE  w[n] = IF Parent[n] = NoNode THEN s.local[n] ELSE Compose(w[Parent[n]], s.local[n])
      BY <2>5 DEF Coherent
    <3>1. CASE n \in a BY <3>1, <2>2
    <3>2. CASE n \notin a
      <4>1. w[n] = s.world[n] /\ (Parent[n] # NoNode => w[Parent[n]] = s.world[Parent[n]])
        BY <3>2, <2>2, <2>3, Forest
      <4> QED BY <3>2, <4>1, <2>6 DEF Coherent, a
    <3> QED BY <3>1, <3>2
  <2>7. EvaluationOf(s, u, a)
    BY <1>0, <2>2, <2>3, <2>4, <2>5, <2>6 DEF EvaluationOf, a
  <2>8. result.scene = u /\ result.error = "none" /\ result.changed = a
    BY <2>1
  <2> HIDE DEF result
  <2> QED BY <2>4, <2>5, <2>7, <2>8 DEF result
<1> QED BY <1>1, <1>2, <1>3

(* The result of evaluate_transforms is a record of three fields.           *)
LEMMA EvaluateShape ==
  ASSUME NEW s
  PROVE  LET result == evaluate_transforms(s)
         IN  result = [scene |-> result.scene, error |-> result.error, changed |-> result.changed]
BY DEF evaluate_transforms, Ok, Refuse

(* The parts of an admitted step.                                           *)
LEMMA StepParts ==
  ASSUME NEW s \in SceneRecord
  PROVE  /\ head_room(s) <=> admitted_step(s).error = "none"
         /\ admitted_step(s).error = "none" =>
              EvaluationOf(s, admitted_step(s).scene, admitted_step(s).changed)
<1> DEFINE active == Active(s)
           values == [n \in active |-> integrate(s.local[n], s.motion[n])]
           moved == integrated_locals(s)
           m == moved.scene
           evaluated == evaluate_transforms(m)
           e == evaluated.scene
<1>1. active \subseteq Node /\ DOMAIN values = active /\ values \in [active -> Transform]
  <2>1. ASSUME NEW n \in active PROVE integrate(s.local[n], s.motion[n]) \in Transform
    <3>1. s.local[n] \in Transform /\ s.motion[n] \in Motion
      BY DEF Active, SceneRecord
    <3> QED BY <3>1, StepAssumption
  <2>2. active \subseteq Node BY DEF Active
  <2> HIDE DEF active
  <2> QED BY <2>1, <2>2
<1>2. moved = set_locals(s, values)
  BY DEF integrated_locals
<1>3. Cardinality(active) \in Nat /\ (active = {} <=> Cardinality(active) = 0)
  BY <1>1, Forest, FS_Subset, FS_CardinalityType, FS_EmptySet
<1> HIDE DEF active, values
<1>4. /\ EditOf(s, m)
      /\ moved.error = "none" <=> Cardinality(active) <= MaxRevision - s.revision
      /\ moved.error = "none" => m.dirty = s.dirty \union active
                                 /\ m.revision = s.revision + Cardinality(active)
  BY <1>1, <1>2, SetLocalsEdit
<1> HIDE DEF moved
<1>5. m \in SceneRecord /\ s.revision \in Nat /\ MaxRevision \in Nat
  BY <1>4, StepAssumption DEF EditOf, SceneRecord
<1>6. /\ evaluated = [scene |-> e, error |-> evaluated.error, changed |-> evaluated.changed]
      /\ evaluated.error = "none" => EvaluationOf(m, e, evaluated.changed)
      /\ evaluated.error = "none" <=> (m.dirty = {} \/ m.revision < MaxRevision)
  <2> HIDE DEF m
  <2> QED BY <1>5, EvaluateScene, EvaluateShape
<1>7. admitted_step(s) = IF moved.error # "none" THEN moved
                         ELSE IF evaluated.error # "none" THEN evaluated
                         ELSE [evaluated EXCEPT !.scene.next_tick = @ + 1]
  BY DEF admitted_step, moved
<1> HIDE DEF evaluated, e, m
<1> DEFINE final == [e EXCEPT !.next_tick = @ + 1]
<1>8. ASSUME moved.error = "none", evaluated.error = "none"
      PROVE  admitted_step(s) = [scene |-> final, error |-> "none", changed |-> evaluated.changed]
  BY <1>6, <1>7, <1>8
<1>9. admitted_step(s).error = "none" <=> moved.error = "none" /\ evaluated.error = "none"
  BY <1>7, <1>8
<1>10. head_room(s) <=> admitted_step(s).error = "none"
  <2>1. head_room(s) <=>
          /\ Cardinality(active) <= MaxRevision - s.revision
          /\ s.dirty # {} \/ active # {} => (MaxRevision - s.revision) - Cardinality(active) # 0
    BY DEF head_room, active
  <2>2. CASE moved.error # "none"
    BY <2>1, <2>2, <1>4, <1>9
  <2>3. CASE moved.error = "none"
    <3>1. (evaluated.error = "none") <=>
             ((s.dirty = {} /\ active = {}) \/ s.revision + Cardinality(active) < MaxRevision)
      BY <2>3, <1>4, <1>6
    <3>2. s.revision + Cardinality(active) < MaxRevision
            <=> (MaxRevision - s.revision) - Cardinality(active) # 0
      BY <2>3, <1>3, <1>4, <1>5
    <3> QED BY <2>1, <2>3, <3>1, <3>2, <1>4, <1>9
  <2> QED BY <2>2, <2>3
<1>11. ASSUME admitted_step(s).error = "none"
       PROVE  EvaluationOf(s, final, evaluated.changed)
  <2>1. EvaluationOf(m, e, evaluated.changed)
    BY <1>6, <1>9, <1>11
  <2>2. e \in SceneRecord BY <2>1 DEF EvaluationOf
  <2>3. /\ final \in SceneRecord /\ final.dirty = e.dirty /\ final.world = e.world
        /\ final.world_revision = e.world_revision /\ final.revision = e.revision
        /\ final.local = e.local
    BY <2>2 DEF SceneRecord
  <2> HIDE DEF final
  <2>4. Affected(s) \subseteq Affected(m)
    BY <1>4 DEF EditOf, Affected
  <2>5. Coherent(s) => Coherent(m) BY <1>4, EditCoherent
  <2>6. Affected(final) = Affected(e) BY <2>3 DEF Affected
  <2>7. Coherent(e) => Coherent(final) BY <2>3, <2>6 DEF Coherent
  <2>8. s.revision <= m.revision /\ m.revision \in Nat /\ e.revision \in Nat
    BY <1>4, <1>5, <2>2, StepAssumption DEF EditOf, SceneRecord
  <2> QED
    BY <1>4, <1>5, <2>1, <2>3, <2>4, <2>5, <2>7, <2>8 DEF EditOf, EvaluationOf
<1> QED BY <1>8, <1>9, <1>10, <1>11

(* A step is taken whole or refused.                                        *)
LEMMA AdvanceScene ==
  ASSUME NEW s \in SceneRecord
  PROVE  LET result == advance_motion_scene(s)
         IN  /\ result.error # "none" => result.scene = s
             /\ result.error = "none" => EvaluationOf(s, result.scene, result.changed)
<1>1. CASE step_error(s) # "none"
  BY <1>1 DEF advance_motion_scene, Refuse
<1>2. CASE step_error(s) = "none"
  <2>1. advance_motion_scene(s) = admitted_step(s) BY <1>2 DEF advance_motion_scene
  <2>2. head_room(s) BY <1>2 DEF step_error
  <2> QED BY <2>1, <2>2, StepParts
<1> QED BY <1>1, <1>2

--------------------------------------------------------------------------------
(* The SceneInstance.                                                       *)

Instance ==
  [scene : SceneRecord, bindings : [Node -> Entity \union {NoEntity}],
   toNode : [Entity -> Node \union {NoNode}], active : BOOLEAN, accumulator : Int,
   changes : SUBSET Node, stamp : [Node -> Nat], epoch : 1 .. EpochWidth - 1, valid : BOOLEAN,
   synced : Nat]

(* A node with the stamp of the current epoch is in the batch, and no stamp *)
(* is of a later epoch.                                                     *)
Stamped(t) ==
  \A n \in Node : t.stamp[n] <= t.epoch /\ (t.stamp[n] = t.epoch => n \in t.changes)

RevisionAhead(t) ==
  t.synced <= t.scene.revision /\ \A n \in Node : t.scene.world_revision[n] <= t.scene.revision

BatchExact(t) ==
  t.valid => t.changes = {n \in Node : t.scene.world_revision[n] > t.synced}

Agrees(t) == \A e \in Entity, n \in Node : t.bindings[n] = e <=> t.toNode[e] = n

Good(t) ==
  t \in Instance /\ Stamped(t) /\ RevisionAhead(t) /\ BatchExact(t) /\ Coherent(t.scene) /\ Agrees(t)

(* A bound entity shows the world of its node, or that world is still to be *)
(* written, or still to be evaluated, or revisions have run out.            *)
ShownUpTo(t, sh) ==
  \A n \in Node : t.bindings[n] # NoEntity =>
    \/ sh[t.bindings[n]] = Compose(t.scene.world[n], Offset[t.bindings[n]])
    \/ t.scene.world_revision[n] > t.synced
    \/ n \in Affected(t.scene)
    \/ t.scene.revision = MaxRevision

(* u is t with its scene edited and the slots' bindings changed; what is    *)
(* newly bound is dirty.                                                    *)
InstanceEdit(t, u) ==
  /\ u \in Instance /\ EditOf(t.scene, u.scene)
  /\ u.changes = t.changes /\ u.stamp = t.stamp /\ u.epoch = t.epoch /\ u.valid = t.valid
  /\ u.synced = t.synced
  /\ \A n \in Node : u.bindings[n] # NoEntity =>
       u.bindings[n] = t.bindings[n] \/ n \in u.scene.dirty \/ u.scene.revision = MaxRevision

(* An edit of the instance keeps it good and its entities shown.            *)
LEMMA EditKeeps ==
  ASSUME NEW t, NEW u, NEW sh, Good(t), InstanceEdit(t, u), Agrees(u)
  PROVE  Good(u) /\ (ShownUpTo(t, sh) => ShownUpTo(u, sh))
<1> DEFINE s == t.scene
           v == u.scene
<1>1. s \in SceneRecord /\ v \in SceneRecord /\ EditOf(s, v) /\ u \in Instance
  BY DEF Good, Instance, InstanceEdit, EditOf
<1> HIDE DEF s, v
<1>2. /\ v.world = s.world /\ v.world_revision = s.world_revision
      /\ s.revision <= v.revision /\ s.revision \in 0 .. MaxRevision /\ v.revision \in 0 .. MaxRevision
      /\ s.world_revision \in [Node -> Nat]
  BY <1>1 DEF EditOf, SceneRecord
<1>3. Coherent(v) /\ Affected(s) \subseteq Affected(v)
  BY <1>1, EditCoherent DEF Good, s
<1>4. v.dirty \subseteq Affected(v)
  BY <1>1, AffectedFacts DEF SceneRecord
<1>5. t.synced \in Nat BY DEF Good, Instance
<1>6. Stamped(u) BY DEF Good, Stamped, InstanceEdit
<1>7. BatchExact(u) BY <1>2 DEF Good, BatchExact, InstanceEdit, s, v
<1>8. RevisionAhead(u)
  BY <1>2, <1>5, StepAssumption DEF Good, RevisionAhead, InstanceEdit, s, v
<1>9. ASSUME ShownUpTo(t, sh) PROVE ShownUpTo(u, sh)
  <2> SUFFICES ASSUME NEW n \in Node, u.bindings[n] # NoEntity,
                      n \notin Affected(v), v.revision # MaxRevision
               PROVE  \/ sh[u.bindings[n]] = Compose(v.world[n], Offset[u.bindings[n]])
                      \/ v.world_revision[n] > u.synced
    BY DEF ShownUpTo, v
  <2>1. u.bindings[n] = t.bindings[n] /\ u.synced = t.synced
    BY <1>4 DEF InstanceEdit, v
  <2>2. n \notin Affected(s) /\ s.revision # MaxRevision
    BY <1>2, <1>3, StepAssumption
  <2> QED BY <1>2, <1>9, <2>1, <2>2 DEF ShownUpTo, s
<1> QED BY <1>1, <1>3, <1>6, <1>7, <1>8, <1>9 DEF Good, v

(* Taking the result of an evaluation, or of a refused one, does so too.    *)
LEMMA TakeKeeps ==
  ASSUME NEW t, NEW sh, Good(t), NEW result,
         result.error # "none" => result.scene = t.scene,
         result.error = "none" => EvaluationOf(t.scene, result.scene, result.changed)
  PROVE  LET u == TakeResult(t, result)
         IN  /\ Good(u) /\ (ShownUpTo(t, sh) => ShownUpTo(u, sh))
             /\ u.scene = result.scene /\ u.bindings = t.bindings /\ u.active = t.active
             /\ u.synced = t.synced
<1> DEFINE u == TakeResult(t, result)
<1>1. t \in Instance /\ t.scene \in SceneRecord BY DEF Good, Instance
<1>2. CASE result.error # "none"
  <2>1. u = [t EXCEPT !.valid = FALSE]
    BY <1>1, <1>2 DEF TakeResult, Instance
  <2>2. /\ u \in Instance /\ u.scene = t.scene /\ u.bindings = t.bindings /\ u.toNode = t.toNode
        /\ u.active = t.active /\ u.changes = t.changes /\ u.stamp = t.stamp /\ u.epoch = t.epoch
        /\ u.synced = t.synced /\ ~u.valid
    BY <1>1, <2>1 DEF Instance
  <2> HIDE DEF u
  <2>3. Good(u)
    BY <2>2 DEF Good, Stamped, RevisionAhead, BatchExact, Agrees
  <2>4. ShownUpTo(t, sh) => ShownUpTo(u, sh)
    BY <2>2 DEF ShownUpTo
  <2> QED BY <2>2, <2>3, <2>4, <1>2 DEF u
<1>3. CASE result.error = "none"
  <2> DEFINE v == result.scene
             changed == result.changed
             fresh == {n \in changed : t.stamp[n] # t.epoch}
             stamps == [n \in Node |-> IF n \in fresh THEN t.epoch ELSE t.stamp[n]]
  <2>1. EvaluationOf(t.scene, v, changed) BY <1>3
  <2>2. v \in SceneRecord /\ changed \subseteq Node BY <2>1 DEF EvaluationOf
  <2>3. u = [t EXCEPT !.scene = v, !.changes = @ \union fresh, !.stamp = stamps]
    BY <1>1, <1>3 DEF TakeResult, QueueEvaluated, Instance
  <2>4. stamps \in [Node -> Nat]
        /\ \A n \in Node : stamps[n] = IF n \in fresh THEN t.epoch ELSE t.stamp[n]
    BY <1>1, SyncAssumption DEF Instance
  <2>5. t.changes \union fresh \subseteq Node BY <1>1, <2>2 DEF Instance
  <2> HIDE DEF fresh, stamps, u, v, changed
  <2>6. /\ u \in Instance /\ u.scene = v /\ u.bindings = t.bindings /\ u.toNode = t.toNode
        /\ u.active = t.active /\ u.changes = t.changes \union fresh /\ u.stamp = stamps
        /\ u.epoch = t.epoch /\ u.synced = t.synced /\ u.valid = t.valid
    BY <1>1, <2>2, <2>3, <2>4, <2>5 DEF Instance
  <2>7. t.changes \union fresh = t.changes \union changed
    BY <2>2 DEF Good, Stamped, fresh
  <2>8. /\ t.scene.revision \in Nat /\ v.revision \in Nat /\ t.synced \in Nat
        /\ t.scene.revision <= v.revision /\ v.revision <= MaxRevision /\ MaxRevision \in Nat
        /\ t.scene.world_revision \in [Node -> Nat] /\ v.world_revision \in [Node -> Nat]
    BY <1>1, <2>1, <2>2, StepAssumption DEF SceneRecord, Instance, EvaluationOf
  <2>9. \A n \in Node : v.world_revision[n] > t.synced
                          <=> n \in changed \/ t.scene.world_revision[n] > t.synced
    BY <2>1, <2>2, <2>8 DEF Good, RevisionAhead, EvaluationOf
  <2>10. Stamped(u)
    <3> SUFFICES ASSUME NEW n \in Node
                 PROVE  stamps[n] <= t.epoch /\ (stamps[n] = t.epoch => n \in t.changes \union fresh)
      BY <2>6 DEF Stamped
    <3>1. t.epoch \in Nat BY <1>1, SyncAssumption DEF Instance
    <3> QED BY <2>4, <3>1 DEF Good, Stamped
  <2>11. RevisionAhead(u)
    BY <2>1, <2>6, <2>8 DEF Good, RevisionAhead, EvaluationOf
  <2>12. BatchExact(u)
    BY <2>6, <2>7, <2>9, <2>2 DEF Good, BatchExact
  <2>13. Coherent(v) BY <2>1 DEF Good, EvaluationOf
  <2>14. Agrees(u) BY <2>6 DEF Good, Agrees
  <2>15. ASSUME ShownUpTo(t, sh) PROVE ShownUpTo(u, sh)
    <3> SUFFICES ASSUME NEW n \in Node, t.bindings[n] # NoEntity
                 PROVE  \/ sh[t.bindings[n]] = Compose(v.world[n], Offset[t.bindings[n]])
                        \/ v.world_revision[n] > t.synced
                        \/ v.revision = MaxRevision
      BY <2>6 DEF ShownUpTo
    <3>1. CASE n \in changed BY <3>1, <2>9
    <3>2. CASE n \notin changed
      <4>1. n \notin Affected(t.scene) /\ v.world[n] = t.scene.world[n]
        BY <3>2, <2>1 DEF EvaluationOf
      <4>2. t.scene.revision = MaxRevision => v.revision = MaxRevision
        BY <2>8
      <4> QED BY <4>1, <4>2, <2>9, <2>15 DEF ShownUpTo
    <3> QED BY <3>1, <3>2
  <2> QED BY <2>6, <2>10, <2>11, <2>12, <2>13, <2>14, <2>15 DEF Good, u, v
<1> QED BY <1>2, <1>3

--------------------------------------------------------------------------------
(* Commands and writes.                                                     *)

(* u follows t: as good, entities as well shown.                            *)
Follows(t, u, sh) == Good(u) /\ (ShownUpTo(t, sh) => ShownUpTo(u, sh))

(* Only the scene is edited.                                                *)
LEMMA SceneEditKeeps ==
  ASSUME NEW t, NEW v, NEW sh, Good(t), EditOf(t.scene, v)
  PROVE  LET u == [t EXCEPT !.scene = v]
         IN  /\ Follows(t, u, sh) /\ u.bindings = t.bindings /\ u.scene = v
             /\ u.active = t.active /\ u.synced = t.synced
<1> DEFINE u == [t EXCEPT !.scene = v]
<1>1. t \in Instance /\ v \in SceneRecord BY DEF Good, EditOf
<1>2. /\ u \in Instance /\ u.scene = v /\ u.bindings = t.bindings /\ u.toNode = t.toNode
      /\ u.active = t.active /\ u.changes = t.changes /\ u.stamp = t.stamp
      /\ u.epoch = t.epoch /\ u.synced = t.synced /\ u.valid = t.valid
  BY <1>1 DEF Instance
<1> HIDE DEF u
<1>3. InstanceEdit(t, u) BY <1>2 DEF InstanceEdit
<1>4. Agrees(u) BY <1>2 DEF Good, Agrees
<1>5. Follows(t, u, sh) BY <1>3, <1>4, EditKeeps DEF Follows
<1> QED BY <1>2, <1>5 DEF u

(* Motions are no part of what is shown.                                    *)
LEMMA MotionEdit ==
  ASSUME NEW s \in SceneRecord, NEW motion \in [Node -> Motion \union {Still}]
  PROVE  EditOf(s, [s EXCEPT !.motion = motion])
<1> DEFINE u == [s EXCEPT !.motion = motion]
<1>1. /\ u \in SceneRecord /\ u.world = s.world /\ u.world_revision = s.world_revision
      /\ u.revision = s.revision /\ u.dirty = s.dirty /\ u.local = s.local
  BY DEF SceneRecord
<1>2. s.revision <= s.revision BY StepAssumption DEF SceneRecord
<1> HIDE DEF u
<1> QED BY <1>1, <1>2 DEF EditOf, u

(* An edit of an edit is an edit.                                           *)
LEMMA EditTransitive ==
  ASSUME NEW s \in SceneRecord, NEW u, NEW v, EditOf(s, u), EditOf(u, v)
  PROVE  EditOf(s, v)
<1>1. s.revision \in Nat /\ u.revision \in Nat /\ v.revision \in Nat
  BY StepAssumption DEF SceneRecord, EditOf
<1> QED BY <1>1 DEF EditOf

(* PlaceSlot writes the locals of the slot's roots.                         *)
LEMMA PlaceKeeps ==
  ASSUME NEW t, NEW sh, Good(t), NEW slot \in Slot, NEW value \in Transform
  PROVE  Follows(t, PlaceSlot(t, slot, value), sh) /\ PlaceSlot(t, slot, value).bindings = t.bindings
<1> DEFINE roots == {n \in NodesOf[slot] : IsRoot(n)}
           values == [n \in roots |-> Compose(value, InitialLocal[n])]
<1>1. roots \subseteq Node BY SyncAssumption
<1>2. DOMAIN values = roots /\ values \in [roots -> Transform]
  <2>1. ASSUME NEW n \in roots PROVE Compose(value, InitialLocal[n]) \in Transform
    <3>1. InitialLocal[n] \in Transform BY <1>1, SyncAssumption
    <3> QED BY <3>1, StepAssumption
  <2> HIDE DEF roots
  <2> QED BY <2>1
<1>3. PlaceSlot(t, slot, value) = [t EXCEPT !.scene = set_locals(t.scene, values).scene]
  BY DEF PlaceSlot, EditScene
<1>4. t.scene \in SceneRecord BY DEF Good, Instance
<1> HIDE DEF roots, values
<1> DEFINE v == set_locals(t.scene, values).scene
<1>5. EditOf(t.scene, v)
  BY <1>1, <1>2, <1>4, SetLocalsEdit
<1> HIDE DEF v
<1>6. LET u == [t EXCEPT !.scene = v] IN Follows(t, u, sh) /\ u.bindings = t.bindings
  BY <1>5, SceneEditKeeps
<1> QED BY <1>3, <1>6 DEF v

(* A local correction or write edits one node.                              *)
LEMMA LocalKeeps ==
  ASSUME NEW t, NEW sh, Good(t), NEW n \in Node, NEW value \in Transform
  PROVE  LET u == EditScene(t, set_local(t.scene, n, value))
         IN  Follows(t, u, sh) /\ u.bindings = t.bindings /\ u.active = t.active /\ u.synced = t.synced
             /\ u.scene = set_local(t.scene, n, value).scene
<1>1. t.scene \in SceneRecord BY DEF Good, Instance
<1>2. EditOf(t.scene, set_local(t.scene, n, value).scene) BY <1>1, SetLocalEdit
<1> QED BY <1>2, SceneEditKeeps DEF EditScene

(* EvaluateDirty takes the result of a full evaluation.                     *)
LEMMA EvaluateKeeps ==
  ASSUME NEW t, NEW sh, Good(t)
  PROVE  LET u == EvaluateDirty(t)
         IN  Follows(t, u, sh) /\ u.bindings = t.bindings /\ u.active = t.active
             /\ u.synced = t.synced /\ u.scene = evaluate_transforms(t.scene).scene
<1>1. t.scene \in SceneRecord BY DEF Good, Instance
<1> DEFINE result == evaluate_transforms(t.scene)
<1>2. /\ result.error # "none" => result.scene = t.scene
      /\ result.error = "none" => EvaluationOf(t.scene, result.scene, result.changed)
  BY <1>1, EvaluateScene
<1> HIDE DEF result
<1>3. LET u == TakeResult(t, result)
      IN  /\ Good(u) /\ (ShownUpTo(t, sh) => ShownUpTo(u, sh))
          /\ u.scene = result.scene /\ u.bindings = t.bindings /\ u.active = t.active
          /\ u.synced = t.synced
  BY <1>2, TakeKeeps
<1> QED BY <1>3 DEF EvaluateDirty, Follows, result

(* The transform a world correction writes.                                 *)
LEMMA LocalForType ==
  ASSUME NEW t, Good(t), NEW n \in Node, NEW world \in Transform
  PROVE  LocalFor(t, n, world) \in Transform
<1>1. t.scene.world \in [Node -> Transform] BY DEF Good, Instance, SceneRecord
<1>2. CASE IsRoot(n) BY <1>2 DEF LocalFor
<1>3. CASE ~IsRoot(n)
  <2>1. Parent[n] \in Node BY <1>3, Forest DEF IsRoot
  <2>2. GetInverse(t.scene.world[Parent[n]]) \in Transform BY <1>1, <2>1, SyncAssumption
  <2>3. Compose(GetInverse(t.scene.world[Parent[n]]), world) \in Transform
    BY <2>2, StepAssumption
  <2> QED BY <1>3, <2>3 DEF LocalFor
<1> QED BY <1>2, <1>3

(* A world correction evaluates what is dirty and edits one node.           *)
LEMMA CorrectWorldKeeps ==
  ASSUME NEW t, NEW sh, Good(t), NEW n \in Node, NEW value \in Transform
  PROVE  Follows(t, CorrectWorld(t, n, value), sh) /\ CorrectWorld(t, n, value).bindings = t.bindings
<1> DEFINE u == IF t.scene.dirty # {} THEN EvaluateDirty(t) ELSE t
<1>1. Follows(t, u, sh) /\ u.bindings = t.bindings
  BY EvaluateKeeps DEF Follows
<1>2. CorrectWorld(t, n, value) = EditScene(u, set_local(u.scene, n, LocalFor(u, n, value)))
  BY DEF CorrectWorld
<1> HIDE DEF u
<1>3. Good(u) BY <1>1 DEF Follows
<1>4. LocalFor(u, n, value) \in Transform BY <1>3, LocalForType
<1>5. LET w == CorrectWorld(t, n, value) IN Follows(u, w, sh) /\ w.bindings = u.bindings
  BY <1>2, <1>3, <1>4, LocalKeeps
<1> QED BY <1>1, <1>5 DEF Follows

(* SetActive stops the motions of a scene that goes inactive.               *)
LEMMA ActiveKeeps ==
  ASSUME NEW t, NEW sh, Good(t), NEW active \in BOOLEAN
  PROVE  Follows(t, SetActive(t, active), sh) /\ SetActive(t, active).bindings = t.bindings
<1> DEFINE motion == IF active THEN t.scene.motion ELSE [n \in Node |-> Still]
           v == [t.scene EXCEPT !.motion = motion]
           accumulator == IF active THEN t.accumulator ELSE 0
           u == SetActive(t, active)
<1>1. t \in Instance /\ t.scene \in SceneRecord BY DEF Good, Instance
<1>2. motion \in [Node -> Motion \union {Still}] /\ accumulator \in Int
  BY <1>1 DEF Instance, SceneRecord
<1>3. u = [t EXCEPT !.active = active, !.accumulator = accumulator, !.scene = v]
  BY <1>1 DEF SetActive, Instance
<1> HIDE DEF motion, accumulator
<1>4. EditOf(t.scene, v) BY <1>1, <1>2, MotionEdit
<1> HIDE DEF v, u
<1>5. v \in SceneRecord BY <1>4 DEF EditOf
<1>6. /\ u \in Instance /\ u.scene = v /\ u.bindings = t.bindings /\ u.toNode = t.toNode
      /\ u.changes = t.changes /\ u.stamp = t.stamp
      /\ u.epoch = t.epoch /\ u.synced = t.synced /\ u.valid = t.valid
  BY <1>1, <1>2, <1>3, <1>5 DEF Instance
<1>7. InstanceEdit(t, u) BY <1>4, <1>6 DEF InstanceEdit
<1>8. Agrees(u) BY <1>6 DEF Good, Agrees
<1>9. Follows(t, u, sh) BY <1>7, <1>8, EditKeeps DEF Follows
<1> QED BY <1>6, <1>9 DEF u

(* An unbind forgets the entities of the slot in both tables.               *)
LEMMA UnbindKeeps ==
  ASSUME NEW t, NEW sh, Good(t), NEW slot \in Slot
  PROVE  LET u == UnbindSlot(t, slot)
         IN  /\ Follows(t, u, sh) /\ u.scene = t.scene
             /\ \A n \in Node : u.bindings[n] \in {t.bindings[n], NoEntity}
<1> DEFINE u == UnbindSlot(t, slot)
           bound == {t.bindings[n] : n \in NodesOf[slot]}
           bindings == [n \in Node |-> IF n \in NodesOf[slot] THEN NoEntity ELSE t.bindings[n]]
           toNode == [e \in Entity |-> IF e \in bound THEN NoNode ELSE t.toNode[e]]
<1>1. t \in Instance BY DEF Good
<1>2. bindings \in [Node -> Entity \union {NoEntity}] /\ toNode \in [Entity -> Node \union {NoNode}]
  BY <1>1 DEF Instance
<1>3. u = [t EXCEPT !.bindings = bindings, !.toNode = toNode]
  BY <1>1 DEF UnbindSlot, Instance
<1>4. ASSUME NEW e \in Entity, NEW n \in Node
      PROVE  bindings[n] = e <=> toNode[e] = n
  <2>1. NoEntity # e /\ NoNode # n /\ NodesOf[slot] \subseteq Node
    BY SyncAssumption, StepAssumption
  <2>2. t.bindings[n] = e <=> t.toNode[e] = n
    BY DEF Good, Agrees
  <2>3. e \in bound <=> \E m \in NodesOf[slot] : t.toNode[e] = m
    BY <2>1 DEF Good, Agrees
  <2> QED BY <2>1, <2>2, <2>3
<1>5. \A n \in Node : bindings[n] \in {t.bindings[n], NoEntity}
  OBVIOUS
<1> HIDE DEF u, bindings, toNode
<1>6. /\ u \in Instance /\ u.scene = t.scene /\ u.bindings = bindings /\ u.toNode = toNode
      /\ u.changes = t.changes /\ u.stamp = t.stamp
      /\ u.epoch = t.epoch /\ u.synced = t.synced /\ u.valid = t.valid
  BY <1>1, <1>2, <1>3 DEF Instance
<1>7. EditOf(t.scene, t.scene)
  <2>1. t.scene \in SceneRecord /\ t.scene.revision <= t.scene.revision
    BY <1>1, StepAssumption DEF Instance, SceneRecord
  <2> QED BY <2>1 DEF EditOf
<1>8. InstanceEdit(t, u) BY <1>5, <1>6, <1>7 DEF InstanceEdit
<1>9. Agrees(u) BY <1>4, <1>6 DEF Agrees
<1>10. Follows(t, u, sh) BY <1>8, <1>9, EditKeeps DEF Follows
<1> QED BY <1>5, <1>6, <1>10 DEF u

(* ClearSlot unbinds, stops and goes back to the initial locals.            *)
LEMMA ResetKeeps ==
  ASSUME NEW t, NEW sh, Good(t), NEW slot \in Slot
  PROVE  LET u == ResetSlot(t, slot)
         IN  /\ Follows(t, u, sh)
             /\ \A n \in Node : u.bindings[n] \in {t.bindings[n], NoEntity}
<1> DEFINE motion == [n \in Node |-> IF n \in NodesOf[slot] THEN Still ELSE t.scene.motion[n]]
           stopped == [t.scene EXCEPT !.motion = motion]
           values == [n \in NodesOf[slot] |-> InitialLocal[n]]
           w == UnbindSlot(t, slot)
           v == set_locals(stopped, values).scene
<1>1. t.scene \in SceneRecord BY DEF Good, Instance
<1>2. motion \in [Node -> Motion \union {Still}]
      /\ DOMAIN values \subseteq Node /\ values \in [DOMAIN values -> Transform]
  BY <1>1, SyncAssumption DEF SceneRecord
<1>3. ResetSlot(t, slot) = [w EXCEPT !.scene = v]
  BY <1>1 DEF ResetSlot, EditScene, SceneRecord
<1> HIDE DEF motion, values
<1>4. EditOf(t.scene, stopped) BY <1>1, <1>2, MotionEdit
<1> HIDE DEF stopped
<1>5. stopped \in SceneRecord BY <1>4 DEF EditOf
<1>6. EditOf(stopped, v) BY <1>2, <1>5, SetLocalsEdit
<1> HIDE DEF v
<1>7. EditOf(t.scene, v) BY <1>1, <1>4, <1>6, EditTransitive
<1>8. /\ Follows(t, w, sh) /\ w.scene = t.scene
      /\ \A n \in Node : w.bindings[n] \in {t.bindings[n], NoEntity}
  BY UnbindKeeps
<1> HIDE DEF w
<1>9. LET u == [w EXCEPT !.scene = v] IN Follows(w, u, sh) /\ u.bindings = w.bindings
  BY <1>7, <1>8, SceneEditKeeps DEF Follows
<1> QED BY <1>3, <1>8, <1>9 DEF Follows

(* A bind that finds its slot unbound.                                      *)
LEMMA BindKeeps ==
  ASSUME NEW t, NEW sh, Good(t), NEW slot \in Slot, NEW binding,
         binding \in [DOMAIN binding -> Entity],
         \A n \in NodesOf[slot] : t.bindings[n] = NoEntity
  PROVE  LET u == BindSlot(t, slot, binding)
         IN  /\ Follows(t, u, sh)
             /\ \A n \in Node \ NodesOf[slot] : u.bindings[n] = t.bindings[n]
<1> DEFINE u == BindSlot(t, slot, binding)
<1>1. t \in Instance /\ t.scene \in SceneRecord BY DEF Good, Instance
<1>2. CASE ~BindAccepted(t, slot, binding)
  BY <1>2 DEF BindSlot, Follows
<1>3. CASE BindAccepted(t, slot, binding)
  <2> DEFINE bindings == [n \in Node |-> IF n \in NodesOf[slot] THEN binding[n] ELSE t.bindings[n]]
             Holder(e) == CHOOSE n \in NodesOf[slot] : binding[n] = e
             toNode == [e \in Entity |-> IF t.toNode[e] = NoNode /\ e \in Range(binding)
                                         THEN Holder(e) ELSE t.toNode[e]]
             v == mark_each(t.scene, NodesOf[slot])
  <2>1. NodesOf[slot] \subseteq Node /\ DOMAIN binding = NodesOf[slot]
        /\ t.bindings \in [Node -> Entity \union {NoEntity}]
        /\ t.toNode \in [Entity -> Node \union {NoNode}]
    BY <1>1, <1>3, SyncAssumption DEF BindAccepted, Instance
  <2>2. u = [t EXCEPT !.active = TRUE, !.bindings = bindings, !.toNode = toNode, !.scene = v]
    BY <1>1, <1>3 DEF BindSlot, Instance
  <2>3. /\ bindings \in [Node -> Entity \union {NoEntity}]
        /\ \A n \in Node : bindings[n] = IF n \in NodesOf[slot] THEN binding[n] ELSE t.bindings[n]
    BY <2>1
  <2>4. ASSUME NEW n \in NodesOf[slot] PROVE binding[n] \in Entity /\ Holder(binding[n]) = n
    <3>1. \A m \in NodesOf[slot] : binding[m] = binding[n] => m = n
      BY <1>3, <2>1 DEF BindAccepted, IsInjective
    <3> QED BY <2>1, <3>1
  <2>5. ASSUME NEW e \in Entity PROVE e \in Range(binding) <=> \E n \in NodesOf[slot] : binding[n] = e
    BY <2>1 DEF Range
  <2>6. ASSUME NEW e \in Entity, e \in Range(binding) PROVE t.toNode[e] = NoNode
    <3>1. PICK n \in NodesOf[slot] : binding[n] = e BY <2>5, <2>6
    <3>2. ASSUME t.toNode[e] \in Node PROVE FALSE
      <4>1. t.bindings[t.toNode[e]] = e BY <3>2 DEF Good, Agrees
      <4>2. t.toNode[e] \in NodesOf[slot] BY <3>1, <3>2, <4>1, <1>3 DEF BindAccepted
      <4>3. t.bindings[t.toNode[e]] = NoEntity BY <4>2
      <4> QED BY <4>1, <4>3, SyncAssumption
    <3> QED BY <2>1, <3>2
  <2>7. \A e \in Entity : toNode[e] = IF e \in Range(binding) THEN Holder(e) ELSE t.toNode[e]
    BY <2>6
  <2> HIDE DEF Holder, bindings
  <2>8. toNode \in [Entity -> Node \union {NoNode}]
    <3> SUFFICES ASSUME NEW e \in Entity PROVE toNode[e] \in Node \union {NoNode}
      OBVIOUS
    <3>1. CASE e \in Range(binding)
      <4>1. PICK n \in NodesOf[slot] : binding[n] = e BY <2>5, <3>1
      <4>2. Holder(e) = n BY <4>1, <2>4
      <4> QED BY <2>1, <2>7, <3>1, <4>2
    <3>2. CASE e \notin Range(binding) BY <2>1, <2>7, <3>2
    <3> QED BY <3>1, <3>2
  <2> HIDE DEF toNode
  <2>9. ASSUME NEW e \in Entity, NEW n \in Node PROVE bindings[n] = e <=> toNode[e] = n
    <3>0. t.bindings[n] = e <=> t.toNode[e] = n BY DEF Good, Agrees
    <3>1. CASE e \in Range(binding)
      <4>1. PICK m \in NodesOf[slot] : binding[m] = e BY <2>5, <3>1
      <4>2. toNode[e] = m BY <3>1, <4>1, <2>4, <2>7
      <4>3. n \notin NodesOf[slot] => t.bindings[n] # e
        BY <4>1, <1>3 DEF BindAccepted
      <4>4. n \in NodesOf[slot] /\ binding[n] = e => n = m
        BY <4>1, <2>4
      <4> QED BY <4>1, <4>2, <4>3, <4>4, <2>3
    <3>2. CASE e \notin Range(binding)
      <4>1. toNode[e] = t.toNode[e] BY <3>2, <2>7
      <4>2. n \in NodesOf[slot] => binding[n] # e BY <3>2, <2>5
      <4>3. n \in NodesOf[slot] => t.bindings[n] # e BY SyncAssumption
      <4> QED BY <3>0, <4>1, <4>2, <4>3, <2>3
    <3> QED BY <3>1, <3>2
  <2>10. EditOf(t.scene, v) /\ (NodesOf[slot] \subseteq v.dirty \/ v.revision = MaxRevision)
    BY <1>1, <2>1, MarkEachEdit
  <2> HIDE DEF v, u
  <2>11. v \in SceneRecord BY <2>10 DEF EditOf
  <2>12. /\ u \in Instance /\ u.scene = v /\ u.bindings = bindings /\ u.toNode = toNode
         /\ u.changes = t.changes /\ u.stamp = t.stamp
         /\ u.epoch = t.epoch /\ u.synced = t.synced /\ u.valid = t.valid
    BY <1>1, <2>2, <2>3, <2>8, <2>11 DEF Instance
  <2>13. InstanceEdit(t, u) BY <2>3, <2>10, <2>12 DEF InstanceEdit
  <2>14. Agrees(u) BY <2>9, <2>12 DEF Agrees
  <2>15. Follows(t, u, sh) BY <2>13, <2>14, EditKeeps DEF Follows
  <2> QED BY <2>3, <2>12, <2>15 DEF u
<1> QED BY <1>2, <1>3

(* Every command keeps the instance good, and binds its own slot at most.   *)
LEMMA ProcessKeeps ==
  ASSUME NEW t, NEW sh, Good(t), NEW c \in Commands,
         c.op = "bind" => \A n \in NodesOf[c.slot] : t.bindings[n] = NoEntity
  PROVE  LET u == Process(t, c)
         IN  /\ Follows(t, u, sh)
             /\ \A n \in Node : u.bindings[n] \in {t.bindings[n], NoEntity}
                                \/ (c.op = "bind" /\ n \in NodesOf[c.slot])
<1>1. CASE c.op = "place"
  <2>1. Process(t, c) = PlaceSlot(t, c.slot, c.value) BY <1>1 DEF Process
  <2>2. c.slot \in Slot /\ c.value \in Transform BY <1>1, ClientAssumption
  <2> QED BY <2>1, <2>2, PlaceKeeps
<1>2. CASE c.op = "bind"
  <2>1. Process(t, c) = BindSlot(t, c.slot, c.binding) BY <1>2 DEF Process
  <2>2. c.slot \in Slot /\ c.binding \in [DOMAIN c.binding -> Entity] BY <1>2, ClientAssumption
  <2>3. LET u == BindSlot(t, c.slot, c.binding)
        IN  /\ Follows(t, u, sh)
            /\ \A n \in Node \ NodesOf[c.slot] : u.bindings[n] = t.bindings[n]
    BY <1>2, <2>2, BindKeeps
  <2> QED BY <1>2, <2>1, <2>3
<1>3. CASE c.op = "unbind"
  <2>1. Process(t, c) = UnbindSlot(t, c.slot) BY <1>3 DEF Process
  <2>2. c.slot \in Slot BY <1>3, ClientAssumption
  <2> QED BY <2>1, <2>2, UnbindKeeps
<1>4. CASE c.op = "reset"
  <2>1. Process(t, c) = ResetSlot(t, c.slot) BY <1>4 DEF Process
  <2>2. c.slot \in Slot BY <1>4, ClientAssumption
  <2> QED BY <2>1, <2>2, ResetKeeps
<1>5. CASE c.op = "active"
  <2>1. Process(t, c) = SetActive(t, c.active) BY <1>5 DEF Process
  <2>2. c.active \in BOOLEAN BY <1>5, ClientAssumption
  <2> QED BY <2>1, <2>2, ActiveKeeps
<1>6. CASE c.op = "correctLocal"
  <2>1. Process(t, c) = EditScene(t, set_local(t.scene, c.node, c.value))
    BY <1>6 DEF Process, CorrectLocal
  <2>2. c.node \in Node /\ c.value \in Transform BY <1>6, ClientAssumption
  <2> QED BY <2>1, <2>2, LocalKeeps
<1>7. CASE c.op = "correctWorld"
  <2>1. Process(t, c) = CorrectWorld(t, c.node, c.value) BY <1>7 DEF Process
  <2>2. c.node \in Node /\ c.value \in Transform BY <1>7, ClientAssumption
  <2> QED BY <2>1, <2>2, CorrectWorldKeeps
<1> QED BY <1>1, <1>2, <1>3, <1>4, <1>5, <1>6, <1>7, ClientAssumption

(* So does what a controller writes, which leaves the worlds alone.         *)
LEMMA WriteKeeps ==
  ASSUME NEW t, NEW sh, Good(t), NEW write \in Writes
  PROVE  LET u == ApplyWrite(t, write)
         IN  /\ Follows(t, u, sh) /\ u.bindings = t.bindings /\ u.active = t.active
             /\ u.synced = t.synced /\ u.scene.world_revision = t.scene.world_revision
<1>0. t \in Instance /\ t.scene \in SceneRecord BY DEF Good, Instance
<1>1. CASE write.kind = "none"
  BY <1>1 DEF ApplyWrite, Follows
<1>2. CASE write.kind = "local"
  <2>1. ApplyWrite(t, write) = EditScene(t, set_local(t.scene, write.node, write.value))
    BY <1>2 DEF ApplyWrite
  <2>2. write.node \in Node /\ write.value \in Transform BY <1>2, ClientAssumption
  <2>3. EditOf(t.scene, set_local(t.scene, write.node, write.value).scene)
    BY <1>0, <2>2, SetLocalEdit
  <2>4. LET u == EditScene(t, set_local(t.scene, write.node, write.value))
        IN  Follows(t, u, sh) /\ u.bindings = t.bindings /\ u.active = t.active
            /\ u.synced = t.synced /\ u.scene = set_local(t.scene, write.node, write.value).scene
    BY <2>2, LocalKeeps
  <2>5. set_local(t.scene, write.node, write.value).scene.world_revision = t.scene.world_revision
    BY <2>3 DEF EditOf
  <2> QED BY <2>1, <2>4, <2>5
<1>3. CASE write.kind = "motion"
  <2> DEFINE motion == [t.scene.motion EXCEPT ![write.node] = write.value]
             v == [t.scene EXCEPT !.motion = motion]
  <2>1. write.node \in Node /\ write.value \in Motion \union {Still} BY <1>3, ClientAssumption
  <2>2. motion \in [Node -> Motion \union {Still}] BY <1>0, <2>1 DEF SceneRecord
  <2>3. ApplyWrite(t, write) = [t EXCEPT !.scene = v]
    BY <1>0, <1>3 DEF ApplyWrite, Instance, SceneRecord
  <2> HIDE DEF motion
  <2>4. EditOf(t.scene, v) BY <1>0, <2>2, MotionEdit
  <2> HIDE DEF v
  <2>5. v.world_revision = t.scene.world_revision BY <2>4 DEF EditOf
  <2>6. LET u == [t EXCEPT !.scene = v]
        IN  /\ Follows(t, u, sh) /\ u.bindings = t.bindings /\ u.scene = v
            /\ u.active = t.active /\ u.synced = t.synced
    BY <2>4, SceneEditKeeps
  <2> QED BY <2>3, <2>5, <2>6
<1> QED BY <1>1, <1>2, <1>3, ClientAssumption

(* After Synchronize every world that changed is shown, and the next epoch  *)
(* has no stamps of an earlier round.                                       *)
LEMMA SynchronizeKeeps ==
  ASSUME NEW t, NEW sh, Good(t)
  PROVE  LET u == Synchronized(t)
         IN  /\ Good(u) /\ (ShownUpTo(t, sh) => ShownUpTo(u, Written(t, sh)))
             /\ u.bindings = t.bindings
             /\ \A n \in Node : u.scene.world_revision[n] <= u.synced
<1> DEFINE u == Synchronized(t)
           wraps == (t.epoch + 1) % EpochWidth = 0
           epoch == IF wraps THEN 1 ELSE t.epoch + 1
           stamp == IF wraps THEN [n \in Node |-> 0] ELSE t.stamp
           out == Written(t, sh)
<1>1. t \in Instance /\ t.scene \in SceneRecord BY DEF Good, Instance
<1>2. /\ t.scene.revision \in Nat /\ t.synced \in Nat /\ t.scene.world_revision \in [Node -> Nat]
      /\ t.bindings \in [Node -> Entity \union {NoEntity}]
      /\ t.epoch \in Nat /\ 1 <= t.epoch /\ t.epoch <= EpochWidth - 1 /\ t.stamp \in [Node -> Nat]
  <2>1. t.scene.revision \in Nat /\ t.scene.world_revision \in [Node -> Nat]
    BY <1>1, StepAssumption DEF SceneRecord
  <2>2. /\ t.synced \in Nat /\ t.bindings \in [Node -> Entity \union {NoEntity}]
        /\ t.epoch \in 1 .. EpochWidth - 1 /\ t.stamp \in [Node -> Nat]
    BY <1>1 DEF Instance
  <2> QED BY <2>1, <2>2, SyncAssumption
<1>3. u = [t EXCEPT !.synced = t.scene.revision, !.changes = {}, !.valid = TRUE,
                    !.epoch = epoch, !.stamp = stamp]
  BY <1>1 DEF Synchronized, ResetEvaluatedBatch, Instance
<1>4. epoch \in 1 .. EpochWidth - 1 /\ \A n \in Node : stamp[n] < epoch
  <2>1. ~wraps => t.epoch + 1 < EpochWidth
    <3>1. t.epoch + 1 = EpochWidth => (t.epoch + 1) % EpochWidth = 0
      BY <1>2, SyncAssumption
    <3>2. t.epoch + 1 = EpochWidth => wraps BY <3>1
    <3>3. EpochWidth \in Nat BY SyncAssumption
    <3> HIDE DEF wraps
    <3>4. t.epoch + 1 # EpochWidth => t.epoch + 1 < EpochWidth BY <3>3, <1>2
    <3> QED BY <3>2, <3>4
  <2> HIDE DEF wraps
  <2>2. CASE wraps BY <2>2, SyncAssumption
  <2>3. CASE ~wraps
    <3>1. \A n \in Node : t.stamp[n] <= t.epoch BY DEF Good, Stamped
    <3> QED BY <1>2, <2>1, <2>3, <3>1, SyncAssumption
  <2> QED BY <2>2, <2>3
<1>5. stamp \in [Node -> Nat] BY <1>2
<1> HIDE DEF epoch, stamp, u, out
<1>6. /\ u \in Instance /\ u.scene = t.scene /\ u.bindings = t.bindings /\ u.toNode = t.toNode
      /\ u.changes = {} /\ u.stamp = stamp /\ u.epoch = epoch /\ u.valid
      /\ u.synced = t.scene.revision
  BY <1>1, <1>2, <1>3, <1>4, <1>5 DEF Instance
<1>7. \A n \in Node : t.scene.world_revision[n] <= t.scene.revision
  BY DEF Good, RevisionAhead
<1>8. Stamped(u)
  <2> SUFFICES ASSUME NEW n \in Node PROVE stamp[n] <= epoch /\ stamp[n] # epoch
    BY <1>6 DEF Stamped
  <2>1. stamp[n] < epoch /\ stamp[n] \in Nat /\ epoch \in Nat BY <1>4, <1>5, SyncAssumption
  <2> QED BY <2>1
<1>9. RevisionAhead(u) BY <1>2, <1>6, <1>7 DEF RevisionAhead
<1>10. BatchExact(u)
  <2>1. \A n \in Node : ~ (t.scene.world_revision[n] > t.scene.revision) BY <1>2, <1>7
  <2> QED BY <1>6, <2>1 DEF BatchExact
<1>11. Good(u) BY <1>6, <1>8, <1>9, <1>10 DEF Good, Agrees
<1>12. \A n \in Node : n \in Changed(t) <=> t.scene.world_revision[n] > t.synced
  BY DEF Changed, Good, BatchExact
<1>13. ASSUME ShownUpTo(t, sh) PROVE ShownUpTo(u, out)
  <2> SUFFICES ASSUME NEW n \in Node, t.bindings[n] # NoEntity,
                      n \notin Affected(t.scene), t.scene.revision # MaxRevision
               PROVE  out[t.bindings[n]] = Compose(t.scene.world[n], Offset[t.bindings[n]])
    BY <1>6 DEF ShownUpTo
  <2> DEFINE e == t.bindings[n]
             nodes == {m \in Changed(t) : t.bindings[m] = e}
  <2>1. e \in Entity BY <1>2
  <2>2. out[e] = IF nodes = {} THEN sh[e]
                 ELSE Compose(t.scene.world[CHOOSE m \in nodes : TRUE], Offset[e])
    BY <2>1 DEF Written, out
  <2>3. Changed(t) \subseteq Node BY <1>1 DEF Changed, Instance
  <2>4. \A m \in nodes : m = n
    <3>1. t.toNode[e] = n BY <2>1 DEF Good, Agrees
    <3> QED BY <2>1, <2>3, <3>1 DEF Good, Agrees
  <2>5. CASE nodes = {}
    <3>1. n \notin Changed(t) BY <2>5
    <3>2. ~ (t.scene.world_revision[n] > t.synced) BY <3>1, <1>12
    <3> QED BY <2>2, <2>5, <3>2, <1>13 DEF ShownUpTo
  <2>6. CASE nodes # {}
    <3>1. (CHOOSE m \in nodes : TRUE) = n BY <2>4, <2>6
    <3> QED BY <2>2, <2>6, <3>1
  <2> QED BY <2>5, <2>6
<1> QED BY <1>6, <1>7, <1>11, <1>13 DEF u, out

--------------------------------------------------------------------------------
(* The system.                                                              *)

TickTypes ==
  /\ tick \in [phase : {"none", "drain", "step"}, commands : Seq(Commands), delta : Nat,
               steps : Int, none : BOOLEAN]
  /\ m_commands \in Seq(Commands) /\ running \in BOOLEAN /\ connected \in BOOLEAN
  /\ tick.phase # "drain" => tick.commands = <<>>

(* A bind that is queued finds its slot unbound, and is the slot's only one. *)
BindsApart ==
  \A i \in 1 .. Len(Queued) : Queued[i].op = "bind" =>
    /\ \A n \in NodesOf[Queued[i].slot] : si.bindings[n] = NoEntity
    /\ \A j \in 1 .. Len(Queued) : j # i => ~Binds(Queued[j], Queued[i].slot)

(* Between ticks the connection is as RefreshTickConnection leaves it, and  *)
(* an active scene has shown what it evaluated.                             *)
Settled ==
  tick.phase = "none" =>
    /\ connected = (m_commands # <<>> \/ NeedsTick(si, running))
    /\ si.active => \A n \in Node : si.scene.world_revision[n] <= si.synced

IndInv == Good(si) /\ ShownUpTo(si, shown) /\ TickTypes /\ BindsApart /\ Settled

(* A scene that is new and inactive satisfies the invariant.                *)
LEMMA InitInv == Init => IndInv
<1> SUFFICES ASSUME Init PROVE IndInv
  OBVIOUS
<1> DEFINE s == FrozenScene(InitialLocal)
<1>1. InitialLocal \in [Node -> Transform] /\ EpochWidth \in Nat /\ EpochWidth > 1
      /\ NoEntity \notin Entity
  BY SyncAssumption
<1>2. s \in SceneRecord /\ s.dirty = Node /\ s.revision = 0
      /\ s.world_revision = [n \in Node |-> 0]
  BY <1>1, StepAssumption DEF FrozenScene, SceneRecord
<1> HIDE DEF s
<1>3. /\ si.scene = s /\ si.bindings = [n \in Node |-> NoEntity] /\ si.toNode = [e \in Entity |-> NoNode]
      /\ si.active = FALSE /\ si.changes = {} /\ si.stamp = [n \in Node |-> 0] /\ si.epoch = 1
      /\ si.valid = TRUE /\ si.synced = 0
  BY DEF Init, s
<1>4. si \in Instance
  BY <1>1, <1>2 DEF Init, Instance, s
<1>5. Affected(s) = Node
  BY <1>2, AffectedFacts
<1>6. Coherent(s) BY <1>5 DEF Coherent
<1>7. Stamped(si) /\ RevisionAhead(si) /\ BatchExact(si)
  BY <1>2, <1>3 DEF Stamped, RevisionAhead, BatchExact
<1>8. Agrees(si)
  BY <1>1, <1>3, Forest DEF Agrees
<1>9. ShownUpTo(si, shown)
  BY <1>3 DEF ShownUpTo
<1>10. TickTypes
  <2>1. tick \in [phase : {"none", "drain", "step"}, commands : Seq(Commands), delta : Nat,
                  steps : Int, none : BOOLEAN]
    BY DEF Init, NoTick
  <2>2. running \in BOOLEAN /\ connected \in BOOLEAN
    BY DEF Init
  <2> QED BY <2>1, <2>2 DEF Init, TickTypes, NoTick
<1>11. BindsApart BY DEF Init, NoTick, BindsApart, Queued
<1>12. Settled BY <1>3 DEF Init, Settled, NeedsTick
<1> QED BY <1>3, <1>4, <1>6, <1>7, <1>8, <1>9, <1>10, <1>11, <1>12 DEF IndInv, Good

(* Enqueue: the new bind is the only one of its slot.                       *)
LEMMA SubmitInv == ASSUME IndInv, NEW c \in Commands, Submit(c) PROVE IndInv'
<1> USE DEF Submit, IndInv
<1>1. UNCHANGED <<si, shown, tick, running>> /\ m_commands' = Append(m_commands, c)
  OBVIOUS
<1>2. connected' = (m_commands' # <<>> \/ NeedsTick(si', running'))
  BY DEF RefreshTickConnection
<1>3. TickTypes'
  <2>1. m_commands' \in Seq(Commands) BY DEF TickTypes
  <2>2. connected' \in BOOLEAN BY <1>2, Zenon
  <2> QED BY <1>1, <2>1, <2>2 DEF TickTypes
<1>4. /\ tick.commands \in Seq(Commands) /\ m_commands \in Seq(Commands)
  BY DEF TickTypes
<1>5. /\ Len(Queued) \in Nat /\ Len(Queued') = Len(Queued) + 1
      /\ \A i \in 1 .. Len(Queued) : Queued'[i] = Queued[i]
      /\ Queued'[Len(Queued) + 1] = c
  <2> DEFINE p == tick.commands
             q == m_commands
             r == Append(q, c)
  <2>1. Queued = p \o q /\ Queued' = p \o r
    BY <1>1 DEF Queued
  <2>2. /\ p \in Seq(Commands) /\ q \in Seq(Commands) /\ r \in Seq(Commands)
        /\ Len(p) \in Nat /\ Len(q) \in Nat /\ Len(r) = Len(q) + 1
        /\ r[Len(q) + 1] = c /\ \A i \in 1 .. Len(q) : r[i] = q[i]
    BY <1>4
  <2> HIDE DEF p, q, r
  <2>3. /\ Len(p \o q) = Len(p) + Len(q) /\ Len(p \o r) = Len(p) + Len(r)
        /\ \A i \in 1 .. Len(p) + Len(q) : (p \o r)[i] = (p \o q)[i]
        /\ (p \o r)[Len(p) + (Len(q) + 1)] = c
    <3>1. Len(p \o q) = Len(p) + Len(q) /\ Len(p \o r) = Len(p) + Len(r)
      <4>1. p \in Seq(Commands) /\ q \in Seq(Commands) /\ r \in Seq(Commands) BY <2>2
      <4> QED BY <4>1
    <3>2. ASSUME NEW i \in 1 .. Len(p) + Len(q) PROVE (p \o r)[i] = (p \o q)[i]
      <4>1. CASE i <= Len(p) BY <2>2, <4>1
      <4>2. CASE i > Len(p)
        <5>1. i - Len(p) \in 1 .. Len(q) BY <2>2, <4>2
        <5>2. (p \o q)[i] = q[i - Len(p)] /\ (p \o r)[i] = r[i - Len(p)] BY <2>2, <4>2
        <5> QED BY <2>2, <5>1, <5>2
      <4> QED BY <2>2, <4>1, <4>2
    <3>3. (p \o r)[Len(p) + (Len(q) + 1)] = r[Len(q) + 1]
      BY <2>2
    <3> QED BY <2>2, <3>1, <3>2, <3>3
  <2> QED BY <2>1, <2>2, <2>3
<1>6. BindsApart'
  <2> SUFFICES ASSUME NEW i \in 1 .. Len(Queued) + 1, Queued'[i].op = "bind"
               PROVE  /\ \A n \in NodesOf[Queued'[i].slot] : si.bindings[n] = NoEntity
                      /\ \A j \in 1 .. Len(Queued) + 1 : j # i => ~Binds(Queued'[j], Queued'[i].slot)
    BY <1>1, <1>5 DEF BindsApart
  <2>1. DOMAIN Queued = 1 .. Len(Queued)
    BY <1>4 DEF Queued
  <2> HIDE DEF Queued
  <2>2. CASE i = Len(Queued) + 1
    <3>1. c.op = "bind" /\ Queued'[i] = c BY <2>2, <1>5
    <3>2. /\ \A n \in NodesOf[c.slot] : si.bindings[n] = NoEntity
          /\ \A j \in 1 .. Len(Queued) : ~Binds(Queued[j], c.slot)
      BY <3>1, <2>1 DEF Asked
    <3>3. \A j \in 1 .. Len(Queued) + 1 : j # i => j \in 1 .. Len(Queued)
      BY <2>2, <1>5
    <3> QED BY <3>1, <3>2, <3>3, <1>5
  <2>3. CASE i # Len(Queued) + 1
    <3>1. i \in 1 .. Len(Queued) BY <2>3, <1>5
    <3>2. Queued'[i] = Queued[i] /\ Queued[i].op = "bind" BY <3>1, <1>5
    <3>3. /\ \A n \in NodesOf[Queued[i].slot] : si.bindings[n] = NoEntity
          /\ \A j \in 1 .. Len(Queued) : j # i => ~Binds(Queued[j], Queued[i].slot)
      BY <3>1, <3>2 DEF BindsApart
    <3>4. ~Binds(c, Queued[i].slot)
      BY <3>1, <3>2, <2>1 DEF Asked, Binds
    <3>5. \A j \in 1 .. Len(Queued) + 1 : j \in 1 .. Len(Queued) \/ j = Len(Queued) + 1
      BY <1>5
    <3> QED BY <3>2, <3>3, <3>4, <3>5, <1>5
  <2> QED BY <2>2, <2>3
<1>7. Settled' BY <1>1, <1>2 DEF Settled
<1> QED BY <1>1, <1>3, <1>6, <1>7

(* Input between two ticks.                                                 *)
LEMMA InputInv ==
  ASSUME IndInv, NEW write \in Writes, NEW runs \in BOOLEAN, SubmitControllerInput(write, runs)
  PROVE  IndInv'
<1> USE DEF SubmitControllerInput, IndInv
<1>1. UNCHANGED <<shown, tick, m_commands>> /\ running' = runs /\ si' = ApplyWrite(si, write)
  OBVIOUS
<1>2. connected' = (m_commands' # <<>> \/ NeedsTick(si', running'))
  BY DEF RefreshTickConnection
<1>3. LET u == ApplyWrite(si, write)
      IN  /\ Follows(si, u, shown) /\ u.bindings = si.bindings /\ u.active = si.active
          /\ u.synced = si.synced /\ u.scene.world_revision = si.scene.world_revision
  BY WriteKeeps
<1>4. Good(si') /\ ShownUpTo(si', shown') BY <1>1, <1>3 DEF Follows
<1>5. TickTypes'
  <2>1. connected' \in BOOLEAN BY <1>2, Zenon
  <2> QED BY <1>1, <2>1 DEF TickTypes
<1>6. BindsApart' BY <1>1, <1>3 DEF BindsApart, Queued
<1>7. Settled' BY <1>1, <1>2, <1>3 DEF Settled
<1> QED BY <1>4, <1>5, <1>6, <1>7

(* The tick takes the queue.                                                *)
LEMMA OnTickInv == ASSUME IndInv, NEW delta \in FrameDeltas, OnTick(delta) PROVE IndInv'
<1> USE DEF OnTick, IndInv
<1>1. /\ UNCHANGED <<si, running, shown, connected>> /\ m_commands' = <<>>
      /\ tick' = [phase |-> "drain", commands |-> m_commands, delta |-> delta, steps |-> 0, none |-> TRUE]
  OBVIOUS
<1>2. delta \in Nat BY SyncAssumption
<1>3. TickTypes' BY <1>1, <1>2 DEF TickTypes
<1>4. tick.commands = <<>> /\ m_commands \in Seq(Commands) BY DEF TickTypes
<1>5. Queued' = Queued
  <2>1. <<>> \o m_commands = m_commands /\ m_commands \o <<>> = m_commands BY <1>4
  <2>2. Queued = <<>> \o m_commands /\ Queued' = m_commands \o <<>> BY <1>1, <1>4 DEF Queued
  <2> QED BY <2>1, <2>2
<1>6. BindsApart' BY <1>1, <1>5 DEF BindsApart
<1>7. Settled' BY <1>1 DEF Settled
<1> QED BY <1>1, <1>3, <1>6, <1>7

(* One command is processed; the binds behind it still find their slots     *)
(* unbound.                                                                 *)
LEMMA DrainInv == ASSUME IndInv, DrainCommands PROVE IndInv'
<1> USE DEF DrainCommands, IndInv
<1> DEFINE c == Head(tick.commands)
<1>1. /\ tick.commands \in Seq(Commands) /\ tick.commands # <<>> /\ m_commands \in Seq(Commands)
      /\ tick.phase = "drain"
  BY DEF TickTypes
<1>2. c \in Commands /\ Len(Queued) \in Nat /\ Len(Queued) > 0 /\ Queued[1] = c
  BY <1>1 DEF Queued
<1>3. /\ UNCHANGED <<running, shown, m_commands, connected>> /\ si' = Process(si, c)
      /\ tick' = [tick EXCEPT !.commands = Tail(@)]
  OBVIOUS
<1>4. TickTypes'
  <2>1. Tail(tick.commands) \in Seq(Commands) BY <1>1
  <2> QED BY <1>1, <1>3, <2>1 DEF TickTypes
<1>5. /\ Len(Queued') = Len(Queued) - 1
      /\ \A i \in 1 .. Len(Queued) - 1 : Queued'[i] = Queued[i + 1]
  <2>1. tick'.commands = Tail(tick.commands) BY <1>3 DEF TickTypes
  <2>2. Queued' = Tail(tick.commands) \o m_commands BY <1>3, <2>1 DEF Queued
  <2> QED BY <1>1, <2>2 DEF Queued
<1>6. c.op = "bind" => \A n \in NodesOf[c.slot] : si.bindings[n] = NoEntity
  BY <1>2 DEF BindsApart
<1> HIDE DEF c
<1>7. LET u == Process(si, c)
      IN  /\ Follows(si, u, shown)
          /\ \A n \in Node : u.bindings[n] \in {si.bindings[n], NoEntity}
                             \/ (c.op = "bind" /\ n \in NodesOf[c.slot])
  BY <1>2, <1>6, ProcessKeeps
<1>8. Good(si') /\ ShownUpTo(si', shown') BY <1>3, <1>7 DEF Follows
<1>9. BindsApart'
  <2> SUFFICES ASSUME NEW i \in 1 .. Len(Queued) - 1, Queued'[i].op = "bind"
               PROVE  /\ \A n \in NodesOf[Queued'[i].slot] : si'.bindings[n] = NoEntity
                      /\ \A j \in 1 .. Len(Queued) - 1 : j # i => ~Binds(Queued'[j], Queued'[i].slot)
    BY <1>5 DEF BindsApart
  <2>0. Queued \in Seq(Commands) BY <1>1 DEF Queued
  <2> HIDE DEF Queued
  <2>1. i + 1 \in 1 .. Len(Queued) /\ i + 1 # 1 /\ 1 \in 1 .. Len(Queued) BY <1>2
  <2> DEFINE d == Queued[i + 1]
  <2>2. Queued'[i] = d /\ d.op = "bind" BY <1>5
  <2>3. /\ \A n \in NodesOf[d.slot] : si.bindings[n] = NoEntity
        /\ \A j \in 1 .. Len(Queued) : j # i + 1 => ~Binds(Queued[j], d.slot)
    BY <2>1, <2>2 DEF BindsApart
  <2>4. d \in Commands BY <2>0, <2>1
  <2> HIDE DEF d
  <2>5. d.slot \in Slot BY <2>2, <2>4, ClientAssumption
  <2>6. ~Binds(c, d.slot) BY <1>2, <2>1, <2>3
  <2>7. \A n \in NodesOf[d.slot] : si'.bindings[n] = NoEntity
    <3> SUFFICES ASSUME NEW n \in NodesOf[d.slot] PROVE si'.bindings[n] = NoEntity
      OBVIOUS
    <3>1. n \in Node BY <2>5, SyncAssumption
    <3>2. ~ (c.op = "bind" /\ n \in NodesOf[c.slot])
      BY <1>2, <2>5, <2>6, SyncAssumption, ClientAssumption DEF Binds
    <3> QED BY <1>3, <1>7, <2>3, <3>1, <3>2
  <2>8. ASSUME NEW j \in 1 .. Len(Queued) - 1, j # i PROVE ~Binds(Queued'[j], d.slot)
    <3>1. j + 1 \in 1 .. Len(Queued) /\ j + 1 # i + 1 BY <1>2, <2>8
    <3> QED BY <1>5, <2>3, <3>1
  <2> QED BY <2>2, <2>7, <2>8
<1>10. Settled' BY <1>1, <1>3 DEF Settled, TickTypes
<1> QED BY <1>4, <1>8, <1>9, <1>10

(* The smaller of two integers is an integer.                               *)
LEMMA MinFacts == ASSUME NEW a \in Int, NEW b \in Int PROVE Min({a, b}) \in Int
<1>1. \E x \in {a, b} : \A y \in {a, b} : x <= y OBVIOUS
<1>2. Min({a, b}) \in {a, b} BY <1>1 DEF Min
<1> QED BY <1>2

(* The tick of an inactive scene ends after its commands.                   *)
LEMMA AdvanceInactiveInv == ASSUME IndInv, AdvanceInactive PROVE IndInv'
<1> USE DEF AdvanceInactive, TickEnds, IndInv
<1>1. UNCHANGED <<si, running, shown, m_commands>> /\ tick' = NoTick /\ tick.commands = <<>> /\ ~si.active
  OBVIOUS
<1>2. connected' = (m_commands' # <<>> \/ NeedsTick(si', running'))
  BY DEF RefreshTickConnection
<1>3. TickTypes'
  <2>1. connected' \in BOOLEAN BY <1>2, Zenon
  <2>2. tick' \in [phase : {"none", "drain", "step"}, commands : Seq(Commands), delta : Nat,
                   steps : Int, none : BOOLEAN] /\ tick'.commands = <<>>
    BY <1>1 DEF NoTick
  <2> QED BY <1>1, <2>1, <2>2 DEF TickTypes
<1>4. BindsApart'
  <2>1. Queued' = Queued BY <1>1 DEF Queued, NoTick
  <2> QED BY <1>1, <2>1 DEF BindsApart
<1>5. Settled' BY <1>1, <1>2 DEF Settled
<1> QED BY <1>1, <1>3, <1>4, <1>5

(* The accumulator is no part of what is shown.                             *)
LEMMA AdvanceInv == ASSUME IndInv, Advance PROVE IndInv'
<1> DEFINE accumulated == Backlog(si, tick.delta)
           count == Min({accumulated \div FixedStep, MaxCatchUpSteps})
<1>1. /\ UNCHANGED <<running, shown, m_commands, connected>>
      /\ tick.phase = "drain" /\ tick.commands = <<>>
      /\ si' = [si EXCEPT !.accumulator = accumulated - FixedStep * count]
      /\ tick' = [tick EXCEPT !.phase = "step", !.steps = count, !.none = (count = 0)]
  BY DEF Advance
<1>2. si \in Instance /\ TickTypes BY DEF IndInv, Good
<1>3. FixedStep \in Nat /\ FixedStep > 0 /\ MaxCatchUpSteps \in Nat BY SyncAssumption
<1>4. accumulated \in Int
  <2>1. si.accumulator \in Int /\ tick.delta \in Nat BY <1>2 DEF Instance, TickTypes
  <2>2. si.accumulator + tick.delta \in Int /\ FixedStep * MaxCatchUpSteps \in Int
    BY <1>3, <2>1
  <2> QED BY <2>2, MinFacts DEF Backlog
<1> HIDE DEF accumulated
<1>5. count \in Int
  <2>1. accumulated \div FixedStep \in Int BY <1>3, <1>4
  <2> QED BY <2>1, <1>3, MinFacts
<1> HIDE DEF count
<1>6. accumulated - FixedStep * count \in Int BY <1>3, <1>4, <1>5
<1>7. /\ si' \in Instance /\ si'.scene = si.scene /\ si'.bindings = si.bindings
      /\ si'.toNode = si.toNode /\ si'.changes = si.changes /\ si'.stamp = si.stamp
      /\ si'.epoch = si.epoch /\ si'.synced = si.synced /\ si'.valid = si.valid
  BY <1>1, <1>2, <1>6 DEF Instance
<1>8. Good(si')
  BY <1>7 DEF IndInv, Good, Stamped, RevisionAhead, BatchExact, Agrees
<1>9. ShownUpTo(si', shown') BY <1>1, <1>7 DEF IndInv, ShownUpTo
<1>10. TickTypes' /\ tick'.phase = "step" /\ tick'.commands = tick.commands
  <2>1. (count = 0) \in BOOLEAN OBVIOUS
  <2> QED BY <1>1, <1>2, <1>5, <2>1 DEF TickTypes
<1>11. BindsApart'
  <2>1. Queued' = Queued BY <1>1, <1>10 DEF Queued
  <2> QED BY <1>7, <2>1 DEF IndInv, BindsApart
<1>12. Settled' BY <1>10 DEF Settled
<1> QED BY <1>8, <1>9, <1>10, <1>11, <1>12 DEF IndInv

(* A fixed step takes the result of advance_motion_scene.                   *)
LEMMA FixedStepInv == ASSUME IndInv, NEW write \in Writes, FixedStepTaken(write) PROVE IndInv'
<1> DEFINE ran == IF running THEN ApplyWrite(si, write) ELSE si
           result == advance_motion_scene(ran.scene)
<1>1. /\ UNCHANGED <<running, shown, m_commands, connected>>
      /\ tick.phase = "step" /\ si' = TakeResult(ran, result)
      /\ tick' = [tick EXCEPT !.steps = @ - 1]
  BY DEF FixedStepTaken
<1>2. Follows(si, ran, shown) /\ ran.bindings = si.bindings
  BY WriteKeeps DEF IndInv, Follows
<1> HIDE DEF ran
<1>3. Good(ran) /\ ShownUpTo(ran, shown) BY <1>2 DEF Follows, IndInv
<1>4. ran.scene \in SceneRecord BY <1>3 DEF Good, Instance
<1>5. /\ result.error # "none" => result.scene = ran.scene
      /\ result.error = "none" => EvaluationOf(ran.scene, result.scene, result.changed)
  BY <1>4, AdvanceScene
<1> HIDE DEF result
<1>6. LET u == TakeResult(ran, result)
      IN  Good(u) /\ ShownUpTo(u, shown) /\ u.bindings = ran.bindings
  BY <1>3, <1>5, TakeKeeps
<1>7. TickTypes' /\ tick'.phase = "step" /\ tick'.commands = tick.commands
  BY <1>1 DEF IndInv, TickTypes
<1>8. BindsApart'
  <2>1. Queued' = Queued BY <1>1, <1>7 DEF Queued
  <2> QED BY <1>1, <1>2, <1>6, <2>1 DEF IndInv, BindsApart
<1>9. Settled' BY <1>7 DEF Settled
<1> QED BY <1>1, <1>6, <1>7, <1>8, <1>9 DEF IndInv

(* The tick of an active scene ends with everything evaluated shown.        *)
LEMMA SynchronizeInv == ASSUME IndInv, Synchronize PROVE IndInv'
<1> DEFINE t == IF tick.none /\ si.scene.dirty # {} THEN EvaluateDirty(si) ELSE si
<1>1. /\ UNCHANGED <<running, m_commands>> /\ tick.phase = "step" /\ tick' = NoTick
      /\ si' = Synchronized(t) /\ shown' = Written(t, shown)
  BY DEF Synchronize, TickEnds
<1>2. connected' = (m_commands' # <<>> \/ NeedsTick(si', running'))
  BY DEF Synchronize, TickEnds, RefreshTickConnection
<1>3. Follows(si, t, shown) /\ t.bindings = si.bindings
  BY EvaluateKeeps DEF IndInv, Follows
<1> HIDE DEF t
<1>4. Good(t) /\ ShownUpTo(t, shown) BY <1>3 DEF Follows, IndInv
<1>5. LET u == Synchronized(t)
      IN  /\ Good(u) /\ ShownUpTo(u, Written(t, shown)) /\ u.bindings = t.bindings
          /\ \A n \in Node : u.scene.world_revision[n] <= u.synced
  BY <1>4, SynchronizeKeeps
<1>6. TickTypes'
  <2>1. connected' \in BOOLEAN BY <1>2, Zenon
  <2>2. tick' \in [phase : {"none", "drain", "step"}, commands : Seq(Commands), delta : Nat,
                   steps : Int, none : BOOLEAN] /\ tick'.commands = <<>>
    BY <1>1 DEF NoTick
  <2> QED BY <1>1, <2>1, <2>2 DEF TickTypes, IndInv
<1>7. BindsApart'
  <2>1. Queued' = Queued BY <1>1 DEF Queued, NoTick, IndInv, TickTypes
  <2> QED BY <1>1, <1>3, <1>5, <2>1 DEF IndInv, BindsApart
<1>8. Settled' BY <1>1, <1>2, <1>5 DEF Settled
<1> QED BY <1>1, <1>5, <1>6, <1>7, <1>8 DEF IndInv

(* Every step of clients and ticks keeps the invariant.                     *)
LEMMA StepInv == IndInv /\ [Next]_vars => IndInv'
<1> SUFFICES ASSUME IndInv, [Next]_vars PROVE IndInv'
  OBVIOUS
<1>1. CASE UNCHANGED vars
  BY <1>1 DEF vars, IndInv, TickTypes, BindsApart, Queued, Settled
<1> QED
  BY <1>1, SubmitInv, InputInv, OnTickInv, DrainInv, AdvanceInactiveInv, AdvanceInv,
     FixedStepInv, SynchronizeInv DEF Next, Tick

(* The invariant holds in every reachable state.                            *)
THEOREM SyncInvariant == Spec => []IndInv
BY InitInv, StepInv, PTL DEF Spec

(* The direct batch that Synchronize trusts while it is valid holds exactly *)
(* the nodes changed_transform_nodes_since would find.                      *)
THEOREM BatchShortcut == Spec => []DirectBatchExact
<1>1. IndInv => DirectBatchExact BY DEF IndInv, Good, BatchExact, DirectBatchExact
<1> QED BY <1>1, SyncInvariant, PTL

(* The entity-to-node map and the binding table agree, under clients that   *)
(* bind a slot only after it was unbound.                                   *)
THEOREM BindingTable == Spec => []BindingTableAgrees
<1>1. IndInv => BindingTableAgrees BY DEF IndInv, Good, Agrees, BindingTableAgrees
<1> QED BY <1>1, SyncInvariant, PTL

(* The head room rule of advance_motion_scene refuses exactly the steps that *)
(* would fail half way.                                                     *)
THEOREM HeadRoom == Spec => []HeadRoomExact
<1>1. IndInv => si.scene \in SceneRecord BY DEF IndInv, Good, Instance
<1>2. IndInv => HeadRoomExact BY <1>1, StepParts DEF HeadRoomExact
<1> QED BY <1>2, SyncInvariant, PTL

(* In a coherent scene with nothing dirty a full evaluation finds every     *)
(* world as it is.                                                          *)
LEMMA WorldsOfClean ==
  ASSUME NEW s \in SceneRecord, Coherent(s), s.dirty = {}, NEW n \in Node
  PROVE  EvaluatedWorlds([s EXCEPT !.dirty = Node])[n] = s.world[n]
<1> DEFINE u == [s EXCEPT !.dirty = Node]
<1>1. u.local = s.local /\ u.world = s.world /\ u.dirty = Node
      /\ s.local \in [Node -> Transform] /\ s.world \in [Node -> Transform]
  BY DEF SceneRecord
<1> HIDE DEF u
<1>2. Affected(u) = Node /\ Affected(s) = {}
  <2>1. Affected(s) = {} BY DEF Affected
  <2>2. Affected(u) = Node BY <1>1, AffectedFacts
  <2> QED BY <2>1, <2>2
<1> DEFINE w == EvaluatedWorlds(u)
<1>3. \A m \in Node : w[m] = IF Parent[m] = NoNode THEN s.local[m]
                             ELSE Compose(w[Parent[m]], s.local[m])
  BY <1>1, <1>2, EvaluatedRec
<1>4. \A m \in Node : s.world[m] = IF Parent[m] = NoNode THEN s.local[m]
                                   ELSE Compose(s.world[Parent[m]], s.local[m])
  BY <1>2 DEF Coherent
<1> HIDE DEF w
<1> DEFINE T == {m \in Node : w[m] # s.world[m]}
<1>5. T = {}
  <2> SUFFICES ASSUME T # {} PROVE FALSE OBVIOUS
  <2>0. T \subseteq Nat BY Forest
  <2>1. PICK m \in T : \A k \in T : m <= k BY <2>0, WellOrder
  <2>2. m \in Node /\ m \in Nat /\ w[m] # s.world[m] BY <2>1, Forest
  <2>3. Parent[m] # NoNode BY <1>3, <1>4, <2>2
  <2>4. Parent[m] \in Node /\ Parent[m] \in Nat /\ Parent[m] < m BY <2>2, <2>3, Forest
  <2>5. w[Parent[m]] = s.world[Parent[m]] BY <2>1, <2>2, <2>4
  <2> QED BY <1>3, <1>4, <2>2, <2>3, <2>5
<1> QED BY <1>5 DEF w, u

(* An active scene that is off the tick bus shows the composition of all    *)
(* locals above each bound entity, unless revisions or ticks have run out.  *)
THEOREM SleepingIsSafe == Spec => []QuiescentShown
<1>1. ASSUME IndInv, ~connected, tick.phase = "none", si.active, ~Exhausted
      PROVE  InSync
  <2>1. si.scene \in SceneRecord /\ Coherent(si.scene) BY <1>1 DEF IndInv, Good, Instance
  <2>2. si.scene.dirty = {} BY <1>1 DEF IndInv, Settled, NeedsTick
  <2>3. \A n \in Node : ~ (si.scene.world_revision[n] > si.synced)
    <3>1. si.synced \in Nat /\ si.scene.world_revision \in [Node -> Nat]
      BY <1>1 DEF IndInv, Good, Instance, SceneRecord
    <3> QED BY <1>1, <3>1 DEF IndInv, Settled
  <2>4. Affected(si.scene) = {} BY <2>2 DEF Affected
  <2>5. si.scene.revision # MaxRevision
    BY <1>1, <2>1, StepAssumption DEF Exhausted, revision_available, SceneRecord
  <2>6. \A n \in Node : si.bindings[n] # NoEntity =>
          shown[si.bindings[n]] = Compose(si.scene.world[n], Offset[si.bindings[n]])
    BY <1>1, <2>3, <2>4, <2>5 DEF IndInv, ShownUpTo
  <2>7. \A n \in Node : Worlds(si)[n] = si.scene.world[n]
    BY <2>1, <2>2, WorldsOfClean DEF Worlds
  <2> QED BY <2>6, <2>7 DEF InSync
<1>2. IndInv => QuiescentShown BY <1>1 DEF QuiescentShown
<1> QED BY <1>2, SyncInvariant, PTL

(* What a correction leaves in a clean scene is evaluated to the world that *)
(* was asked for.                                                           *)
LEMMA CorrectionEvaluated ==
  ASSUME NEW s \in SceneRecord, s.dirty = {}, revision_available(s), NEW n \in Node,
         NEW value \in Transform, NEW local \in Transform,
         local = IF IsRoot(n) THEN value ELSE Compose(GetInverse(s.world[Parent[n]]), value)
  PROVE  EvaluatedWorlds(set_local(s, n, local).scene)[n] = value
<1> DEFINE u == [s EXCEPT !.local[n] = local, !.dirty = @ \union {n}, !.revision = @ + 1]
<1>1. set_local(s, n, local).scene = u BY DEF set_local, Ok
<1>2. u.local = [s.local EXCEPT ![n] = local] /\ u.world = s.world /\ u.dirty = {n}
      /\ s.local \in [Node -> Transform] /\ s.world \in [Node -> Transform]
  BY DEF SceneRecord
<1> HIDE DEF u
<1>3. u.local \in [Node -> Transform] /\ u.local[n] = local BY <1>2
<1>4. n \in Affected(u) /\ u.dirty \subseteq Node BY <1>2, AffectedFacts
<1> DEFINE w == EvaluatedWorlds(u)
<1>5. \A m \in Node : w[m] = IF m \notin Affected(u) THEN u.world[m]
                             ELSE IF Parent[m] = NoNode THEN u.local[m]
                             ELSE Compose(w[Parent[m]], u.local[m])
  BY <1>2, <1>3, EvaluatedRec
<1> HIDE DEF w
<1>6. CASE IsRoot(n) BY <1>1, <1>3, <1>4, <1>5, <1>6 DEF IsRoot, w
<1>7. CASE ~IsRoot(n)
  <2>1. Parent[n] \in Node /\ Parent[n] < n /\ Parent[n] \in Nat /\ n \in Nat
    BY <1>7, Forest DEF IsRoot
  <2>2. n \notin Above[Parent[n]] BY <2>1, AboveFacts
  <2>3. Parent[n] \notin Affected(u) BY <1>2, <2>2 DEF Affected
  <2>4. w[n] = Compose(s.world[Parent[n]], local)
    BY <1>2, <1>3, <1>4, <1>5, <1>7, <2>1, <2>3 DEF IsRoot
  <2>5. s.world[Parent[n]] \in Transform BY <1>2, <2>1
  <2> QED BY <1>1, <1>7, <2>4, <2>5, SyncAssumption DEF w
<1> QED BY <1>6, <1>7

(* A world correction that is accepted yields the world it asked for.       *)
LEMMA CorrectionExact ==
  ASSUME NEW t, Good(t), NEW n \in Node, NEW value \in Transform,
         n \in CorrectWorld(t, n, value).scene.dirty,
         CorrectWorld(t, n, value).scene.revision # t.scene.revision
  PROVE  EvaluatedWorlds(CorrectWorld(t, n, value).scene)[n] = value
<1> DEFINE u == IF t.scene.dirty # {} THEN EvaluateDirty(t) ELSE t
           s == u.scene
           local == LocalFor(u, n, value)
<1>1. t.scene \in SceneRecord BY DEF Good, Instance
<1>2. Good(u) /\ s = IF t.scene.dirty # {} THEN evaluate_transforms(t.scene).scene ELSE t.scene
  BY EvaluateKeeps DEF Follows
<1>3. CorrectWorld(t, n, value) = EditScene(u, set_local(s, n, local))
  BY DEF CorrectWorld
<1>4. local = IF IsRoot(n) THEN value ELSE Compose(GetInverse(s.world[Parent[n]]), value)
  BY DEF LocalFor
<1> HIDE DEF u
<1>5. local \in Transform BY <1>2, LocalForType
<1>6. u \in Instance /\ s \in SceneRecord BY <1>2 DEF Good, Instance
<1> HIDE DEF local
<1>7. CorrectWorld(t, n, value).scene = set_local(s, n, local).scene
  BY <1>3, <1>6 DEF EditScene, Instance
<1>8. CASE t.scene.dirty # {} /\ ~revision_available(t.scene)
  <2>1. s = t.scene BY <1>2, <1>8 DEF evaluate_transforms, Refuse
  <2>2. set_local(s, n, local).scene = s BY <1>8, <2>1 DEF set_local, Refuse
  <2> QED BY <1>7, <2>1, <2>2
<1>9. CASE t.scene.dirty = {} \/ revision_available(t.scene)
  <2>1. s.dirty = {}
    <3>1. CASE t.scene.dirty = {} BY <1>2, <3>1
    <3>2. CASE t.scene.dirty # {}
      <4>1. t.scene.revision < MaxRevision BY <1>9, <3>2 DEF revision_available
      <4>2. EvaluationOf(t.scene, evaluate_transforms(t.scene).scene, evaluate_transforms(t.scene).changed)
        BY <1>1, <4>1, EvaluateScene
      <4> QED BY <1>2, <3>2, <4>2 DEF EvaluationOf
    <3> QED BY <3>1, <3>2
  <2>2. revision_available(s)
    <3> SUFFICES ASSUME ~revision_available(s) PROVE FALSE OBVIOUS
    <3>1. set_local(s, n, local).scene = s BY DEF set_local, Refuse
    <3> QED BY <1>7, <2>1, <3>1
  <2> HIDE DEF s
  <2>3. EvaluatedWorlds(set_local(s, n, local).scene)[n] = value
    BY <1>4, <1>5, <1>6, <2>1, <2>2, CorrectionEvaluated
  <2> QED BY <1>7, <2>3
<1> QED BY <1>8, <1>9

(* Every world correction that a tick processes and accepts is evaluated to *)
(* the very world it asked for, whatever was dirty above the node.          *)
THEOREM CorrectionsExact == Spec => WorldCorrectionExact
<1> DEFINE A == \A c \in Commands :
                  /\ c.op = "correctWorld" /\ DrainCommands /\ Head(tick.commands) = c
                  /\ c.node \in si'.scene.dirty /\ si'.scene.revision # si.scene.revision
                  => EvaluatedWorlds(si'.scene)[c.node] = c.value
<1>1. ASSUME IndInv PROVE A
  <2> SUFFICES ASSUME NEW c \in Commands, c.op = "correctWorld", DrainCommands,
                      Head(tick.commands) = c, c.node \in si'.scene.dirty,
                      si'.scene.revision # si.scene.revision
               PROVE  EvaluatedWorlds(si'.scene)[c.node] = c.value
    OBVIOUS
  <2>1. c.node \in Node /\ c.value \in Transform BY ClientAssumption
  <2>2. si' = CorrectWorld(si, c.node, c.value) BY DEF DrainCommands, Process
  <2>3. Good(si) BY <1>1 DEF IndInv
  <2> QED BY <2>1, <2>2, <2>3, CorrectionExact
<1>2. IndInv /\ [Next]_vars => [A]_vars BY <1>1
<1>3. Spec => [][A]_vars BY <1>2, SyncInvariant, PTL DEF Spec
<1> QED BY <1>3 DEF WorldCorrectionExact
================================================================================
