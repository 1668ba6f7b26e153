---------------------------- MODULE SceneForest ----------------------------
(***************************************************************************)
(* The frozen topology that transform_state and its evaluation are about,  *)
(* the transforms they compose and the records freeze_scene hands over.    *)
(***************************************************************************)
EXTENDS Integers

CONSTANTS Node,           \* node handles of the frozen topology
          NoNode,         \* INVALID_NODE
          Parent,         \* the parent of each node, NoNode for a root
          Above,          \* the ancestors of each node, itself included
          Transform,      \* transform values
          Locals,         \* the transforms set_local is called with
          FrozenScenes,   \* the records freeze_scene may hand over
          Compose(_, _),  \* Policy::compose(parent world, local)
          MaxRevision     \* numeric_limits<scene_revision>::max()

ASSUME ParentAssumption == /\ Parent \in [Node -> Node \union {NoNode}]
                           /\ NoNode \notin Node
(* Above is the reflexive and transitive closure of Parent, and a forest   *)
(* has no cycle.                                                           *)
ASSUME AboveAssumption ==
  /\ Above \in [Node -> SUBSET Node]
  /\ \A n \in Node : n \in Above[n]
  /\ \A n \in Node : Parent[n] # NoNode => Above[n] = {n} \union Above[Parent[n]]
  /\ \A n \in Node : Parent[n] = NoNode => Above[n] = {n}
  /\ \A m, n \in Node : m \in Above[n] => Above[m] \subseteq Above[n]
  /\ \A n \in Node : Parent[n] # NoNode => n \notin Above[Parent[n]]
(* A frozen scene is coherent where it is not dirty: the first freeze has  *)
(* every node dirty, an incremental one keeps evaluated worlds.            *)
ASSUME FrozenAssumption ==
  /\ FrozenScenes \subseteq [local : [Node -> Transform], world : [Node -> Transform],
                             dirty : SUBSET Node]
  /\ \A s \in FrozenScenes, n \in Node :
       Above[n] \intersect s.dirty = {} =>
         s.world[n] = IF Parent[n] = NoNode THEN s.local[n]
                      ELSE Compose(s.world[Parent[n]], s.local[n])
ASSUME TransformAssumption ==
  /\ Locals \subseteq Transform
  /\ \A x, y \in Transform : Compose(x, y) \in Transform
ASSUME RevisionAssumption == MaxRevision \in Nat
=============================================================================
