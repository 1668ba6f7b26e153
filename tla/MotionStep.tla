------------------------------ MODULE MotionStep ------------------------------
(***************************************************************************)
(* One fixed step of a moving scene, as functions of its state: the local  *)
(* edits and the evaluation of transform_state, the motions of             *)
(* active_motion_set as the map ActiveMotionSet shows them to be, the tick *)
(* of fixed_step_sequence, and advance_motion_scene on top of them.        *)
(*                                                                         *)
(* Evaluations are whole here; SceneTransforms and TransformEvaluation     *)
(* show what plans, frontiers and threads make of one.                     *)
(***************************************************************************)
EXTENDS Integers, FiniteSets

CONSTANTS Node,              \* node handles, numbers
          NoNode,            \* INVALID_NODE
          Parent,            \* the parent of each node, NoNode for a root
          Transform,         \* transform values
          Compose(_, _),     \* Policy::compose(parent world, local)
          Motion,            \* the motions of active records
          Still,             \* the motion of a node without a record
          integrate(_, _),   \* MotionPolicy::integrate(local, motion)
          MaxRevision,       \* numeric_limits<scene_revision>::max()
          MaxTick            \* numeric_limits<uint64_t>::max()

ASSUME StepAssumption ==
  /\ Node \subseteq Nat /\ IsFiniteSet(Node) /\ NoNode \notin Node
  /\ Parent \in [Node -> Node \union {NoNode}]
  /\ \A n \in Node : Parent[n] # NoNode => Parent[n] < n
  /\ \A x, y \in Transform : Compose(x, y) \in Transform
  /\ \A x \in Transform, v \in Motion : integrate(x, v) \in Transform
  /\ Still \notin Motion
  /\ MaxRevision \in Nat /\ MaxTick \in Nat

(* A frozen scene: nothing evaluated, nothing moving.                      *)
FrozenScene(local) ==
  [local |-> local, world |-> local, dirty |-> Node, world_revision |-> [n \in Node |-> 0],
   revision |-> 0, motion |-> [n \in Node |-> Still], next_tick |-> 0]

(* The ancestors of a node, itself included.                               *)
Above[n \in Node] == {n} \union (IF Parent[n] = NoNode THEN {} ELSE Above[Parent[n]])

Affected(s) == {n \in Node : Above[n] \intersect s.dirty # {}}

revision_available(s) == s.revision < MaxRevision

Ok(s) == [scene |-> s, error |-> "none", changed |-> {}]
Refuse(s, error) == [scene |-> s, error |-> error, changed |-> {}]

--------------------------------------------------------------------------------
set_local(s, n, value) ==
  IF revision_available(s)
  THEN Ok([s EXCEPT !.local[n] = value, !.dirty = @ \union {n}, !.revision = @ + 1])
  ELSE Refuse(s, "revision_exhausted")

(* set_local for each node of a set, mark_dirty for each: in ascending     *)
(* order, until the revisions run out.                                     *)
Granted(s, nodes) ==
  {n \in nodes : Cardinality({m \in nodes : m < n}) < MaxRevision - s.revision}

mark_each(s, nodes) ==
  [s EXCEPT !.dirty = @ \union Granted(s, nodes), !.revision = @ + Cardinality(Granted(s, nodes))]

set_locals(s, values) ==
  LET granted == Granted(s, DOMAIN values)
      written == [s EXCEPT !.local = [n \in Node |-> IF n \in granted THEN values[n] ELSE @[n]],
                           !.dirty = @ \union granted,
                           !.revision = @ + Cardinality(granted)]
  IN  IF granted = DOMAIN values THEN Ok(written) ELSE Refuse(written, "revision_exhausted")

(* The worlds after the dirty nodes and all below them are recomposed.     *)
EvaluatedWorlds(s) ==
  LET affected == Affected(s)
      w[n \in Node] == IF n \notin affected THEN s.world[n]
                       ELSE IF Parent[n] = NoNode THEN s.local[n]
                       ELSE Compose(w[Parent[n]], s.local[n])
  IN  [n \in Node |-> w[n]]

(* A full plan and its evaluation.                                         *)
evaluate_transforms(s) ==
  IF s.dirty = {} THEN Ok(s)
  ELSE IF ~revision_available(s) THEN Refuse(s, "revision_exhausted")
  ELSE [scene |-> [s EXCEPT !.world = EvaluatedWorlds(s), !.dirty = {},
                            !.revision = @ + 1,
                            !.world_revision = [n \in Node |-> IF n \in Affected(s)
                                                               THEN s.revision + 1 ELSE @[n]]],
        error |-> "none", changed |-> Affected(s)]

--------------------------------------------------------------------------------
Active(s) == {n \in Node : s.motion[n] # Still}

(* The integrated locals are written in the order of the records; a write  *)
(* that is refused ends the step.                                          *)
integrated_locals(s) ==
  set_locals(s, [n \in Active(s) |-> integrate(s.local[n], s.motion[n])])

(* The step once it is admitted: integrate, evaluate, complete the tick.   *)
admitted_step(s) ==
  LET moved == integrated_locals(s)
      evaluated == evaluate_transforms(moved.scene)
  IN  IF moved.error # "none" THEN moved
      ELSE IF evaluated.error # "none" THEN evaluated
      ELSE [evaluated EXCEPT !.scene.next_tick = @ + 1]

(* Head room for the local edits and always one revision for the worlds.    *)
HeadRoomPlusOne(s) == Cardinality(Active(s)) < MaxRevision - s.revision

(* One revision for each local edit, and one for the worlds.               *)
head_room(s) ==
  LET remaining == MaxRevision - s.revision
      needs_world_revision == s.dirty # {} \/ Active(s) # {}
  IN  /\ Cardinality(Active(s)) <= remaining
      /\ needs_world_revision => remaining - Cardinality(Active(s)) # 0

(* A SceneInstance steps by its own sequence's delta, which is positive,    *)
(* and its own active set, made for its topology and size: the errors left  *)
(* are those of a scene that has run out of ticks or revisions.             *)
step_error(s) ==
  IF s.next_tick = MaxTick THEN "tick_exhausted"
  ELSE IF ~head_room(s) THEN "revision_exhausted"
  ELSE "none"

advance_motion_scene(s) ==
  IF step_error(s) # "none" THEN Refuse(s, step_error(s)) ELSE admitted_step(s)
================================================================================
