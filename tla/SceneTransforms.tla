-------------------------- MODULE SceneTransforms --------------------------
(***************************************************************************)
(* What transform_state and evaluate_transforms promise together, without  *)
(* plans, workspaces or frontiers: a scene of nodes with local and world   *)
(* transforms, edits that make worlds stale, evaluations that bring the    *)
(* subtrees of some directly dirty roots up to date, and an observer that  *)
(* follows the worlds by revision.                                         *)
(*                                                                         *)
(* An evaluation is not atomic here: it visits one node per step, because  *)
(* the parallel overload lets the threads of one level run in any order.   *)
(* No other operation runs meanwhile: the caller provides exclusive        *)
(* synchronisation (docs/transforms.md).                                   *)
(***************************************************************************)
EXTENDS SceneForest

VARIABLES local, world,     \* the transforms of each record
          dirty,            \* the nodes whose record is directly dirty
          world_revision,   \* the revision that last wrote each world
          m_revision,
          scope,            \* the nodes of the evaluation in progress
          pending,          \* those whose world is not written yet
          evaluating,       \* whether an evaluation is in progress
          observed,         \* the worlds an observer has seen
          synced            \* the revision at which it last looked

vars == <<local, world, dirty, world_revision, m_revision, scope, pending,
          evaluating, observed, synced>>
evalVars == <<scope, pending, evaluating>>
observerVars == <<observed, synced>>

(* A node needs evaluation when it or an ancestor is directly dirty.       *)
Affected(n) == Above[n] \intersect dirty # {}
DirtyRoots == {n \in dirty : Above[n] \intersect dirty = {n}}
Under(roots) == {n \in Node : Above[n] \intersect roots # {}}

(* The world a node has when it is composed from its parent's world.       *)
ComposedWorld(n) == IF Parent[n] = NoNode THEN local[n]
                    ELSE Compose(world[Parent[n]], local[n])

(* A newly frozen scene; the observer has seen what the records hold.      *)
Init == /\ \E s \in FrozenScenes : local = s.local /\ world = s.world /\ dirty = s.dirty
        /\ world_revision = [n \in Node |-> 0]
        /\ m_revision = 0
        /\ scope = {} /\ pending = {} /\ evaluating = FALSE
        /\ observed = world /\ synced = 0

revision_available == m_revision < MaxRevision

set_local(n, value) ==
  /\ ~evaluating /\ revision_available
  /\ local' = [local EXCEPT ![n] = value]
  /\ dirty' = dirty \union {n}
  /\ m_revision' = m_revision + 1
  /\ UNCHANGED <<world, world_revision, evalVars, observerVars>>

mark_dirty(n) ==
  /\ ~evaluating /\ revision_available
  /\ dirty' = dirty \union {n}
  /\ m_revision' = m_revision + 1
  /\ UNCHANGED <<local, world, world_revision, evalVars, observerVars>>

(* An evaluation of the subtrees of some topmost dirty nodes starts.       *)
Begin(roots) ==
  /\ ~evaluating /\ revision_available
  /\ roots # {}
  /\ evaluating' = TRUE
  /\ scope' = Under(roots)
  /\ pending' = Under(roots)
  /\ m_revision' = m_revision + 1
  /\ UNCHANGED <<local, world, dirty, world_revision, observerVars>>

(* A node whose parent is up to date gets its world.  The sequential       *)
(* evaluation stamps and cleans it at once, the parallel one at the end.   *)
Ready(n) == n \in pending /\ Above[n] \intersect pending = {n}

Evaluate(n) ==
  /\ Ready(n)
  /\ world' = [world EXCEPT ![n] = ComposedWorld(n)]
  /\ pending' = pending \ {n}
  /\ \/ /\ world_revision' = [world_revision EXCEPT ![n] = m_revision]
        /\ dirty' = dirty \ {n}
     \/ UNCHANGED <<world_revision, dirty>>
  /\ UNCHANGED <<local, m_revision, scope, evaluating, observerVars>>

Finish ==
  /\ evaluating /\ pending = {}
  /\ world_revision' = [n \in Node |-> IF n \in scope THEN m_revision
                                       ELSE world_revision[n]]
  /\ dirty' = dirty \ scope
  /\ evaluating' = FALSE
  /\ scope' = {}
  /\ UNCHANGED <<local, world, m_revision, pending, observerVars>>

(* The observer takes the nodes changed_transform_nodes_since(synced)      *)
(* reports and remembers the state's revision.                             *)
changed_since(since) == {n \in Node : world_revision[n] > since}

Synchronize ==
  /\ ~evaluating
  /\ observed' = [n \in Node |-> IF n \in changed_since(synced) THEN world[n]
                                 ELSE observed[n]]
  /\ synced' = m_revision
  /\ UNCHANGED <<local, world, dirty, world_revision, m_revision, evalVars>>

Edit == \E n \in Node : mark_dirty(n) \/ \E value \in Locals : set_local(n, value)
Next == \/ Edit
        \/ \E roots \in SUBSET DirtyRoots : Begin(roots)
        \/ \E n \in Node : Evaluate(n)
        \/ Finish
        \/ Synchronize

Spec == Init /\ [][Next]_vars

-----------------------------------------------------------------------------
(* Types; an evaluation only touches its scope.                            *)
TypeOK == /\ local \in [Node -> Transform] /\ world \in [Node -> Transform]
          /\ dirty \in SUBSET Node
          /\ world_revision \in [Node -> 0..MaxRevision]
          /\ m_revision \in 0..MaxRevision
          /\ scope \in SUBSET Node /\ pending \in SUBSET scope
          /\ evaluating \in BOOLEAN
          /\ observed \in [Node -> Transform] /\ synced \in 0..MaxRevision

(* Coherence: between operations the world of a node with no dirty node    *)
(* above it is its parent's world composed with its local transform, no    *)
(* matter which edits, full or partial evaluations came before             *)
(* (docs/transforms.md: affected(node) = directly_dirty(node) OR           *)
(* affected(parent(node))).                                                *)
Coherent == ~evaluating =>
  \A n \in Node : ~Affected(n) => world[n] = ComposedWorld(n)

(* The observer misses nothing: a world that differs from what it has seen *)
(* is reported by the next changed_transform_nodes_since(synced).          *)
ObserverComplete == ~evaluating =>
  \A n \in Node : world[n] # observed[n] => n \in changed_since(synced)
=============================================================================
