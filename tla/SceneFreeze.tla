------------------------------ MODULE SceneFreeze ------------------------------
(***************************************************************************)
(* The authoring scene, the runtime scenes freeze_scene makes of it, and   *)
(* an observer that follows the worlds through one freeze after another.   *)
(* Everything is keyed by stable identity: the dense handles of a frozen   *)
(* topology are left out, and so is the order of siblings, which no        *)
(* transform depends on.                                                   *)
(*                                                                         *)
(* The mutable topology (wz::core::graph) is external: it hands out new    *)
(* identities and refuses an absent node or a cycle.                       *)
(***************************************************************************)
EXTENDS Integers

CONSTANTS Id,              \* stable node identities
          NoId,            \* INVALID_STABLE_NODE
          Transform,       \* transform values
          Unseen,          \* what the observer has of a node it never saw
          Compose(_, _),   \* Policy::compose(parent world, local)
          MaxRevision      \* numeric_limits<scene_revision>::max()

ASSUME IdAssumption == NoId \notin Id
ASSUME TransformAssumption ==
  /\ Transform # {} /\ Unseen \notin Transform
  /\ \A x, y \in Transform : Compose(x, y) \in Transform
ASSUME RevisionAssumption == MaxRevision \in Nat

VARIABLES nodes, used, parent,       \* the mutable topology, the identities it gave out
          recorded,                  \* the nodes that have an authoring record
          authored, authored_revision,   \* local and local_revision of those records
          source_revision,           \* authoring_transform_state::m_revision
          frozen,                    \* whether there is a runtime scene
          rt_nodes, rt_parent,       \* its topology, by stable identity
          local, world, dirty, local_revision, world_revision,   \* its records
          m_revision,                \* its transform_state::m_revision
          m_authoring_local_revisions,
          observed, synced           \* the worlds an observer has, and since when

sourceVars == <<nodes, used, parent, recorded, authored, authored_revision, source_revision>>
topologyVars == <<rt_nodes, rt_parent, frozen, m_authoring_local_revisions>>
recordVars == <<local, world, dirty, local_revision, world_revision, m_revision>>
observerVars == <<observed, synced>>
vars == <<sourceVars, topologyVars, recordVars, observerVars>>

AnyTransform == CHOOSE t \in Transform : TRUE

Init ==
  /\ nodes = {} /\ used = {} /\ recorded = {}
  /\ parent = [n \in Id |-> NoId]
  /\ authored = [n \in Id |-> AnyTransform]
  /\ authored_revision = [n \in Id |-> 0]
  /\ source_revision = 0
  /\ frozen = FALSE /\ rt_nodes = {} /\ rt_parent = [n \in Id |-> NoId]
  /\ local = [n \in Id |-> AnyTransform] /\ world = [n \in Id |-> AnyTransform]
  /\ dirty = {} /\ m_revision = 0
  /\ local_revision = [n \in Id |-> 0] /\ world_revision = [n \in Id |-> 0]
  /\ m_authoring_local_revisions = [n \in Id |-> 0]
  /\ observed = [n \in Id |-> Unseen] /\ synced = 0

--------------------------------------------------------------------------------
(* Authoring.                                                               *)

(* A closed set holds the children of its members; what lies below a set is *)
(* the least closed set around it.                                          *)
Closed(set, within, up) == \A n \in within : up[n] \in set => n \in set
Below(roots, within, up) ==
  {n \in within : \A s \in SUBSET within : roots \subseteq s /\ Closed(s, within, up) => n \in s}

revision_available == source_revision < MaxRevision

(* authoring_transform_state::insert refuses without a revision.            *)
insert(n, value) ==
  IF revision_available
  THEN /\ recorded' = recorded \union {n}
       /\ authored' = [authored EXCEPT ![n] = value]
       /\ authored_revision' = [authored_revision EXCEPT ![n] = source_revision + 1]
       /\ source_revision' = source_revision + 1
  ELSE UNCHANGED <<recorded, authored, authored_revision, source_revision>>

(* A new identity under a parent, or a root.                                *)
NewNode(n, under) ==
  /\ n \notin used /\ under \in nodes \union {NoId}
  /\ nodes' = nodes \union {n} /\ used' = used \union {n}
  /\ parent' = [parent EXCEPT ![n] = under]

(* insert_root and insert_child.                                            *)
insert_node(n, under, value) ==
  /\ revision_available
  /\ NewNode(n, under)
  /\ insert(n, value)
  /\ UNCHANGED <<topologyVars, recordVars, observerVars>>

author_local(n, value) ==
  /\ n \in nodes /\ n \in recorded /\ revision_available
  /\ authored' = [authored EXCEPT ![n] = value]
  /\ authored_revision' = [authored_revision EXCEPT ![n] = source_revision + 1]
  /\ source_revision' = source_revision + 1
  /\ UNCHANGED <<nodes, used, parent, recorded, topologyVars, recordVars, observerVars>>

(* reparent and detach_to_root: a change of parent takes a revision, a      *)
(* change of place among the siblings none.                                 *)
reparent(n, under) ==
  /\ n \in nodes /\ under \in nodes \union {NoId}
  /\ under \notin Below({n}, nodes, parent)
  /\ parent[n] # under => revision_available
  /\ parent' = [parent EXCEPT ![n] = under]
  /\ source_revision' = IF parent[n] = under THEN source_revision ELSE source_revision + 1
  /\ UNCHANGED <<nodes, used, recorded, authored, authored_revision, topologyVars, recordVars,
                 observerVars>>

(* erase_absent_nodes drops each record whose node is gone.                 *)
erase_subtree(n) ==
  /\ n \in nodes /\ revision_available
  /\ nodes' = nodes \ Below({n}, nodes, parent)
  /\ recorded' = recorded \intersect nodes'
  /\ source_revision' = source_revision + 1
  /\ UNCHANGED <<used, parent, authored, authored_revision, topologyVars, recordVars,
                 observerVars>>

--------------------------------------------------------------------------------
(* Freezing.                                                                *)

FreezeTopology ==
  /\ frozen' = TRUE
  /\ rt_nodes' = nodes
  /\ rt_parent' = parent
  /\ m_authoring_local_revisions' = authored_revision
  /\ local' = authored
  /\ local_revision' = authored_revision
  /\ UNCHANGED sourceVars

(* The first freeze, or one without a previous scene: every node is dirty.  *)
(* The revision may be lower than that of an earlier scene, so whoever      *)
(* observes the new scene starts from nothing.                              *)
freeze_scene ==
  /\ FreezeTopology
  /\ world' = authored
  /\ dirty' = nodes
  /\ world_revision' = [n \in Id |-> 0]
  /\ m_revision' = source_revision
  /\ observed' = [n \in Id |-> Unseen] /\ synced' = 0

(* The conditions under which a surviving node loses its world.             *)
local_changed(n) == m_authoring_local_revisions[n] # authored_revision[n]
runtime_local_diverged(n) == local_revision[n] # m_authoring_local_revisions[n]
parent_changed(n) == rt_parent[n] # parent[n]

(* A remapping that only compares authoring revisions and parents.          *)
remapped_by_revision(n) == n \in rt_nodes /\ n \notin dirty /\ ~local_changed(n) /\ ~parent_changed(n)

remapped_clean(n) ==
  /\ n \in rt_nodes /\ n \notin dirty
  /\ ~local_changed(n) /\ ~runtime_local_diverged(n) /\ ~parent_changed(n)

(* A revision that starts again from the authoring scene's.                 *)
source_only_revision == source_revision
frozen_revision == IF source_revision > m_revision THEN source_revision ELSE m_revision

freeze_scene_incremental ==
  /\ frozen
  /\ FreezeTopology
  /\ world' = [n \in Id |-> IF n \in rt_nodes THEN world[n] ELSE authored[n]]
  /\ dirty' = {n \in nodes : ~remapped_clean(n)}
  /\ world_revision' = [n \in Id |-> IF n \in rt_nodes THEN world_revision[n] ELSE 0]
  /\ m_revision' = frozen_revision
  /\ UNCHANGED observerVars

--------------------------------------------------------------------------------
(* The runtime scene.                                                       *)

set_local(n, value) ==
  /\ n \in rt_nodes /\ m_revision < MaxRevision
  /\ local' = [local EXCEPT ![n] = value]
  /\ local_revision' = [local_revision EXCEPT ![n] = m_revision + 1]
  /\ dirty' = dirty \union {n}
  /\ m_revision' = m_revision + 1
  /\ UNCHANGED <<sourceVars, topologyVars, world, world_revision, observerVars>>

mark_dirty(n) ==
  /\ n \in rt_nodes /\ m_revision < MaxRevision
  /\ dirty' = dirty \union {n}
  /\ m_revision' = m_revision + 1
  /\ UNCHANGED <<sourceVars, topologyVars, local, local_revision, world, world_revision,
                 observerVars>>

ComposedWorld(n, w) == IF rt_parent[n] = NoId THEN local[n] ELSE Compose(w[rt_parent[n]], local[n])

(* A plan over some dirty roots is evaluated: a root is a dirty node that   *)
(* is not below another one.                                                *)
DirtyRoots == {n \in dirty : \A d \in dirty : n \in Below({d}, rt_nodes, rt_parent) => d = n}

evaluate_transforms(roots, scope) ==
  /\ m_revision < MaxRevision /\ roots # {}
  /\ \E w \in [Id -> Transform] :
       /\ \A n \in Id : w[n] = IF n \in scope THEN ComposedWorld(n, w) ELSE world[n]
       /\ world' = w
  /\ dirty' = dirty \ scope
  /\ world_revision' = [n \in Id |-> IF n \in scope THEN m_revision + 1 ELSE world_revision[n]]
  /\ m_revision' = m_revision + 1
  /\ UNCHANGED <<sourceVars, topologyVars, local, local_revision, observerVars>>

(* The observer takes what changed_transform_nodes_since(synced) reports.   *)
Synchronize ==
  /\ frozen
  /\ observed' = [n \in Id |-> IF n \in rt_nodes /\ world_revision[n] > synced THEN world[n]
                               ELSE observed[n]]
  /\ synced' = m_revision
  /\ UNCHANGED <<sourceVars, topologyVars, recordVars>>

AuthorStep ==
  \/ \E n \in Id, under \in Id \union {NoId}, value \in Transform : insert_node(n, under, value)
  \/ \E n \in Id, value \in Transform : author_local(n, value)
  \/ \E n \in Id, under \in Id \union {NoId} : reparent(n, under)
  \/ \E n \in Id : erase_subtree(n)

RuntimeStep ==
  \/ \E n \in Id, value \in Transform : set_local(n, value)
  \/ \E n \in Id : mark_dirty(n)
  \/ \E roots \in SUBSET DirtyRoots :
       evaluate_transforms(roots, Below(roots, rt_nodes, rt_parent))
  \/ Synchronize

Next == AuthorStep \/ freeze_scene \/ freeze_scene_incremental \/ RuntimeStep

Spec == Init /\ [][Next]_vars

--------------------------------------------------------------------------------
(* A world that is not marked dirty is its parent's stored world composed   *)
(* with its local, through edits of both scenes, partial evaluations and    *)
(* freezes that carry worlds over: what makes it sound to evaluate only     *)
(* below the dirty nodes of a scene that was frozen incrementally.          *)
Coherent == \A n \in rt_nodes \ dirty : world[n] = ComposedWorld(n, world)

(* The observer misses nothing across freezes: where a clean node's world   *)
(* is not what it has, the next changed_transform_nodes_since(synced)       *)
(* reports the node.                                                        *)
ObserverComplete ==
  \A n \in rt_nodes \ dirty : world[n] # observed[n] => world_revision[n] > synced
================================================================================
