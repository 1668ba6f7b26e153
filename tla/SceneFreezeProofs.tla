--------------------------- MODULE SceneFreezeProofs ---------------------------
(***************************************************************************)
(* For every set of identities and every composition: worlds that freezing *)
(* carries over are coherent, and an observer misses none of them.         *)
(***************************************************************************)
EXTENDS SceneFreeze, TLAPS

Types ==
  /\ nodes \subseteq Id /\ used \subseteq Id
  /\ parent \in [Id -> Id \union {NoId}]
  /\ authored \in [Id -> Transform] /\ authored_revision \in [Id -> Nat]
  /\ source_revision \in Nat
  /\ rt_nodes \subseteq Id /\ rt_parent \in [Id -> Id \union {NoId}]
  /\ local \in [Id -> Transform] /\ world \in [Id -> Transform]
  /\ dirty \subseteq rt_nodes
  /\ local_revision \in [Id -> Nat] /\ world_revision \in [Id -> Nat]
  /\ m_revision \in Nat /\ m_authoring_local_revisions \in [Id -> Nat]
  /\ observed \in [Id -> Transform \union {Unseen}] /\ synced \in Nat

(* A parent is a node of the same topology.                                *)
ParentsExist ==
  /\ \A n \in nodes : parent[n] \in nodes \union {NoId}
  /\ \A n \in rt_nodes : rt_parent[n] \in rt_nodes \union {NoId}

(* Neither clock is behind what was stamped by it or taken from it.        *)
ClocksAhead ==
  /\ \A n \in Id : authored_revision[n] <= source_revision
  /\ \A n \in Id : m_authoring_local_revisions[n] <= source_revision
  /\ \A n \in Id : m_authoring_local_revisions[n] <= m_revision
  /\ synced <= m_revision

(* A runtime local that carries the revision of the authored one is it.    *)
SameRevisionSameLocal ==
  \A n \in Id :
    /\ local_revision[n] = m_authoring_local_revisions[n]
    /\ m_authoring_local_revisions[n] = authored_revision[n]
    => local[n] = authored[n]

IndInv ==
  /\ Types /\ ParentsExist /\ ClocksAhead /\ SameRevisionSameLocal
  /\ Coherent /\ ObserverComplete

--------------------------------------------------------------------------------
(* What lies below a set includes the set and the children of its members. *)
LEMMA BelowClosed ==
  ASSUME NEW roots, NEW within, NEW up
  PROVE  /\ Below(roots, within, up) \subseteq within
         /\ \A n \in within : up[n] \in Below(roots, within, up)
                                => n \in Below(roots, within, up)
BY DEF Below, Closed

(* The first state satisfies the invariant.                                *)
LEMMA InitInv == Init => IndInv
<1> USE TransformAssumption
<1>1. AnyTransform \in Transform
  BY DEF AnyTransform
<1> QED
  BY <1>1 DEF Init, IndInv, Types, ParentsExist, ClocksAhead, SameRevisionSameLocal,
              Coherent, ObserverComplete

--------------------------------------------------------------------------------
(* Edits of the authoring scene leave the runtime scene alone.             *)
LEMMA AuthorInv ==
  ASSUME IndInv, AuthorStep
  PROVE  IndInv'
<1> USE DEF IndInv, Types
<1>1. UNCHANGED <<topologyVars, recordVars, observerVars>>
  BY DEF AuthorStep, insert_node, author_local, reparent, erase_subtree
<1>2. Coherent' /\ ObserverComplete'
  BY <1>1 DEF Coherent, ObserverComplete, ComposedWorld, topologyVars, recordVars, observerVars
<1>3. ASSUME NEW n \in Id, NEW under \in Id \union {NoId}, NEW value \in Transform,
             insert_node(n, under, value)
      PROVE  IndInv'
  <2>1. Types'
    BY <1>1, <1>3 DEF insert_node, NewNode, insert, topologyVars, recordVars, observerVars
  <2>2. ParentsExist'
    BY <1>1, <1>3 DEF insert_node, NewNode, insert, ParentsExist, topologyVars
  <2>3. ClocksAhead' /\ SameRevisionSameLocal'
    BY <1>1, <1>3 DEF insert_node, insert, revision_available, ClocksAhead,
                      SameRevisionSameLocal, topologyVars, recordVars, observerVars
  <2> QED BY <1>2, <2>1, <2>2, <2>3
<1>4. ASSUME NEW n \in Id, NEW value \in Transform, author_local(n, value)
      PROVE  IndInv'
  <2>1. Types' /\ ParentsExist'
    BY <1>1, <1>4 DEF author_local, ParentsExist, topologyVars, recordVars, observerVars
  <2>2. ClocksAhead' /\ SameRevisionSameLocal'
    BY <1>1, <1>4 DEF author_local, ClocksAhead, SameRevisionSameLocal,
                      topologyVars, recordVars, observerVars
  <2> QED BY <1>2, <2>1, <2>2
<1>5. ASSUME NEW n \in Id, NEW under \in Id \union {NoId}, reparent(n, under)
      PROVE  IndInv'
  <2>1. Types' /\ ParentsExist'
    BY <1>1, <1>5 DEF reparent, ParentsExist, topologyVars, recordVars, observerVars
  <2>2. ClocksAhead' /\ SameRevisionSameLocal'
    BY <1>1, <1>5 DEF reparent, ClocksAhead, SameRevisionSameLocal,
                      topologyVars, recordVars, observerVars
  <2> QED BY <1>2, <2>1, <2>2
<1>6. ASSUME NEW n \in Id, erase_subtree(n)
      PROVE  IndInv'
  <2>1. Types' /\ ClocksAhead' /\ SameRevisionSameLocal'
    BY <1>1, <1>6 DEF erase_subtree, ClocksAhead, SameRevisionSameLocal,
                      topologyVars, recordVars, observerVars
  <2>2. ParentsExist'
    BY <1>1, <1>6, BelowClosed DEF erase_subtree, ParentsExist, topologyVars
  <2> QED BY <1>2, <2>1, <2>2
<1> QED BY <1>3, <1>4, <1>5, <1>6 DEF AuthorStep

--------------------------------------------------------------------------------
(* A freeze without a previous scene leaves no clean node.                 *)
LEMMA FreezeInv ==
  ASSUME IndInv, freeze_scene
  PROVE  IndInv'
BY DEF IndInv, Types, ParentsExist, ClocksAhead, SameRevisionSameLocal, Coherent,
       ObserverComplete, freeze_scene, FreezeTopology, sourceVars

(* An incremental freeze keeps a node clean only where its local, its      *)
(* parent and therefore its parent's stored world are the same as before.  *)
LEMMA IncrementalFreezeInv ==
  ASSUME IndInv, freeze_scene_incremental
  PROVE  IndInv'
<1> USE DEF IndInv, Types, freeze_scene_incremental, FreezeTopology, sourceVars, observerVars
<1>1. Types' /\ ParentsExist' /\ SameRevisionSameLocal'
  BY DEF ParentsExist, SameRevisionSameLocal, frozen_revision
<1>2. ClocksAhead'
  BY DEF ClocksAhead, frozen_revision
<1>3. ASSUME NEW n \in (rt_nodes \ dirty)'
      PROVE  /\ n \in rt_nodes \ dirty /\ world'[n] = world[n]
             /\ world_revision'[n] = world_revision[n]
             /\ local'[n] = local[n] /\ rt_parent'[n] = rt_parent[n]
  BY <1>3 DEF remapped_clean, local_changed, runtime_local_diverged, parent_changed,
              SameRevisionSameLocal
<1>4. Coherent'
  <2> SUFFICES ASSUME NEW n \in (rt_nodes \ dirty)'
               PROVE  world'[n] = ComposedWorld(n, world)'
    BY DEF Coherent
  <2>1. world[n] = ComposedWorld(n, world)
    BY <1>3 DEF Coherent
  <2>2. rt_parent[n] # NoId => world'[rt_parent[n]] = world[rt_parent[n]]
    BY <1>3 DEF ParentsExist
  <2>3. /\ world'[n] = world[n] /\ local'[n] = local[n] /\ rt_parent'[n] = rt_parent[n]
    BY <1>3
  <2> QED
    <3> HIDE DEF IndInv, Types, freeze_scene_incremental, FreezeTopology
    <3> QED BY <2>1, <2>2, <2>3 DEF ComposedWorld
<1>5. ObserverComplete'
  BY <1>3 DEF ObserverComplete
<1> QED BY <1>1, <1>2, <1>4, <1>5

--------------------------------------------------------------------------------
(* Steps of the runtime scene and of its observer.                         *)
LEMMA RuntimeInv ==
  ASSUME IndInv, RuntimeStep
  PROVE  IndInv'
<1> USE DEF IndInv, Types
<1>1. ASSUME NEW n \in Id, NEW value \in Transform, set_local(n, value)
      PROVE  IndInv'
  <2>1. Types' /\ ParentsExist' /\ ClocksAhead' /\ SameRevisionSameLocal'
    BY <1>1 DEF set_local, sourceVars, topologyVars, observerVars, ParentsExist, ClocksAhead,
                SameRevisionSameLocal
  <2>2. Coherent' /\ ObserverComplete'
    BY <1>1 DEF set_local, sourceVars, topologyVars, observerVars, Coherent, ObserverComplete,
                ComposedWorld
  <2> QED BY <2>1, <2>2
<1>2. ASSUME NEW n \in Id, mark_dirty(n)
      PROVE  IndInv'
  <2>1. Types' /\ ParentsExist' /\ ClocksAhead' /\ SameRevisionSameLocal'
    BY <1>2 DEF mark_dirty, sourceVars, topologyVars, observerVars, ParentsExist, ClocksAhead,
                SameRevisionSameLocal
  <2>2. Coherent' /\ ObserverComplete'
    BY <1>2 DEF mark_dirty, sourceVars, topologyVars, observerVars, Coherent, ObserverComplete,
                ComposedWorld
  <2> QED BY <2>1, <2>2
<1>3. ASSUME NEW roots \in SUBSET DirtyRoots,
             evaluate_transforms(roots, Below(roots, rt_nodes, rt_parent))
      PROVE  IndInv'
  <2> DEFINE scope == Below(roots, rt_nodes, rt_parent)
  <2>1. /\ scope \subseteq rt_nodes
        /\ \A n \in rt_nodes : rt_parent[n] \in scope => n \in scope
    BY BelowClosed
  <2> HIDE DEF scope
  <2>2. evaluate_transforms(roots, scope)
    BY <1>3 DEF scope
  <2>3. Types' /\ ParentsExist' /\ ClocksAhead' /\ SameRevisionSameLocal'
    BY <2>2 DEF evaluate_transforms, sourceVars, topologyVars, observerVars, ParentsExist,
                ClocksAhead, SameRevisionSameLocal
  <2>4. /\ \A n \in Id : world'[n] = IF n \in scope THEN ComposedWorld(n, world')
                                     ELSE world[n]
        /\ UNCHANGED <<rt_nodes, rt_parent, local, observed, synced>>
        /\ dirty' = dirty \ scope
    BY <2>2 DEF evaluate_transforms, topologyVars, observerVars
  <2>5. Coherent'
    <3> SUFFICES ASSUME NEW n \in rt_nodes, n \notin dirty \ scope
                 PROVE  world'[n] = ComposedWorld(n, world')
      BY <2>4 DEF Coherent, ComposedWorld
    <3>1. CASE n \in scope
      BY <2>4, <3>1
    <3>2. CASE n \notin scope
      <4>1. world[n] = ComposedWorld(n, world)
        BY <3>2 DEF Coherent
      <4>2. rt_parent[n] # NoId => world'[rt_parent[n]] = world[rt_parent[n]]
        BY <2>1, <2>4, <3>2
      <4> QED BY <2>4, <3>2, <4>1, <4>2 DEF ComposedWorld
    <3> QED BY <3>1, <3>2
  <2>6. ObserverComplete'
    BY <2>2, <2>4 DEF evaluate_transforms, ObserverComplete, ClocksAhead
  <2> QED BY <2>3, <2>5, <2>6
<1>4. ASSUME Synchronize
      PROVE  IndInv'
  <2>1. Types' /\ ParentsExist' /\ ClocksAhead' /\ SameRevisionSameLocal'
    BY <1>4 DEF Synchronize, sourceVars, topologyVars, recordVars, ParentsExist, ClocksAhead,
                SameRevisionSameLocal
  <2>2. Coherent' /\ ObserverComplete'
    BY <1>4 DEF Synchronize, sourceVars, topologyVars, recordVars, Coherent, ObserverComplete,
                ComposedWorld
  <2> QED BY <2>1, <2>2
<1> QED BY <1>1, <1>2, <1>3, <1>4 DEF RuntimeStep

(* The inductive invariant of authoring, freezing, evaluation and the      *)
(* observer (authoring_scene.hpp, scene_freeze.hpp, transform_state.hpp).  *)
THEOREM FreezeInvariant == Spec => []IndInv
<1>1. IndInv /\ [Next]_vars => IndInv'
  <2> SUFFICES ASSUME IndInv, [Next]_vars PROVE IndInv'
    OBVIOUS
  <2>1. CASE UNCHANGED vars
    BY <2>1 DEF IndInv, Types, ParentsExist, ClocksAhead, SameRevisionSameLocal, Coherent,
                ObserverComplete, ComposedWorld, vars, sourceVars, topologyVars, recordVars,
                observerVars
  <2> QED BY <2>1, AuthorInv, FreezeInv, IncrementalFreezeInv, RuntimeInv DEF Next
<1> QED BY <1>1, InitInv, PTL DEF Spec

(* Worlds that incremental freezing carries over are right: whatever was   *)
(* edited in either scene, a node that is not dirty has the world composed *)
(* from its parent's (freeze_scene_impl, scene_freeze.hpp).                *)
THEOREM FreezeCoherence == Spec => []Coherent
<1>1. IndInv => Coherent BY DEF IndInv
<1> QED BY <1>1, FreezeInvariant, PTL

(* Across freezes that carry the clock on, changed_transform_nodes_since   *)
(* reports every clean node whose world the observer does not have.        *)
THEOREM FreezeObserver == Spec => []ObserverComplete
<1>1. IndInv => ObserverComplete BY DEF IndInv
<1> QED BY <1>1, FreezeInvariant, PTL
================================================================================
