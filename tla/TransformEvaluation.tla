------------------------ MODULE TransformEvaluation ------------------------
(***************************************************************************)
(* transform_state, transform_evaluation_workspace, make_plan and both     *)
(* overloads of evaluate_transforms (include/scene_polytree), for one      *)
(* frozen topology.                                                        *)
(*                                                                         *)
(* A plan is a handle: its node spans point into the workspace that made   *)
(* it, so what it means is read from the workspace when it is executed.    *)
(* The workspace keeps its stamps between plans and tells them apart by a  *)
(* generation that wraps around.  Edits and plans are atomic; evaluation   *)
(* visits one node per step, in plan order or, in the parallel overload,   *)
(* in any order within the lowest unfinished dependency level (what        *)
(* ParallelFor promises of one execute per level).                         *)
(***************************************************************************)
EXTENDS SceneForest, SequencesExt

CONSTANTS Orders,               \* topological orders freezing may produce
          Workspace,            \* workspaces in use
          PlanSlot,             \* plan handles a caller may hold
          RootRequests,         \* selected_roots arguments of partial plans
          Grains,               \* minimum_task_grain options
          GenerationModulus,    \* 2^64 for m_generation, small here
          MaxEvaluations,       \* bound on m_evaluation_generation
          NoPlan                \* an empty plan slot

ASSUME OrderAssumption ==
  \A o \in Orders :
    /\ o \in Seq(Node) /\ ToSet(o) = Node /\ IsInjective(o)
    /\ \A i, j \in DOMAIN o : Parent[o[j]] = o[i] => i < j
ASSUME ModulusAssumption == GenerationModulus \in Nat /\ GenerationModulus > 2
ASSUME RequestAssumption == \A roots \in RootRequests : Len(roots) \in Nat
ASSUME PlanAssumption ==
  NoPlan \notin [workspace : Workspace, partial : BOOLEAN, length : Nat,
                 source_revision : Nat, mutation_generation : Nat,
                 evaluation_generation : Nat, workspace_generation : Nat, fresh : BOOLEAN]

VARIABLES
  order,     \* the polytree's topological order, fixed by freezing
  local, world, dirty, local_revision, world_revision,   \* m_records
  m_dirty_nodes, m_revision, m_mutation_generation, m_evaluation_generation,
  ws,        \* the workspaces
  plans,     \* the plan handles
  run,       \* the evaluation in progress
  observed, synced  \* a follower of the worlds, as in SceneTransforms

stateVars == <<local, world, dirty, local_revision, world_revision,
               m_dirty_nodes, m_revision, m_mutation_generation>>
observerVars == <<observed, synced>>
vars == <<order, stateVars, m_evaluation_generation, ws, plans, run, observerVars>>

NoRun == [mode |-> "none", ordered |-> <<>>, todo |-> <<>>]
Idle == run.mode = "none"

-----------------------------------------------------------------------------
(* The polytree's generic plan and what prepare caches of it               *)

(* The members of a sequence that are in S (external:                      *)
(* wz::core::algo::next::filter).                                          *)
Filter(sequence, S) ==
  LET kept[i \in 0 .. Len(sequence)] ==
        IF i = 0 THEN <<>>
        ELSE IF sequence[i] \in S THEN Append(kept[i - 1], sequence[i]) ELSE kept[i - 1]
  IN  kept[Len(sequence)]

Level(n) == Cardinality(Above[n]) - 1
Roots == Filter(order, {n \in Node : Parent[n] = NoNode})

RankIn == [o \in Orders |-> [n \in Node |-> (CHOOSE i \in DOMAIN o : o[i] = n) - 1]]
rank == RankIn[order]

(* subtree_end and subtree_size after the last k nodes of the order, which *)
(* add what they have accumulated to their parents.                        *)
AccumulateSubtree(subtrees, n) ==
  IF Parent[n] = NoNode THEN subtrees
  ELSE [end |-> [subtrees.end EXCEPT ![Parent[n]] = Max({@, subtrees.end[n]})],
        size |-> [subtrees.size EXCEPT ![Parent[n]] = @ + subtrees.size[n]]]
SubtreesIn == [o \in Orders |->
  LET accumulated[k \in 0 .. Len(o)] ==
        IF k = 0 THEN [end |-> [n \in Node |-> RankIn[o][n] + 1], size |-> [n \in Node |-> 1]]
        ELSE AccumulateSubtree(accumulated[k - 1], o[Len(o) - k + 1])
  IN  accumulated[Len(o)]]
subtree_end == SubtreesIn[order].end
subtrees_are_contiguous ==
  \A n \in Node : subtree_end[n] - rank[n] = SubtreesIn[order].size[n]
maximum_level_width == Max({Cardinality({m \in Node : Level(m) = Level(n)}) : n \in Node})

-----------------------------------------------------------------------------
(* transform_state                                                         *)

revision_available == m_revision < MaxRevision
NextRevision == m_revision + 1

(* Every plan handle made so far is outdated by a mutation or evaluation.  *)
Outdate(slots) == [p \in PlanSlot |->
  IF p \in slots /\ plans[p] # NoPlan THEN [plans[p] EXCEPT !.fresh = FALSE] ELSE plans[p]]

PushDirty(n) == IF dirty[n] THEN m_dirty_nodes ELSE Append(m_dirty_nodes, n)

TouchNode(n) ==
  /\ Idle /\ revision_available
  /\ m_dirty_nodes' = PushDirty(n)
  /\ m_revision' = NextRevision
  /\ m_mutation_generation' = m_mutation_generation + 1
  /\ dirty' = [dirty EXCEPT ![n] = TRUE]
  /\ plans' = Outdate(PlanSlot)
  /\ UNCHANGED <<world, world_revision, m_evaluation_generation, ws, run, observerVars>>

set_local(n, value) ==
  /\ TouchNode(n)
  /\ local' = [local EXCEPT ![n] = value]
  /\ local_revision' = [local_revision EXCEPT ![n] = NextRevision]

mark_dirty(n) == TouchNode(n) /\ UNCHANGED <<local, local_revision>>

-----------------------------------------------------------------------------
(* transform_evaluation_workspace::prepare and make_plan                   *)

(* ++m_generation; on wrap the stamps of the previous round are erased and *)
(* 0, the value of an unstamped node, is skipped.                          *)
Unstamped == [n \in Node |-> 0]
NextGeneration(w) == IF w.generation + 1 = GenerationModulus THEN 1 ELSE w.generation + 1
(* A wrap that skips 0 but keeps the old stamps.                           *)
prepare_keep_stamps(w) ==
  [w EXCEPT !.generation = NextGeneration(w),
            !.dirty_roots = <<>>, !.affected_nodes = <<>>,
            !.selected_dirty_roots = <<>>, !.selected_nodes = <<>>]

prepare(w) ==
  [w EXCEPT !.generation = NextGeneration(w),
            !.affected = IF NextGeneration(w) = 1 THEN Unstamped ELSE @,
            !.selected = IF NextGeneration(w) = 1 THEN Unstamped ELSE @,
            !.dirty_roots = <<>>, !.affected_nodes = <<>>,
            !.selected_dirty_roots = <<>>, !.selected_nodes = <<>>]

(* Contiguous subtrees: each topmost candidate claims its rank range.      *)
ClaimSubtree(w, candidate) ==
  LET nodes == SubSeq(order, rank[candidate] + 1, subtree_end[candidate]) IN
  IF w.affected[candidate] = w.generation THEN w
  ELSE [w EXCEPT !.dirty_roots = Append(@, candidate),
                 !.affected = [n \in Node |-> IF n \in ToSet(nodes) THEN w.generation ELSE @[n]],
                 !.owner = [n \in Node |-> IF n \in ToSet(nodes) THEN candidate ELSE @[n]],
                 !.affected_nodes = @ \o nodes]

(* The candidates are the frontier in topological order.                   *)
ClaimSubtrees(w) ==
  LET candidates == Filter(order, ToSet(m_dirty_nodes))
      claimed[i \in 0 .. Len(candidates)] ==
        IF i = 0 THEN w ELSE ClaimSubtree(claimed[i - 1], candidates[i])
  IN  claimed[Len(candidates)]

(* Any topological order: a node is affected by itself or by its parent.   *)
ClaimNode(w, n) ==
  LET parentAffected == Parent[n] # NoNode /\ w.affected[Parent[n]] = w.generation IN
  IF ~dirty[n] /\ ~parentAffected THEN w
  ELSE [w EXCEPT !.affected[n] = w.generation,
                 !.owner[n] = IF parentAffected THEN w.owner[Parent[n]] ELSE n,
                 !.affected_nodes = Append(@, n),
                 !.dirty_roots = IF parentAffected THEN @ ELSE Append(@, n)]

ClaimNodes(w) ==
  LET claimed[i \in 0 .. Len(order)] ==
        IF i = 0 THEN w ELSE ClaimNode(claimed[i - 1], order[i])
  IN  claimed[Len(order)]

Claim(w, partial) ==
  IF m_dirty_nodes = <<>> THEN w
  ELSE IF ~partial /\ Len(m_dirty_nodes) = Cardinality(Node)
    THEN [w EXCEPT !.dirty_roots = Roots, !.affected_nodes = order]
  ELSE IF subtrees_are_contiguous THEN ClaimSubtrees(w) ELSE ClaimNodes(w)

(* A partial plan may only name distinct topmost dirty nodes; the roots up *)
(* to the first bad one are stamped even when the plan is refused.         *)
SelectRoot(acc, root) ==
  IF ~acc.valid \/ root \notin Node \/ acc.w.selected[root] = acc.w.generation
     \/ acc.w.affected[root] # acc.w.generation \/ acc.w.owner[root] # root
  THEN [acc EXCEPT !.valid = FALSE]
  ELSE [acc EXCEPT !.w.selected[root] = acc.w.generation]

SelectRoots(w, roots) ==
  LET checked[i \in 0 .. Len(roots)] ==
        IF i = 0 THEN [w |-> w, valid |-> TRUE] ELSE SelectRoot(checked[i - 1], roots[i])
  IN  checked[Len(roots)]

SelectScope(w, roots) ==
  LET checked == SelectRoots(w, roots)
      selected == {n \in Node : checked.w.selected[n] = w.generation} IN
  IF ~checked.valid THEN checked
  ELSE [checked EXCEPT
         !.w.selected_dirty_roots = Filter(w.dirty_roots, selected),
         !.w.selected_nodes = Filter(w.affected_nodes, {n \in Node : w.owner[n] \in selected})]

PlanOf(workspace, w, partial) ==
  [workspace |-> workspace, partial |-> partial,
   length |-> Len(IF partial THEN w.selected_nodes ELSE w.affected_nodes),
   source_revision |-> m_revision, mutation_generation |-> m_mutation_generation,
   evaluation_generation |-> m_evaluation_generation,
   workspace_generation |-> w.generation, fresh |-> TRUE]

(* Reusing a workspace outdates the plans it made.  No caller holds a plan *)
(* over the 2^64 plans after which its generation comes back: the small    *)
(* modulus must not let that happen either, so such a handle is dropped.   *)
AfterReuse(workspace, w) ==
  [p \in PlanSlot |->
    IF plans[p] = NoPlan \/ plans[p].workspace # workspace THEN plans[p]
    ELSE IF plans[p].workspace_generation = w.generation THEN NoPlan
    ELSE [plans[p] EXCEPT !.fresh = FALSE]]

make_full_plan(p, workspace) ==
  LET w == Claim(prepare(ws[workspace]), FALSE) IN
  /\ Idle
  /\ ws' = [ws EXCEPT ![workspace] = w]
  /\ plans' = [AfterReuse(workspace, w) EXCEPT ![p] = PlanOf(workspace, w, FALSE)]
  /\ UNCHANGED <<stateVars, m_evaluation_generation, run, observerVars>>

make_partial_plan(p, workspace, roots) ==
  LET outcome == SelectScope(Claim(prepare(ws[workspace]), TRUE), roots)
      reused == AfterReuse(workspace, outcome.w) IN
  /\ Idle
  /\ ws' = [ws EXCEPT ![workspace] = outcome.w]
  /\ plans' = IF outcome.valid
              THEN [reused EXCEPT ![p] = PlanOf(workspace, outcome.w, TRUE)]
              ELSE reused
  /\ UNCHANGED <<stateVars, m_evaluation_generation, run, observerVars>>

-----------------------------------------------------------------------------
(* evaluate_transforms                                                     *)

(* The stale-plan check without the workspace generation.                  *)
CurrentState(plan) ==
  /\ plan.source_revision = m_revision
  /\ plan.mutation_generation = m_mutation_generation
  /\ plan.evaluation_generation = m_evaluation_generation

Current(plan) ==
  /\ ws[plan.workspace].generation = plan.workspace_generation
  /\ plan.source_revision = m_revision
  /\ plan.mutation_generation = m_mutation_generation
  /\ plan.evaluation_generation = m_evaluation_generation

(* What the spans of a plan hold now.                                      *)
Span(vector, plan) == SubSeq(vector, 1, Min({plan.length, Len(vector)}))
ordered_nodes(plan) ==
  Span(IF plan.partial THEN ws[plan.workspace].selected_nodes
       ELSE ws[plan.workspace].affected_nodes, plan)
dirty_roots(plan) == IF plan.partial THEN ws[plan.workspace].selected_dirty_roots
                     ELSE ws[plan.workspace].dirty_roots

begin_evaluation(plan, mode) ==
  /\ Idle /\ Current(plan)
  /\ ordered_nodes(plan) = <<>> \/ revision_available
  /\ m_evaluation_generation < MaxEvaluations
  /\ m_evaluation_generation' = m_evaluation_generation + 1
  /\ m_revision' = IF ordered_nodes(plan) = <<>> THEN m_revision ELSE NextRevision
  /\ run' = [mode |-> mode, ordered |-> ordered_nodes(plan), todo |-> ordered_nodes(plan)]
  /\ plans' = Outdate(PlanSlot)
  /\ UNCHANGED <<local, world, dirty, local_revision, world_revision, m_dirty_nodes,
                 m_mutation_generation, observerVars>>

evaluate_sequential(plan) == begin_evaluation(plan, "sequential") /\ UNCHANGED ws

(* The parallel overload; its early tests are in terms of whole levels,    *)
(* the last one of the levels of this plan.                                *)
EffectiveGrain(grain) == IF grain = 0 THEN 1 ELSE grain
MaximumBatch(nodes) ==
  Max({0} \union {Cardinality({m \in ToSet(nodes) : Level(m) = Level(n)}) : n \in ToSet(nodes)})

evaluate_parallel(plan, grain) ==
  LET nodes == ordered_nodes(plan)
      enough(k) == k \div EffectiveGrain(grain) >= 2
      batched == enough(Len(nodes)) /\ enough(maximum_level_width) IN
  /\ begin_evaluation(plan, IF batched /\ enough(MaximumBatch(nodes))
                            THEN "parallel" ELSE "sequential")
  /\ ws' = IF batched  \* prepare_dependency_batches stamps the plan's nodes
           THEN [ws EXCEPT ![plan.workspace].affected =
                   [n \in Node |-> IF n \in ToSet(nodes)
                                   THEN ws[plan.workspace].generation ELSE @[n]]]
           ELSE ws

ComposedWorld(n) == IF Parent[n] = NoNode THEN local[n]
                    ELSE Compose(world[Parent[n]], local[n])

(* evaluation_sink::push on the next node of the plan.                     *)
push ==
  LET n == Head(run.todo) IN
  /\ run.mode = "sequential" /\ run.todo # <<>>
  /\ world' = [world EXCEPT ![n] = ComposedWorld(n)]
  /\ world_revision' = [world_revision EXCEPT ![n] = m_revision]
  /\ dirty' = [dirty EXCEPT ![n] = FALSE]
  /\ run' = [run EXCEPT !.todo = Tail(@)]
  /\ UNCHANGED <<local, local_revision, m_dirty_nodes, m_revision, m_mutation_generation,
                 m_evaluation_generation, ws, plans, observerVars>>

AnyBatch(n) == TRUE
(* One node of a level's batch: execute returns before the next level.     *)
InBatch(n) == \A m \in ToSet(run.todo) : Level(n) <= Level(m)

execute_task(n) ==
  /\ run.mode = "parallel" /\ n \in ToSet(run.todo) /\ InBatch(n)
  /\ world' = [world EXCEPT ![n] = ComposedWorld(n)]
  /\ run' = [run EXCEPT !.todo = Filter(@, Node \ {n})]
  /\ UNCHANGED <<local, dirty, local_revision, world_revision, m_dirty_nodes, m_revision,
                 m_mutation_generation, m_evaluation_generation, ws, plans, observerVars>>

(* The parallel commit, and compact_dirty_frontier of both overloads.      *)
finish_evaluation ==
  LET committed == IF run.mode = "parallel" THEN ToSet(run.ordered) ELSE {} IN
  /\ ~Idle /\ run.todo = <<>>
  /\ world_revision' = [n \in Node |-> IF n \in committed THEN m_revision ELSE world_revision[n]]
  /\ dirty' = [n \in Node |-> dirty[n] /\ n \notin committed]
  /\ m_dirty_nodes' = Filter(m_dirty_nodes, {n \in Node : dirty'[n]})
  /\ run' = NoRun
  /\ UNCHANGED <<local, world, local_revision, m_revision, m_mutation_generation,
                 m_evaluation_generation, ws, plans, observerVars>>

(* A follower takes changed_transform_nodes_since(synced).                 *)
changed_since(since) == Filter(order, {n \in Node : world_revision[n] > since})

Synchronize ==
  /\ Idle
  /\ observed' = [n \in Node |-> IF n \in ToSet(changed_since(synced))
                                 THEN world[n] ELSE observed[n]]
  /\ synced' = m_revision
  /\ UNCHANGED <<stateVars, m_evaluation_generation, ws, plans, run>>

-----------------------------------------------------------------------------
(* A newly frozen scene; the constructor lists the dirty nodes by handle.  *)
Init ==
  /\ order \in Orders
  /\ \E s \in FrozenScenes :
       /\ local = s.local /\ world = s.world
       /\ dirty = [n \in Node |-> n \in s.dirty]
       /\ \E q \in SetToSeqs(s.dirty) :
            (\A i, j \in DOMAIN q : i < j => q[i] < q[j]) /\ m_dirty_nodes = q
  /\ local_revision = [n \in Node |-> 0] /\ world_revision = [n \in Node |-> 0]
  /\ m_revision = 0 /\ m_mutation_generation = 1 /\ m_evaluation_generation = 0
  /\ ws = [w \in Workspace |->
             [generation |-> 0, affected |-> Unstamped, selected |-> Unstamped,
              owner |-> [n \in Node |-> NoNode], dirty_roots |-> <<>>,
              affected_nodes |-> <<>>, selected_dirty_roots |-> <<>>, selected_nodes |-> <<>>]]
  /\ plans = [p \in PlanSlot |-> NoPlan]
  /\ run = NoRun
  /\ observed = world /\ synced = 0

Edit == \E n \in Node : mark_dirty(n) \/ \E value \in Locals : set_local(n, value)

MakePlan == \E p \in PlanSlot, w \in Workspace :
              make_full_plan(p, w) \/ \E roots \in RootRequests : make_partial_plan(p, w, roots)

Evaluate == \E p \in PlanSlot :
  /\ plans[p] # NoPlan
  /\ \/ evaluate_sequential(plans[p])
     \/ \E grain \in Grains : evaluate_parallel(plans[p], grain)

Next == /\ UNCHANGED order
        /\ \/ Edit
           \/ MakePlan
           \/ Evaluate
           \/ push
           \/ \E n \in Node : execute_task(n)
           \/ finish_evaluation
           \/ Synchronize

Spec == Init /\ [][Next]_vars

-----------------------------------------------------------------------------
(* The affected set of docs/transforms.md, in topological order.           *)
DirtySet == {n \in Node : dirty[n]}
TopmostDirty == {n \in DirtySet : Above[n] \intersect DirtySet = {n}}
Below(roots) == Filter(order, {n \in Node : Above[n] \intersect roots # {}})

(* A plan that would be accepted holds exactly the affected nodes, each    *)
(* once and parents first: all of them, or those below the topmost dirty   *)
(* nodes a partial plan selected - whichever of make_plan's paths built    *)
(* it, and whatever stamps earlier plans left in the workspace.            *)
PlanExact == Idle =>
  \A p \in PlanSlot : plans[p] # NoPlan /\ Current(plans[p]) =>
    LET roots == ToSet(dirty_roots(plans[p])) IN
    /\ IF plans[p].partial THEN roots \subseteq TopmostDirty ELSE roots = TopmostDirty
    /\ ordered_nodes(plans[p]) = Below(roots)

(* A plan is accepted exactly as long as no edit, dirty mark, evaluation   *)
(* (an empty one too) or reuse of its workspace came after it              *)
(* (docs/transforms.md, on when a plan becomes stale).                     *)
AcceptedIffFresh ==
  \A p \in PlanSlot : plans[p] # NoPlan => (Current(plans[p]) <=> plans[p].fresh)

(* Planned evaluation, sequential or parallel, does what SceneTransforms   *)
(* promises: an evaluation in progress is one of whole affected subtrees,  *)
(* and each node is composed from a parent that is already up to date.     *)
Scene == INSTANCE SceneTransforms
           WITH dirty <- DirtySet, scope <- ToSet(run.ordered),
                pending <- ToSet(run.todo), evaluating <- run.ordered # <<>>
ImplementsSceneTransforms == Scene!Spec
=============================================================================
