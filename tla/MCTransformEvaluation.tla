----------------------- MODULE MCTransformEvaluation -----------------------
(* A chain of three nodes with a second child at its root, 0 <- 1 <- 2 and *)
(* 0 <- 3, planned over a depth-first order (contiguous subtrees) or a     *)
(* breadth-first one (the subtree of 1 is split by 3).                     *)
EXTENDS TransformEvaluation

MCNode == 0..3
MCParent == 1 :> 0 @@ 2 :> 1 @@ 3 :> 0 @@ 0 :> NoNode
MCAbove == 0 :> {0} @@ 1 :> {0, 1} @@ 2 :> {0, 1, 2} @@ 3 :> {0, 3}
DepthFirst == <<0, 1, 2, 3>>
BreadthFirst == <<0, 1, 3, 2>>
MCOrders == {DepthFirst, BreadthFirst}
Depth == 3
(* A transform is the sequence of locals it was composed from, so that two *)
(* worlds agree only when all their inputs do; the length bound is the     *)
(* depth of the scene and is never exceeded.                               *)
OneLocal == {<<1>>}
MCTransform == UNION {[1..k -> {0, 1}] : k \in 1..Depth}
MCCompose(x, y) == IF Len(x) + Len(y) <= Depth THEN x \o y ELSE x
(* Partial requests: nodes that may be topmost or below a dirty one, two   *)
(* siblings, a duplicate, and a handle that is not a node.                 *)
MCRootRequests == {<<1>>, <<2>>, <<3, 1>>, <<3, 3>>, <<1, 7>>}
(* Frozen scenes with the given dirty nodes: evaluated worlds where        *)
(* nothing above is dirty, elsewhere the unevaluated local transform.      *)
FrozenWith(nodes, dirtySets) ==
  {LET start == [n \in nodes |-> <<0>>]
       composed[n \in nodes] ==
         IF MCAbove[n] \intersect d # {} \/ MCParent[n] = NoNode THEN start[n]
         ELSE MCCompose(composed[MCParent[n]], start[n])
   IN  [local |-> start, world |-> composed, dirty |-> d] :
     d \in dirtySets}
(* Clean, siblings, nodes at two depths, a node with its descendant, and   *)
(* all dirty.                                                              *)
MCFrozenScenes == FrozenWith(MCNode, {{}, {1, 3}, {2, 3}, {1, 2}, MCNode})

(* Plan handles are interchangeable.                                       *)
MCSymmetry == Permutations(PlanSlot)
=============================================================================
