SPECIFICATION Spec
CONSTANTS
  NoNode = NoNode
  NoPlan = NoPlan
  Node <- MCNode
  Parent <- MCParent
  Above <- MCAbove
  Transform <- MCTransform
  Locals <- OneLocal
  FrozenScenes <- MCFrozenScenes
  Compose <- MCCompose
  Orders <- MCOrders
  RootRequests <- MCRootRequests
  Workspace = {w1}
  PlanSlot = {p1, p2}
  Grains = {0}
  GenerationModulus = 3
  MaxRevision = 2
  MaxEvaluations = 2
INVARIANTS
  PlanExact
  AcceptedIffFresh
PROPERTIES
  ImplementsSceneTransforms
SYMMETRY MCSymmetry
