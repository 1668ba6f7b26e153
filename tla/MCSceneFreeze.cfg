CONSTANTS
    Id = {n1, n2, n3}
    NoId = NoId
    Transform <- MCTransform
    Unseen = Unseen
    Compose <- MCCompose
    MaxRevision = 4
SYMMETRY MCSymmetry
SPECIFICATION Spec
INVARIANTS Coherent ObserverComplete
