SPECIFICATION Spec
CONSTANTS
    Nodes <- MCNodes
    Backends <- MCBackends
    Manifests <- MCManifests
    Memories <- MCMemories
    Inputs <- MCInputs
    Width = 64
    NoNode = NoNode
    NoJob = NoJob
    NoPlan = NoPlan
    Fences = {1}
    AutoLayers = 3
    MaxLives = 2
    MaxPosition = 2
INVARIANTS
    TypeOK
    PlanIsComplete
    PlanFits
    LayersRunInOrder
    StoredPlansWhole
    StoredPlanIsComplete
    HistoryContiguous
PROPERTY
    StoreKeepsPlans
