SPECIFICATION Spec
CONSTANTS
    Nodes <- MCNodes
    Backends <- MCBackends
    Manifests <- MCManifests
    Memories <- MCMemories
    Inputs = {}
    Width = 64
    NoNode = NoNode
    NoJob = NoJob
    NoPlan = NoPlan
    Fences = {1}
    AutoLayers = 3
    MaxLives = 1
    MaxPosition = 0
INVARIANT ActivePlanInOrder
