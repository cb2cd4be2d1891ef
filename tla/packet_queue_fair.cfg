SPECIFICATION FairSpec
CONSTANTS
    Flow = {a, b}
    Sizes = {1}
    Quantum = 1
    MaxBytesTotal = 3
    MaxBytesPerFlow = 2
    Target = 1
    Interval = 1
    MaxDrops = 2
PROPERTY EveryFlowServed
