SPECIFICATION Spec
CONSTANTS
    Flow = {a, b, c}
    Sizes = {1, 3}
    Quantum = 2
    MaxBytesTotal = 4
    MaxBytesPerFlow = 3
    Target = 1
    Interval = 2
    MaxDrops = 2
SYMMETRY Interchangeable
INVARIANTS RingConsistent BytesAccounted DeficitBounded PopServes
