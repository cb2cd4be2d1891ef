SPECIFICATION Spec
CONSTANTS
    A = a
    B = b
    None = None
    MaxTime = 2
    MaxKey = 2
    MaxEvents = 3
    Rounds = 3
    Messages = 8
INVARIANTS NeverAhead 
CHECK_DEADLOCK FALSE
SYMMETRY Symmetry
