SPECIFICATION Spec
CONSTANTS
    Windows = {w1, w2, w3}
    MaxManagers = 2
    MaxSubscribes = 5
SYMMETRY WindowSymmetry
INVARIANTS HeldIsNotified GoneLeavesNothing WithinLimit 
CHECK_DEADLOCK FALSE
