SPECIFICATION Spec
CONSTANTS
    Keys = {k1, k2}
    Null = Null
    Initial = {{}, {k1, k2}}
    k1 = k1
    k2 = k2
    MaxQueued = 2
    MaxChanges = 3
    MaxSubscribes = 2
    MaxReloads = 1
    MaxEvents = 4
    MaxFullEvents = 3
SYMMETRY KeySymmetry
INVARIANTS TypeOK Converged
