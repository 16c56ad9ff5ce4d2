SPECIFICATION Spec
CONSTANTS
    Labels = {main}
    Keys = {k1, k2}
    None = None
    MaxChanges = 2
    MaxSubscribes = 2
    MaxFailures = 1
    MaxClients = 2
SYMMETRY KeySymmetry
INVARIANTS Converged NoSpuriousResync NothingLeft
CHECK_DEADLOCK FALSE
