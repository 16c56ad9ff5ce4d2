SPECIFICATION FairSpec
CONSTANTS
    r = r
    c = c
    d = d
    x = x
    b = b
    e = e
    f = f
    p = p
    w1 = w1
    w2 = w2
    None = None
    Thunks = {r, c, d, x}
    Actions = {b, e, f, p}
    Parent <- MCParent
    LabelOf <- MCLabelOf
    ThunkOf <- MCThunkOf
    AppWindow = w1
    OptedIn = {b, e}
    Awaited = {c, b, e}
    Flushers = {c, d}
    MayDestroy = {w1}
    MayClose = {w1, w2}
    MaxPending = 2
    MaxBatchSize = 1
INVARIANTS
    AwaitedIsRegistered
    NothingLeft
PROPERTIES
    EverythingEnds
CHECK_DEADLOCK FALSE
