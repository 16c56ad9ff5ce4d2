SPECIFICATION FairPreload
CONSTANTS
    t = t
    u = u
    p = p
    a1 = a1
    a2 = a2
    NoThunk = NoThunk
    Thunks = {t, u}
    Actions = {p, a1, a2}
    ThunkOf <- MCThunkOf
    OptedIn = {a2}
    Flushers = {t}
    MaxQueueSize = 1
    MaxDisturbed = 1
INVARIANTS
    SomebodySettles
    NoOrphan
PROPERTIES
    ThunksEndUnaided
CHECK_DEADLOCK FALSE
