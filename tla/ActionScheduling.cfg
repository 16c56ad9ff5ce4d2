SPECIFICATION FairSpec
CONSTANTS
    t1 = t1
    t2 = t2
    t3 = t3
    p1 = p1
    p2 = p2
    a1 = a1
    a2 = a2
    b1 = b1
    None = None
    Thunks = {t1, t2}
    Immediate = {t2}
    Actions = {p1, p2, a1, a2}
    ThunkOf <- MCThunkOf
    ImmediateActions = {p2}
    MaxQueueSize = 2
CHECK_DEADLOCK FALSE
INVARIANTS OnePlace NoStrandedAction
PROPERTIES NoOvertaking PlainReported
