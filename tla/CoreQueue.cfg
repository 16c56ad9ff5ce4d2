SPECIFICATION QueueSpec
CONSTANTS
    r = r
    s = s
    c = c
    g = g
    h = h
    p1 = p1
    p2 = p2
    a1 = a1
    a2 = a2
    b1 = b1
    i1 = i1
    w = w
    v = v
    k1 = k1
    None = None
    Thunks = {r, s, c, g, h}
    Parent <- MCParent
    LabelOf <- MCLabelOf
    Actions = {p1, a1, a2, i1}
    ThunkOf <- MCThunkOf
    ImmediateActions = {i1}
    TaskIds = {k1}
    MaxQueueSize = 2
CHECK_DEADLOCK FALSE
INVARIANTS NothingEligibleWaits NothingDangling
PROPERTIES NoOvertaking
