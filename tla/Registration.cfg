SPECIFICATION FairSpec
CONSTANTS
    m1 = m1
    m2 = m2
    r1 = r1
    r2 = r2
    r3 = r3
    w1 = w1
    w2 = w2
    None = None
    Windows = {w1, w2}
    WindowOf <- TwoWindows
    Thunks = {m1, m2, r1, r2, r3}
    MainThunks = {m1, m2}
    Immediate = {r2}
    Parent <- NestedParent
    MayAwait = {m2}
    MayThrow = {m1, m2}
    MayTimeOut = {r1}
    MayRedispatch = {r1, m2}
    MayDie = {w2}
CHECK_DEADLOCK FALSE
INVARIANTS RootIsActive ProgramsKeepStep NoLostWakeup
PROPERTIES ImplementsGate 
