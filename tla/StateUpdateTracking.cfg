SPECIFICATION TrackingSpec
CONSTANTS
    t1 = t1
    t2 = t2
    w1 = w1
    w2 = w2
    None = None
    Thunks = {t1, t2}
    Immediate = {t2}
    Renderers = {w1, w2}
    MaxSends = 2
SYMMETRY RendererSymmetry
INVARIANTS ResolvedIsPropagated NoEntryLeftBehind NoDeadRendererAwaited
CHECK_DEADLOCK FALSE
