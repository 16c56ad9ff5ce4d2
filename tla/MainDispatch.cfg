SPECIFICATION Spec
CONSTANTS
    Dispatches = {d1, d2}
    Bridges = {b1, b2}
    MaxPending = 1
    None = None
INVARIANTS AnswerHasEffect ActionsStayAtHome
PROPERTIES EveryDispatchSettles
CHECK_DEADLOCK FALSE
