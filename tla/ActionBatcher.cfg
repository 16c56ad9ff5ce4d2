SPECIFICATION FairSpec
CONSTANTS
    n1 = n1
    n2 = n2
    n3 = n3
    h1 = h1
    h2 = h2
    Actions = {n1, n2, n3, h1}
    High = {h1}
    Flushers = {f1}
    MaxBatchSize = 2
    HardLimit = 3
CHECK_DEADLOCK FALSE
INVARIANTS SettledOnce NoStrandedQueue WaitersAreServed SentInOrder
PROPERTIES EverySettled
