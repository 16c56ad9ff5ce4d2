SPECIFICATION NestedSpec
CONSTANTS
    Names = {a, b, c}
    Leaves = {v1, v2, Function, Cut}
    Obj = Obj
    Function = Function
    Cut = Cut
    a = a
    b = b
    c = c
    v1 = v1
    v2 = v2
    Keys <- MCKeys
    RootValues <- MCRootValues
    Depths = {2, 10}
    MaxKeys = 2
    MaxChanges = 2
    MaxSubscribes = 3
INVARIANTS AccessIsFresh DispatchIsInformed
PROPERTIES NoShellStays
CHECK_DEADLOCK FALSE
