SPECIFICATION Spec
CONSTANTS
    p1 = p1
    p2 = p2
    p3 = p3
    Plugs = {p1, p2, p3}
    Srvs = {s1, s2}
    Nil = Nil
    MaxDepth = 6
    MaxHandles = 1
    MaxRefs = 2
    NameOf <- MCNameOf
    Calls <- MCCalls
SYMMETRY Symmetry
INVARIANTS OfferedOnce RefsExact ConnectedListed FinishedClean
PROPERTIES HeardWhileLoaded
CHECK_DEADLOCK FALSE
