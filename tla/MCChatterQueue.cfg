\* The worker pool under reloads of its limit and of the enable flag.
SPECIFICATION Spec
CONSTANTS
    r1 = r1
    r2 = r2
    r3 = r3
    a1 = a1
    p = p
    Jobs <- MCJobs
    Ambient = {a1}
    Lore = {r2}
    Pairs = {p}
    PairOf <- MCPairOf
    Maxima = {1, 2}
    HistoryLen = 2
INVARIANTS NoStall HeardIsRemembered
PROPERTIES EveryJobEnds ImplementsService
