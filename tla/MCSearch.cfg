CONSTANTS
    p1 = p1  p2 = p2  g1 = g1  P = P  G = G
    Row = {p1, p2, g1}
    Db = {P, G}
    Global = G
    Home <- MCHome
    Hash <- MCHash
    Tagged = {p1, g1}
    Chunked = {p1}
    Bonus <- MCBonus
    Request <- MCRequest
    None = None
    Quality = 8
    Limit = 2
    TopK = 2
    FlushSize = 2
    MaxCalls = 2
    MaxChanges = 1
SPECIFICATION Spec
INVARIANTS TypeOK AheadEverywhereIsHigher CountedAtMostOnce
CHECK_DEADLOCK FALSE
