CONSTANTS
    m1 = m1  m2 = m2  t1 = t1  long = long  band = band  short = short
    k1 = k1  k2 = k2  c1 = c1  c2 = c2  w1 = w1  w2 = w2
    Memory = {m1}
    Title = {t1}
    Text = {long, band, short}
    Long = {long}
    Short = {short}
    Split = {k1, k2}
    Rows <- RowsAlike
    Batch = 2
    MaxRounds = 2
    Client = {c1, c2}
    Worker = {w1, w2}
    Unborn = Unborn
    Gone = Gone
    None = None
    MaxCalls = 3
    MaxTasks = 2
    MaxDeaths = 1
SPECIFICATION Spec
INVARIANTS VectorIsCurrent ChunksFollowContent ChunksAreQueued
SYMMETRY Symmetry
CHECK_DEADLOCK FALSE
