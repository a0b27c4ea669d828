SPECIFICATION Spec
CONSTANTS
    t1 = t1  t2 = t2  t3 = t3  w1 = w1  w2 = w2
    Task <- MCTwoTasks
    Worker <- MCWorker
    Memory = {m1}
    Cli = {c1}
    NoTask = NoTask
    NoMemory = NoMemory
    Stale = 1
    Retention = 0
    PruneGap = 1
    WaitCap = 1
    MaxRun = 1
    MaxLeaves = 1
SYMMETRY Symmetry2
INVARIANTS AtMostOneRunner DoneMeansApplied AtMostOneOpenDedup
PROPERTIES ClosedIsFinal RowsLeaveForCause ImplementsTaskPool
CHECK_DEADLOCK FALSE
