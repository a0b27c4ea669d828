SPECIFICATION FairSpec
CONSTANTS
    t1 = t1  t2 = t2  t3 = t3  w1 = w1  w2 = w2
    Task <- MCTwoTasks
    Worker <- MCWorker
    Memory = {m1}
    Cli = {}
    NoTask = NoTask
    NoMemory = NoMemory
    Stale = 1
    Retention = 0
    PruneGap = 0
    WaitCap = 1
    MaxRun = 1
    MaxLeaves = 1
PROPERTIES PendingIsServed LateRestartRecovers
CHECK_DEADLOCK FALSE
