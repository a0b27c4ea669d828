CONSTANTS
    m1 = m1  m2 = m2  k1 = k1  local = local  fast = fast  hosted = hosted  s1 = s1  s2 = s2
    Memory = {m1, m2}
    Chunk = {k1}
    Parent <- MCParent
    Embedder = {local, fast, hosted}
    Local = local
    Dim <- MCDim
    Tier <- MCTier
    Weak = {local}
    Server = {s1, s2}
    None = None
    MaxReindex = 2
    MaxStarts = 2
    MaxFails = 1
    MaxTasks = 1
SYMMETRY Symmetry
SPECIFICATION Spec
INVARIANTS TypeOK LostVectorsAreFound
CHECK_DEADLOCK FALSE
