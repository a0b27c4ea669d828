CONSTANTS
    m1 = m1  m2 = m2  m3 = m3  e1 = e1  e2 = e2
    Memory = {m1, m2, m3}
    Entity = {e1, e2}
    None = None
    Relation = {"mentions", "contains"}
    Weight <- MCWeight
    TypeBonus <- MCBonus
    Curve = "type-weighted"
    Named = {}
    Heard <- MCHeard
    Mentions <- MCMentions
    DepthCap = 2
    MaxDepth = 2
    Start = {m1}
    MaxFacts = 3
    Lang = {"py", "ts", "go", "rs", "java", "rb", "php", "c"}
    Name = {1, 2}
    Src = Src  Self = Self  Opaque = Opaque  Dot = Dot  DotDot = DotDot  Index = Index
    Library <- MCLibrary
    MaxNodes = 3
    t1 = t1  t2 = t2  f1 = f1
    Tool = {t1, t2}
    Native = Native
    Like <- MCLike
    File = {f1}
    Symbol = {1, 2, 3}
    Artifact <- MCArtifact
    Nobody = Nobody
    DepthOf = {0, 1, 2}
    MaxImports = 2
SPECIFICATION MCSpec
INVARIANTS TraversalIsExact BestHopFirst ParentsGoFirst ResolvedAsWritten AnswersAreHonest
PROPERTY OthersAreLeftAlone
CHECK_DEADLOCK FALSE
