CONSTANTS
    m1 = m1  m2 = m2  c1 = c1  c2 = c2  p1 = p1  p2 = p2  w1 = w1  s1 = s1
    Memory = {m1, m2}
    Text = {c1, c2}
    NumEntities = 3
    TypeOf <- MCTypeOf
    NameOf <- MCNameOf
    Payload <- MCPayload
    Bad = Bad
    MaxEntities = 3
    Client = {p1, p2}
    Worker = {w1}
    Cli = {s1}
    None = None
    Unborn = Unborn
    Gone = Gone
    Given = Given
    Lost = Lost
    Dedup = Dedup
    MaxCalls = 2
    MaxPasses = 2
    MaxTrouble = 1
SPECIFICATION FairSpec
INVARIANTS TypeOK MergesAreConfirmed ReplaceStands
PROPERTIES EveryTextIsRead
CHECK_DEADLOCK FALSE
