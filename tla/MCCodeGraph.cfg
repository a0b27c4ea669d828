CONSTANTS
    f1 = f1  f2 = f2  a = a  b = b  s1 = s1  s2 = s2
    File = {f1, f2}
    Text = {a, b}
    Absent = Absent
    Name = {1, 2}
    Defs <- MCDefs
    Refs <- MCRefs
    Scanner = {s1, s2}
    None = None
    StaleAge = 0
    MaxEdits = 1
    MaxScans = 2
    MaxTrouble = 1
SYMMETRY Symmetry
SPECIFICATION Spec
INVARIANTS TypeOK SymbolsMatchScan ReferencesHaveRows OneScanUnlessOverrun
CHECK_DEADLOCK FALSE
