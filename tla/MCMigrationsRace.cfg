SPECIFICATION SchemaFairSpec
CONSTANTS
    p1 = p1
    p2 = p2
    p3 = p3
    Opener <- MCOpener
    Last = 4
    Once <- MCOnce
    MaxFails = 0
INVARIANT
    RestsReopenable
