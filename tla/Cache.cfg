CONSTANTS
    Key = {k1, k2}
    Value = {v1, v2}
    TTL = 2
    Miss = Miss
SPECIFICATION FairSpec
PROPERTY ImplementsTTLMap
PROPERTY ExpiredAreRemoved
