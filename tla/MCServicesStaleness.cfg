CONSTANTS
    Proc = {p1, p2}
    Key = {hostinfo}
    HostKey = hostinfo
    MaxVersion = 3
    MaxTime = 3
    TTL = 1
    Miss = Miss
SYMMETRY ProcSymmetry
SPECIFICATION TimedSpec
INVARIANT TimedTypeOK
INVARIANT BoundedStaleness
