CONSTANTS
    Client = {c1}
    BufSize = 1
    None = None
    TTL = 1
    Miss = Miss
    MaxVersion = 2
    Request = {}
    Watcher = watcher
    ListKey = containers
    HostKey = hostinfo
    MaxQueued = 1
SPECIFICATION RunningSpec
INVARIANT TypeOK
PROPERTY PageCatchesUp
