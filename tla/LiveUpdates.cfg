CONSTANTS
    Client = {}
    BufSize = 1
    None = None
    TTL = 1
    Miss = Miss
    MaxVersion = 2
    Request = {r1}
    Watcher = watcher
    ListKey = containers
    HostKey = hostinfo
    MaxQueued = 1
SPECIFICATION FairSpec
INVARIANT OutdatedOnlyIfRaced
PROPERTY WatcherEnds
