CONSTANTS
    Client = {c1, c2}
    Message = {m1}
    BufSize = 2
    None = None
SPECIFICATION FairSpec
INVARIANT TypeOK
INVARIANT NoPanic
INVARIANT RegisteredHasHandler
INVARIANT SubscribedUntilStop
PROPERTY StopReleasesHandlers
PROPERTY CancelledHandlerReturns
PROPERTY StopReturns
