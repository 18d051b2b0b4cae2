CONSTANTS
    Client = {c1, c2}
    MaxBroadcasts = 4
    Message <- NumberedMessages
    BufSize = 2
    None = None
SYMMETRY ClientSymmetry
SPECIFICATION FeedSpec
PROPERTY ImplementsLossyFeed
