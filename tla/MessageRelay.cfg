CONSTANTS
    Handlers = {h1, h2}
    Backends = {"file", "firestore"}
    MsgIds = {1, 2}
    TTLs = {1}
    Readable = {TRUE}
    Limit = 2
    NoEnvelope = NoEnvelope
    Free = Free
    MaxTime = 2
    MaxPosts = 3
SPECIFICATION FairSpec
INVARIANTS
    NoDuplicateEntries
    OutboundKept
PROPERTIES
    EveryPostEnds
