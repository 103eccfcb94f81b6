CONSTANTS
    d1 = d1
    Handlers = {h1}
    Backends = {"file"}
    MsgIds = {1, 2}
    TTLs = {1}
    Readable = {TRUE, FALSE}
    Limit = 2
    NoEnvelope = NoEnvelope
    Free = Free
    MaxTime = 1
    MaxPosts = 2
    Devices = {d1}
    Commands = {c1, c2}
    DeviceOf <- OneDevice
    MaxKills = 1
SPECIFICATION FairSyncSpec
INVARIANTS
    InboxTypeOK
    PrintedIsOnRecord
    RepeatsBounded

    
