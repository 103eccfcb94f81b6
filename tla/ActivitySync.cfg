CONSTANTS
    d1 = d1
    d2 = d2
    c3 = c3
    Devices = {d1, d2}
    Commands = {c1, c2, c3}
    DeviceOf <- TwoAndOne
    Entries = {x}
    Versions = {0, 1}
    Profiles = {p}
    Ids = {1, 2, 3}
    TTL = 1
    MaxEvents = 2
    None = None
    Limits = {1}
    Skews = {0}
    MaxTime = 1
    MaxEdits = 1
SPECIFICATION Spec
SYMMETRY Symmetry
CHECK_DEADLOCK FALSE
INVARIANTS
    TypeOK
    RoundCoversBucket
    AckedEventsKept
