CONSTANTS
    Handlers = {h1, h2}
    Backends = {"file", "firestore"}
    Lookups = {l1, l2}
    Tokens = {t1, t2}
    Digests = {1}
    Skews = {0, 1}
    MaxGenerations = 2
    NoBucket = NoBucket
    NoRequest = NoRequest
    Free = Free
    MaxRequests = 4
SPECIFICATION Spec
SYMMETRY Symmetry
INVARIANTS
    AcknowledgedKept
    LatestIsLast
    OneOwner
    ReadsAreFresh
