CONSTANTS
    Handlers = {h1, h2}
    NonceKeys = {k1, k2}
    Skew = 1
    NotSeen = NotSeen
    NoRequest = NoRequest
    MaxUtc = 3
    MaxRequests = 4
    MaxRestarts = 1
SPECIFICATION AuthSpec
SYMMETRY Symmetry
INVARIANTS
    NonceRejectedForSkew
    RecentNoncesRemembered
