CONSTANTS
    Handlers = {h1}
    NonceKeys = {k1}
    Skew = 1
    NotSeen = NotSeen
    NoRequest = NoRequest
    MaxUtc = 3
    MaxRequests = 2
    MaxRestarts = 0
SPECIFICATION AuthSpec
INVARIANTS
    SignedRequestAcceptedOnce
