CONSTANTS
    Ids = {i1}
    Peers = {p1, p2}
    Bodies = {b1}
    Admins = {a1}
    Handlers = {h1, h2, h3}
    NoRecord = NoRecord
    NoAdmin = NoAdmin
    NoBody = NoBody
    NoRequest = NoRequest
    NoStatus = NoStatus
    MaxRequests = 4
SPECIFICATION FairSpec
INVARIANTS
    NoLostUpdate
    AuditAgrees
    AnswersStayTrue
PROPERTIES
    AuthorDeletionFinal
    ModerationKept
    ImplementsDirectory
    EveryRequestEnds
