CONSTANTS
    Ids = {i1, i2}
    Peers = {p1, p2}
    Bodies = {b1}
    Admins = {a1}
    Handlers = {h1, h2}
    NoRecord = NoRecord
    NoAdmin = NoAdmin
    NoBody = NoBody
    NoRequest = NoRequest
    NoStatus = NoStatus
    Free = Free
    Torn = Torn
    Absent = Absent
    MaxRequests = 4
SPECIFICATION FairSpec
INVARIANTS
    AnswersStayTrue
    ReadersSeeWholeFile
    WritersKeepOtherRecords
PROPERTIES
    ImplementsDirectory
    EveryRequestEnds
