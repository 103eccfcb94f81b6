CONSTANTS
    Backends = {"file", "firestore"}
    PublishIds = {1, 2, 3}
    Times = {1, 2}
    Tags = {a, b}
    Score <- SomeScores
    PageSizes = {1, 2}
    MaxTags = 2
    Window = 3
    Candidates = 1
    AnyTag = AnyTag
    NoRecord = NoRecord
    FirstPage = FirstPage
    End = End
    MaxChanges = 2
SPECIFICATION SearchSpec
SYMMETRY Symmetry
CHECK_DEADLOCK FALSE
INVARIANTS
    SearchTypeOK
    PagesDescend
    SearchIsComplete
    WindowIsKept
    DiscoverFindsBest
