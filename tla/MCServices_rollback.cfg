SPECIFICATION ServicesSpec
CONSTANTS
    t1 = t1
    t2 = t2
    x = x
    y = y
    p1 = p1
    p2 = p2
    Subscribers = {t1, t2}
    InputCap = 1
    OutputCap = 1
    MaxEvents = 3
    Checkers = {t1, t2}
    ExprIds = {1, 2}
    Verdict <- MCVerdict
    Batches <- MCBatches
    Threads = {t1, t2}
    Paths = {p1}
    Texts = {x, y}
    MaxRevision = 3
    Urls = {p1, p2}
    MaxHandlers = 2
    MaxVersion = 3
    Indexers = {t1, t2}
    Sources = {p1}
    SourceTexts <- MCSourceTexts
    Exported = {x}
    MaxIndexings = 2
    MaxChanges = 2
    TypeIds = {1, 2}
    Fingerprints = {p1, p2}
    Types <- MCTypes
    Absent = Absent
    Users = {t1, t2}
    Packages = {p1, p2}
    Found = {p1}
    Asked <- MCAsked
    MaxTx = 1
    MaxScopes = 4
    Sockets = {t1}
    Streams = {t2}
    MaxAgents = 1
    ReplyCap = 1
    MaxRequests = 2
    Parts = {1, 2}
    BufferParts = 3
    MaxMessages = 3
    Metered = {t1, t2}
    QueryNames = {x}
    Sizes = {1}
    MaxMetered = 1
    MaxSnapshots = 1
INVARIANT RollbackFindsCheckpoint
CHECK_DEADLOCK FALSE
