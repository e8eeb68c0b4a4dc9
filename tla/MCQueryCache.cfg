SPECIFICATION Spec
CONSTANTS
    t1 = t1
    t2 = t2
    a = a
    b = b
    c = c
    Threads = {t1, t2}
    Keys = {a, b, c}
    MaxSize = 2
    TTL = 1
    NoEntry = NoEntry
    NoKey = NoKey
    MaxNow = 2
    MaxVersion = 1
SYMMETRY Symmetry
INVARIANTS
    TypeOK
    StaleOnlyByRace
PROPERTY SoloInsertBounded
