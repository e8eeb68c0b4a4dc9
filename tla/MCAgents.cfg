SPECIFICATION AgentsSpec
CONSTANTS
    t1 = t1
    t2 = t2
    t3 = t3
    a1 = a1
    b1 = b1
    Branches = {a1, b1}
    Tasks = {t1, t2}
    TypeIds = {"x", "y"}
    Fingerprints = {"f", "g"}
    Types <- MCTypes
    Edits <- MCEdits
    Transactions <- MCTransactions
    Absent = Absent
    Requests = {t1, t2, t3}
    Agents = {a1, b1}
    NoAgent = NoAgent
    MaxAgents = 1
    MaxSessions = 4
    Shard <- MCShard
SYMMETRY Symmetry
INVARIANTS
    AgentsTypeOK
    IndexCovers
    OkIsAccountable
    SessionsBounded
    AgentsResolve
    ClosedAlone
    SessionsAccounted
    ActiveConverges
    StrandedOnlyByRace
PROPERTY ReadsStable
