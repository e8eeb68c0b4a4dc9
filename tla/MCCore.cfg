SPECIFICATION CoreSpec
CONSTANTS
    t1 = t1
    t2 = t2
    t3 = t3
    empty = empty
    foo = foo
    bar = bar
    Threads = {t1, t2, t3}
    Keys = {empty, foo, bar}
    EmptyKey = empty
    NoKey = NoKey
    MaxId = 7
    m1 = m1
    m2 = m2
    e1 = e1
    e2 = e2
    u = u
    v = v
    A = A
    B = B
    node = node
    Entities = {e1, e2}
    Components = {u, v}
    ArchetypeIds = {A, B}
    ComponentTypes = {node}
    T = node
    Movers = {m1, m2}
    Absent = Absent
SYMMETRY Symmetry
INVARIANTS
    CoreTypeOK
    IdsResolve
    DuplicatesBounded
    NoLostId
    StoragesDense
    ComponentsOwned
PROPERTIES
    SymbolsImmutable
    ImplementsComponentMap
