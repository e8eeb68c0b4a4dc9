SPECIFICATION Spec
CONSTANTS
    t1 = t1
    t2 = t2
    Threads = {t1, t2}
    NoThread = NoThread
    Files = {"main.go"}
    Functions = {"f"}
    Contents <- MCContents
    EmptyContent <- MCEmpty
    Bodies <- MCBodies
    Absent = Absent
    MaxVersion = 2
INVARIANT ParsesFresh
CHECK_DEADLOCK FALSE
