SPECIFICATION AnswersSpec
CONSTANTS
    Questions <- MCQuestions
    Identifiers <- MCNames
    U32 = 16
    t1 = t1
    t2 = t2
    Threads = {t1, t2}
    NoThread = NoThread
    Files = {"main.go"}
    Functions = {"f"}
    Contents <- MCContents
    EmptyContent <- MCEmpty
    Bodies <- MCBodies
    Absent = Absent
    MaxVersion = 2
INVARIANTS
    ClosedAnswersRight
    
    TypeOK
    StaleOnlyByRace
    DeadlockOnlyByStats
PROPERTY CallsReturn
CHECK_DEADLOCK FALSE
