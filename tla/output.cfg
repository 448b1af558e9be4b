SPECIFICATION SuiteSpec
CONSTANTS
    t1 = t1
    t2 = t2
    NoTask = NoTask
    Tasks = {t1, t2}
    Entries <- Events
    MaxEvents = 4
    Order <- ConcourseEventsFake
    Reader = Reader
    Helper = Helper
    Callers = {Reader, Helper}
    Nobody = Nobody
    EOF = EOF
    Zero = Zero
    Values <- MCValues
    MaxCalls = 2
    MaxPolls = 3
INVARIANTS
    TypeOK
    TextIsTheLog
    RecordsAgree
    AnswersInOrder
PROPERTIES
    WholeLog
    CollectedAtOnce
    ReturnsUnlessGone
    ExamplesPass
CHECK_DEADLOCK FALSE
