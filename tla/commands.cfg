SPECIFICATION FairSpec
CONSTANTS
    c1 = c1
    c2 = c2
    c3 = c3
    p1 = p1
    p2 = p2
    NoTarget = NoTarget
    Nobody = Nobody
    Ids = {c1, c2}
    Targets = {p1}
INVARIANTS
    TypeOK
    AnswersAreHeard
    OnlyUnknownLeftOpen
PROPERTIES
    EveryCommandEnds
    ImplementsResponses
CHECK_DEADLOCK FALSE
