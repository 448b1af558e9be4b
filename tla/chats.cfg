SPECIFICATION ProgramFairSpec
CONSTANTS
    MaxNotified = 2
    MaxWritten = 2
    Garbage = {"other", "json", "data", "empty"}
INVARIANTS
    TypeOK
PROPERTIES
    ImplementsChat
    RepliesAreRun
    NobodyWaits
    KeepsListening
CHECK_DEADLOCK FALSE
