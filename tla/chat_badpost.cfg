SPECIFICATION ProgramSpec
CONSTANTS
    MaxNotified = 1
    MaxWritten = 1
    Garbage = {"other", "data"}
INVARIANTS
    BadPostIsSkipped
CHECK_DEADLOCK FALSE
