SPECIFICATION FlyontimeFairSpec
CONSTANTS
    unit = unit
    oneoff = oneoff
    c1 = c1
    c2 = c2
    NoPipeline = NoPipeline
    NoCommand = NoCommand
    Jobs = {unit}
    OwnPipelines = {unit}
    PublicPipelines = {}
    PrivatePipelines = {}
    Destroyable = {}
    Abortable = {3}
    Outcomes = {"failed"}
    FirstId = 1
    LastId = 4
    History = 2
    PageLimit = 3
    Commands = {c1}
    Durations = {}
    DefaultMute = 0
    MaxNow = 1
    MaxHandled = 3
INVARIANTS
    RerunAnsweredOnce
    NothingOverlooked
    RerunNotPassedBy
PROPERTIES
    RerunAnswered
    HistoryCatchesUp
    ImplementsMonitorSystem
    ImplementsResponses
CHECK_DEADLOCK FALSE
