SPECIFICATION Spec
CONSTANTS
    unit = unit
    deploy = deploy
    oneoff = oneoff
    c1 = c1
    c2 = c2
    NoPipeline = NoPipeline
    NoCommand = NoCommand
    Jobs = {unit}
    OwnPipelines = {unit, oneoff}
    PublicPipelines = {}
    PrivatePipelines = {}
    Destroyable = {}
    Abortable = {2}
    Outcomes = {"succeeded", "failed"}
    FirstId = 1
    LastId = 3
    History = 1
    Commands = {c1, c2}
    Durations = {}
    DefaultMute = 1
    MaxNow = 1
    MaxHandled = 3
SYMMETRY CommandSymmetry
INVARIANTS
    TypeOK
    HistoryIsComplete
    RerunAnsweredOnce
    OpenMeansOwed
PROPERTIES
    MutedMeansSilent
CHECK_DEADLOCK FALSE
