SPECIFICATION Spec
CONSTANTS
    unit = unit
    deploy = deploy
    oneoff = oneoff
    NoPipeline = NoPipeline
    NoCommand = NoCommand
    c1 = c1
    c2 = c2
    Jobs = {unit}
    OwnPipelines = {unit}
    PublicPipelines = {}
    PrivatePipelines = {}
    Destroyable = {}
    Abortable = {}
    Outcomes = {"succeeded", "failed", "errored", "aborted"}
    FirstId = 1
    LastId = 3
    History = 1
    Commands = {}
    Durations = {}
    DefaultMute = 1
    MaxNow = 0
    MaxHandled = 3
INVARIANTS
    TransitionsAnnounced
CHECK_DEADLOCK FALSE
