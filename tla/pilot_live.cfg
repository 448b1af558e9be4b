SPECIFICATION FairSpec
CONSTANTS
    own = own
    public = public
    private = private
    NoPipeline = NoPipeline
    OwnPipelines <- MCOwn
    PublicPipelines <- MCNone
    PrivatePipelines <- MCNone
    Destroyable <- MCNone
    Abortable = {}
    Outcomes = {"succeeded"}
    FirstId = 1
    LastId = 6
    History = 2
    PageLimit = 2
PROPERTIES
    AllReportedIfTogether
    ResendingEnds
    ClosesWhileReceived
CHECK_DEADLOCK FALSE
