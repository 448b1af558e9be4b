SPECIFICATION Spec
CONSTANTS
    own = own
    public = public
    private = private
    NoPipeline = NoPipeline
    OwnPipelines <- MCOwn
    PublicPipelines <- MCPublic
    PrivatePipelines <- MCPrivate
    Destroyable <- MCOwn
    Abortable = {3, 4}
    Outcomes = {"succeeded"}
    FirstId = 1
    LastId = 4
    History = 2
    PageLimit = 2
INVARIANTS
    TypeOK
    ReportedHolds
    NoRegress
    NothingSkippedIfTogether
    NewBuildsAreSeen
PROPERTIES
    ImplementsFeed
    StartsOnTwoBuilds
CHECK_DEADLOCK FALSE
