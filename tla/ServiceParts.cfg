CONSTANTS
    Captures = {1, 2}
    InspectOnly = {2}
    MaxClaims = 2
    MaxIncarnations = 2
    Inputs = {1, 2}
    MaxHandOffs = 3
    MaxDeaths = 1
    MaxOutages = 3
    MaxCrashes = 2
    Commands = {1, 2}
    CommandStreams <- Streams
    CancelTarget <- Targets
    MaxCommandClaims = 2
    MaxWorkers = 2
    CustodyRuns = {1, 2}
    MaxCoordinators = 2
    DeployRuns = {1}
    DeployRequests = {1}
    MaxCommit = 3
    MaxRunnerDeaths = 1
    ReproducibleBuilds = FALSE
    Watchers = {1, 2}
    MaxWatches = 2
    MaxLaunches = 2
    MaxLost = 1
    ForkFlows = {1, 2}
    MaxForkCalls = 2
    MaxForkProcesses = 2
    Interval = 1
    Lasts = 1
    MaxFirings = 3
    MaxInstant = 3
    MaxByHand = 1
    SentRequests = {1}
    OwedRequests = {1}
    MaxLineage = 3
    MaxHandoffLoad = 4
SPECIFICATION PartsSpec
CHECK_DEADLOCK FALSE
INVARIANTS
    PartsTypeOK
    HeldWhileDelivering
    DrainedIsQuiet
    NeverReceivedTwice
    AcknowledgementWins
    NoticeIsCurrent
    ToldTheOutcome
    AgentHasCustody
    LatestEntrantRuns
    AnsweredTruly
    ActivatesWhatIsDesired
    RunningIsKnown
    AnswerBeforeEndCounts
    ForwardedIsHeld
    ReplyJoinsFork
    HandoffKeepsCustody
PROPERTIES
    CarriedOutInOrder
    QueueWaitsForAgent
    WatchEndsOnce
    RetriedFromDeadOwner
    EndedStaysEnded
    OneFiringAhead
