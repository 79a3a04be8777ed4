CONSTANTS
    Turn = turn
    Only = a1
    Machine = fast
    Jobs = {turn}
    Attempts = {a1}
    Runners = {fast}
    Commands = {}
    Results <- Outcomes
    ReplaySafe = {}
    Serves <- ServesTurn
    CommandJob <- NoCommands
    Lease = 1
    Resolution = 1
    Overlap = FALSE
    MaxTime = 1
    MaxEpoch = 3
    MaxSeq = 0
    MaxFrames = 2
    MaxPickups = 0
    Turns = {1, 2}
    ClaimsPerSlice = 1
    MaxThrows = 1
    MaxRequeues = 1
SPECIFICATION ProgressSpec
CHECK_DEADLOCK FALSE
INVARIANTS
    NoLostWakeUp
PROPERTIES
    GoneHostIsReported
    EveryTurnIsClaimed
