CONSTANTS
    Turn = turn
    Only = a1
    Machine = fast
    Jobs = {turn}
    Attempts = {a1}
    Runners = {fast}
    Commands = {}
    Results = {gone}
    ReplaySafe = {}
    Serves <- ServesTurn
    CommandJob <- NoCommands
    Lease = 9
    Resolution = 1
    Fence = 5
    Answer = 1
    Check = 1
    HostCheck = 1
    Grace = 1
    Launching = 1
    Reading = 1
    OtherCalls = TRUE
    MaxCrashes = 1
    MaxTime = 18
    MaxEpoch = 2
    MaxSeq = 0
SPECIFICATION TurnSpec
CHECK_DEADLOCK FALSE
INVARIANTS
    NeverActsAfterLost
