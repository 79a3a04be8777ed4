CONSTANTS
    Turn = turn
    Only = a1
    Machine = fast
    Jobs = {turn}
    Attempts = {a1}
    Runners = {fast}
    Commands = {}
    Results = {gone}
    ReplaySafe = {}
    Serves <- ServesTurn
    CommandJob <- NoCommands
    Lease = 6
    Resolution = 1
    Fence = 2
    Answer = 1
    Check = 1
    HostCheck = 1
    Grace = 1
    Launching = 1
    Reading = 1
    OtherCalls = TRUE
    MaxCrashes = 1
    MaxTime = 15
    MaxEpoch = 2
    MaxSeq = 0
SPECIFICATION TurnSpec
CHECK_DEADLOCK FALSE
INVARIANTS
    LateOnlyWhenUncarried
