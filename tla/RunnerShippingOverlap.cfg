CONSTANTS
    Turn = turn
    Only = a1
    Machine = fast
    Jobs = {turn}
    Attempts = {a1}
    Runners = {fast}
    Commands = {}
    Results <- Outcomes
    ReplaySafe = {}
    Serves <- ServesTurn
    CommandJob <- NoCommands
    Lease = 1
    Resolution = 1
    Overlap = TRUE
    MaxTime = 2
    MaxEpoch = 2
    MaxSeq = 0
    MaxFrames = 1
    MaxPickups = 0
SPECIFICATION ShippingSpec
CHECK_DEADLOCK FALSE
INVARIANTS
    NewerCopyKeepsTurn
