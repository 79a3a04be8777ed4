CONSTANTS
    Turn = turn
    Build = build
    Fast = fast
    Slow = slow
    Jobs <- Both
    Attempts = {a1, a2}
    Runners = {fast, slow}
    Commands = {c1}
    Results = {yes, no}
    ReplaySafe = {build}
    Serves <- MCServes
    CommandJob <- ForTurn
    Lease = 2
    Resolution = 1
    MaxTime = 5
    MaxEpoch = 2
    MaxSeq = 0
SPECIFICATION Spec
CHECK_DEADLOCK FALSE
INVARIANTS
    LeaseFollowsContact
PROPERTIES
    ImplementsCustody
SYMMETRY AnyAttempt
