SPECIFICATION FairSpec
CONSTANTS
    a = a
    b = b
    Sessions = {a}
    NTurns = 2
    SessionOf <- OneSession
    Kind <- NativeSlackNative
    Priority <- Equal
    MaxAttempts = 2
    MaxInstances = 2
    Stoppable = {1, 2}
    Steerable = {}
    Attaching = {2}
    Refusing = {2}
    Receipted = {1}
    Archivable = {}
    Gates = {}
INVARIANTS
    RunHoldsItsTurn
PROPERTIES
    ImplementsInputPromise
    StopIsHonoured
    GhostsAreRecovered
    NoSilentStall
CHECK_DEADLOCK FALSE
