SPECIFICATION Spec
CONSTANTS
    a = a
    b = b
    Sessions = {a}
    NTurns = 2
    SessionOf <- OneSession
    Kind <- AllSlack
    Priority <- Equal
    MaxAttempts = 2
    MaxInstances = 1
    Stoppable = {}
    Steerable = {}
    Attaching = {}
    Refusing = {1, 2}
    Receipted = {}
    Archivable = {}
    Gates = {}
INVARIANTS
    NoBlindReplay
CHECK_DEADLOCK FALSE
