SPECIFICATION Spec
CONSTANTS
    a = a
    b = b
    Sessions = {a}
    NTurns = 1
    SessionOf <- OneSession
    Kind <- AllSlack
    Priority <- Equal
    MaxAttempts = 2
    MaxInstances = 1
    Stoppable = {1}
    Steerable = {}
    Attaching = {}
    Refusing = {}
    Receipted = {}
    Archivable = {}
    Gates = {}
PROPERTIES
    StopNeverBecomesRetry
CHECK_DEADLOCK FALSE
