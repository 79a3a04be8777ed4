SPECIFICATION Spec
CONSTANTS
    a = a
    b = b
    Sessions = {a}
    NTurns = 2
    SessionOf <- OneSession
    Kind <- AllSlack
    Priority <- Equal
    MaxAttempts = 2
    MaxInstances = 2
    Stoppable = {1}
    Steerable = {1}
    Attaching = {1}
    Refusing = {2}
    Receipted = {}
    Archivable = {a}
    Gates = {"drain"}
INVARIANTS
    ReplayIsProven
    RunningSessionHasLiveTurn
    UploadsNeverStrandSession
CHECK_DEADLOCK FALSE
