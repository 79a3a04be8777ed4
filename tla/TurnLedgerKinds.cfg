SPECIFICATION Spec
CONSTANTS
    a = a
    b = b
    Sessions = {a}
    NTurns = 3
    SessionOf <- OneSession
    Kind <- NativeSlackNative
    Priority <- LastFirst
    MaxAttempts = 2
    MaxInstances = 2
    Stoppable = {}
    Steerable = {}
    Attaching = {}
    Refusing = {}
    Receipted = {1}
    Archivable = {}
    Gates = {}
PROPERTIES
    ImplementsSessionLock
    ProviderSeesInputsInOrder
CHECK_DEADLOCK FALSE
