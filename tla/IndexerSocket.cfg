SPECIFICATION Spec
CONSTANTS
    MaxClients = 1
    Receivers = {}
    NoClient = NoClient
PROPERTY LoopExitClosesSocket
CHECK_DEADLOCK FALSE
