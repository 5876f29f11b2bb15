SPECIFICATION FairSpec
CONSTANTS
    MaxClients = 2
    Receivers = {}
    NoClient = NoClient
INVARIANTS
    TypeOK
    SharedClientIsCurrent
PROPERTIES
    ChainImplementsLifecycle
    IpfsImplementsLifecycle
    IndexerImplementsLifecycle
    AllLoopsStop
    LossesAreRetried
    SignalFollowsChannel
CHECK_DEADLOCK FALSE
