SPECIFICATION FairSpec
CONSTANTS
    MaxFiles = 3
    Keys <- MCKeys
    Tasks = {t1, t2}
    None = None
    Torn = Torn
INVARIANTS
    TypeOK
    ActiveIsListed
    RestartKeepsAccounts
    SignerMatchesEntry
    NeverStuckUnlocking
PROPERTIES
    NoUnlockAfterCancel
    ImplementsKeystore
    UnlockAnswered
