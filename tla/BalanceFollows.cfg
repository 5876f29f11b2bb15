SPECIFICATION FairSpec
CONSTANTS
    MaxClients = 2
    Receivers = {"balance"}
    NoClient = NoClient
    Accounts = {alice, typo}
    Undecodable = {typo}
    NoAccount = NoAccount
    MaxTransfers = 1
INVARIANTS
    WaitsWithLatest
PROPERTIES
    FollowsActiveAccount
    BalanceTaskStops
