SPECIFICATION Spec
CONSTANTS
    MaxClients = 1
    Receivers = {"balance"}
    NoClient = NoClient
    Accounts = {alice, bob}
    Undecodable = {}
    NoAccount = NoAccount
    MaxTransfers = 0
INVARIANT BalanceIsOfActiveAccount
