SPECIFICATION Spec
CONSTANTS
    MaxClients = 1
    Receivers = {"balance"}
    NoClient = NoClient
    Accounts = {alice, bob}
    Undecodable = {}
    NoAccount = NoAccount
    MaxTransfers = 2
INVARIANTS
    TypeOK
    NotifiedWhenBehind
