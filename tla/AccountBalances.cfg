CONSTANTS
    Addresses = {a, b, c}
    Undecodable = {c}
    MaxTransfers = 2
SPECIFICATION Spec
INVARIANTS TypeOK BalancesAreFresh
PROPERTIES BalancesAreShown
