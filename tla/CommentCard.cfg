CONSTANTS
    u1 = u1
    ours = ours
    other = other
    Users = {u1, u2}
    Items = {ours, other}
    Emojis = {x, y}
    None = None
    MaxRevision = 1
    MaxEvents = 2
    FirstEvents <- MCEvents
    Comments <- MCComments
SPECIFICATION Spec
INVARIANTS TypeOK ViewIsChain
PROPERTIES ToggleChangesOne BodyArrivesForNamed
SYMMETRY EmojiSymmetry
