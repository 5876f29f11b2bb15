CONSTANTS
    Accounts = {a, b}
    None = None
    MaxItems = 2
    MaxRevisions = 2
    Slots = {s1}
    LoadTasks = {t1, t2}
SPECIFICATION Spec
INVARIANTS TypeOK OneProfilePerAccount ViewShowsActive SpinnersMeanWork LandedIsComplete
PROPERTIES ImplementsRegistry
SYMMETRY AccountSymmetry
