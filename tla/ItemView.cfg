SPECIFICATION FairSpec
CONSTANTS
    Items = {feed, post}
    Feeds = {feed}
    Owned = {feed}
    None = None
    MaxRevisions = 2
    Tasks = {t1, t2}
INVARIANTS
    TypeOK
    SpinnersMeanWork
    HistoryOfLoaded
    NotFoundMeansNoClient
    CalmIsCoherent
PROPERTIES
    SpinnersStop
