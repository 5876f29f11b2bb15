SPECIFICATION Spec
CONSTANTS
    Items = {feed, post}
    Feeds = {feed}
    Owned = {feed}
    None = None
    MaxRevisions = 2
    Tasks = {t1, t2}
INVARIANT ShowsRevisionOfItem
