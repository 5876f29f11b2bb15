SPECIFICATION Spec
CONSTANTS
    Items = {post}
    Feeds = {}
    Owned = {post}
    None = None
    MaxRevisions = 3
    Tasks = {t1, t2}
PROPERTY SaveKeepsCurrentImage
