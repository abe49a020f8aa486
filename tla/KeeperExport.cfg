CONSTANTS
    Instances = {legacy, pushed}
    Legacy = legacy
    Credentials = {c1}
    Streams = {s1}
    Handlers = {h1, h2}
    PushScope = {c1}
    MaxSeq = 2
    ChangedReplays = TRUE
    Categories = {keys}
    Items = {a}
    Pushers = {h1, h2}
    MetadataScope = {c1}
    MaxRevision = 2
    MaxChanges = 2
    MaxLives = 2
SYMMETRY Symmetric
SPECIFICATION MCSpec
INVARIANTS StoredOnce AcksAreStored NothingAfterDelete RowsMatchLedger
PROPERTIES NoResurrection
CHECK_DEADLOCK FALSE
