CONSTANTS
    Instances = {legacy, pushed}
    Legacy = legacy
    Credentials = {c1, c2}
    Streams = {s1}
    Handlers = {h1}
    PushScope = {c1}
    MaxSeq = 1
    ChangedReplays = FALSE
SPECIFICATION FairSpec
INVARIANT NothingAfterDelete
PROPERTY StreamsDrain
CHECK_DEADLOCK FALSE
