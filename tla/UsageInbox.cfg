CONSTANTS
    Instances = {legacy, pushed}
    Legacy = legacy
    Kind <- MixedKind
    MaxAttempts = 2
    ProcessLimit = 2
    BatchSize = 2
    MaxMessages = 3
    MaxCrashes = 1
SPECIFICATION FairSpec
INVARIANTS ExactlyOnce RetryBudget MessagesKept
PROPERTIES NoHotRetry DeletionIsFinal ImplementsLedger Settles
