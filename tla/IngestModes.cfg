SPECIFICATION MCFairSpec
INVARIANT RequestsKept
PROPERTIES
    HeldIsStored
    SubscriptionReturns
