SPECIFICATION FairSyncSpec
PROPERTIES
    RequestsServed
    PollingCatchesUp
