SPECIFICATION FairSpec
CONSTANTS
    ConnectionTypes = {"DPS", "STRING"}
    Hubs = {h1}
    Subscribers = {s1}
    NULL = NULL
    MAX_CONNECTION_STATUS_CALLBACKS = 1
    MaxRetry = 0
    MaxQueue = 0
    MaxDepth = 1
    EarlyCalls = FALSE
PROPERTY
    ComesOnline
