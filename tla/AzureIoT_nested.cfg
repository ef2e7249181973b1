SPECIFICATION Spec
CONSTANTS
    ConnectionTypes = {"NOT_DEFINED", "HOSTNAME", "DPS", "STRING"}
    Hubs = {h1, h2}
    Subscribers = {s1, s2}
    NULL = NULL
    MAX_CONNECTION_STATUS_CALLBACKS = 2
    MaxRetry = 0
    MaxQueue = 1
    MaxDepth = 4
    EarlyCalls = TRUE
SYMMETRY Interchangeable
INVARIANTS
    ProvisioningResources
    ConfigurationIsFixed
    SessionHasClient
    ConnectedMeansSession
    AuthenticatedIsAnnounced
    SendsWhileAuthenticated
    OutstandingIsQueued
    TimerNeverLost
    HubIsAssigned
    FirstSubscriberAgrees
PROPERTY
    ImplementsSession
