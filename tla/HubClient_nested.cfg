\* Two messages; callbacks call DoWork, which calls back again.
SPECIFICATION Spec
CONSTANTS
    Msgs = {m1, m2}
    Reports = {}
    AppTopics = {"getState"}
    NULL = NULL
    RESEND_TIMEOUT_VALUE_MIN = 0
    TELEMETRY_MSG_TIMEOUT_MIN = 2
    ON_DEMAND_GET_TWIN_REQUEST_TIMEOUT_SECS = 1
    TWIN_REPORT_UPDATE_TIMEOUT_SECS = 1
    MaxNest = 1
INVARIANTS
    TypeOK
    ConnectedIsTold
PROPERTY ImplementsConfirmations
\* A client that is destroyed does nothing any more.
CHECK_DEADLOCK FALSE
