\* A registration, then a client with a message and a report; callbacks do not
\* call DoWork.
SPECIFICATION DSpec
CONSTANTS
    Msgs = {m1}
    Reports = {r1}
    AppTopics = {"getState", "methods"}
    NULL = NULL
    RESEND_TIMEOUT_VALUE_MIN = 0
    TELEMETRY_MSG_TIMEOUT_MIN = 2
    ON_DEMAND_GET_TWIN_REQUEST_TIMEOUT_SECS = 1
    TWIN_REPORT_UPDATE_TIMEOUT_SECS = 3
    MaxNest = 0
    PROV_GET_THROTTLE_TIME = 1
    RetryTimes = {1, 2}
    MaxGiveUps = 1
INVARIANTS
    SessionFirst
    OneRequest
    AnswerIsSound
PROPERTIES
    SentIsSettled
    Reconnects
    Registers
\* A client that is destroyed does nothing any more.
CHECK_DEADLOCK FALSE
