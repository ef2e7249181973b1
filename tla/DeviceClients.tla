--------------------------- MODULE DeviceClients ---------------------------
(***************************************************************************)
(* The two SDK clients as SetUpAzureIoTHubClientWithDpsPnP composes them:  *)
(* a provisioning client that is polled until it has an answer or is given *)
(* up, then the hub client with the hub it was assigned.                   *)
(***************************************************************************)
EXTENDS HubClient

CONSTANTS PROV_GET_THROTTLE_TIME, RetryTimes,
    MaxGiveUps      \* bound: registrations given up in a row

ASSUME ProvAssumption ==
    /\ PROV_GET_THROTTLE_TIME \in RetryTimes
    /\ \A n \in RetryTimes : n \in Nat /\ n >= PROV_GET_THROTTLE_TIME
    /\ MaxGiveUps \in Nat

VARIABLES prov_handle, at, prov_state, error_reason, is_connected, retry_after, last_send,
          mqtt_state, transport_state, operation_id, payload_data, request, prov_link, answers,
          giveUps

P == INSTANCE ProvClient WITH link <- prov_link

provVars == <<prov_handle, at, prov_state, error_reason, is_connected, retry_after, last_send,
              mqtt_state, transport_state, operation_id, payload_data, request, prov_link,
              answers>>
allVars == <<vars, provVars, giveUps>>

-----------------------------------------------------------------------------
\* DEVICE_NOT_CONNECTED, DEVICE_PROVISIONING_ERROR
Provision ==
    /\ client = "none"
    /\ P!Register
    /\ UNCHANGED <<vars, giveUps>>

\* 60 polls have passed, with an answer in the last one or without; or the hub
\* client could not be created.
GiveUpProvisioning ==
    /\ giveUps < MaxGiveUps
    /\ giveUps' = giveUps + 1
    /\ P!Destroy
    /\ UNCHANGED vars

\* DEVICE_PROVISION_IOT_CLIENT
ProvisionIotClient ==
    /\ answers = P!Ok
    /\ P!Destroy
    /\ Create
    /\ giveUps' = 0

DInit == Init /\ P!Init /\ giveUps = 0

DNext ==
    \/ Provision
    \/ P!Running /\ UNCHANGED <<vars, giveUps>>
    \/ GiveUpProvisioning
    \/ ProvisionIotClient
    \/ Running /\ UNCHANGED <<provVars, giveUps>>

DSpec == DInit /\ [][DNext]_allVars /\ Fairness /\ P!Fairness

-----------------------------------------------------------------------------
\* The transport knows a reply only by its own state: there is never more than
\* one request under way, however transient errors, delayed retries and the calls
\* of the two layers interleave, on one registration after another.
OneRequest == P!OneRequest

\* RegisterProvisioningDeviceCallback hears of a registration at most once, and of
\* OK only with a hub: dx_azure_iot.c takes OK without one as leave to connect to
\* the hub of an earlier registration.
AnswerIsSound == P!AnswerIsSound

\* SetUpAzureIoTHubClientWithDpsPnP polls for an answer: a registration that is
\* not given up has one in the end, whatever replies make the client ask again.
Registers == prov_handle ~> answers # <<>> \/ ~prov_handle
=============================================================================
