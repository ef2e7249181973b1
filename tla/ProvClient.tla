----------------------------- MODULE ProvClient -----------------------------
(***************************************************************************)
(* The Azure IoT SDK's provisioning client as                              *)
(* SetUpAzureIoTHubClientWithDpsPnP uses it: prov_device_ll_client.c over  *)
(* prov_transport_mqtt_common.c, with a symmetric key and no timeout of    *)
(* its own.  Each layer has a state machine; DoWork runs the transport     *)
(* first, which may call back into the client, then the client.            *)
(*                                                                         *)
(* at is the place in Prov_Device_LL_DoWork; the service is heard in       *)
(* mqtt_client_dowork ("connected", "work").                               *)
(***************************************************************************)
EXTENDS Integers, Sequences

CONSTANTS
    PROV_GET_THROTTLE_TIME,
    RetryTimes      \* values of the service's retry-after, none below that

VARIABLES
    prov_handle,        \* does the client exist?
    at,
    prov_state,
    error_reason,       \* "OK" or "error"
    is_connected,
    retry_after,
    last_send,          \* the age of last_send_time_ms; it begins in the future
    mqtt_state,
    transport_state,
    operation_id,       \* is it known?
    payload_data,       \* what the last reply says
    request,            \* the service: the request to be answered
    link,               \* is there a connection?
    answers             \* history: the calls of register_callback, [result, hub]

clientVars    == <<prov_state, error_reason, is_connected, retry_after, last_send>>
transportVars == <<mqtt_state, transport_state, operation_id, payload_data>>
vars == <<prov_handle, at, clientVars, transportVars, request, link, answers>>

Replies == {"assigning", "assigned", "rejected"}
Oldest == 1 + CHOOSE n \in RetryTimes : \A k \in RetryTimes : k <= n

Failed == transport_state' = "ERROR" /\ mqtt_state' = "ERROR"
Answer(result, hub) == answers' = Append(answers, [result |-> result, hub |-> hub])

\* cleanup_prov_info closes the transport.
Cleanup ==
    /\ mqtt_state' = "IDLE"
    /\ is_connected' = FALSE
    /\ link' = FALSE
    /\ request' = "none"

-----------------------------------------------------------------------------
\* Prov_Device_LL_Create.  The first request is due although last_send_time_ms
\* lies in the future: the difference wraps.
Created ==
    /\ prov_handle' = TRUE
    /\ error_reason' = "OK"
    /\ is_connected' = FALSE
    /\ retry_after' = PROV_GET_THROTTLE_TIME
    /\ last_send' = -PROV_GET_THROTTLE_TIME
    /\ transport_state' = "IDLE"
    /\ operation_id' = FALSE
    /\ payload_data' = "none"

\* Prov_Device_LL_Register_Device on a new client; it opens the transport.
Register ==
    /\ ~prov_handle
    /\ Created
    /\ prov_state' = "REGISTER_SEND"
    /\ mqtt_state' = "DISCONNECTED"
    /\ request' = "none"
    /\ link' = FALSE
    /\ answers' = <<>>
    /\ UNCHANGED at

\* Prov_Device_LL_Destroy: nothing is left.
Destroy ==
    /\ prov_handle
    /\ at = "app"
    /\ prov_handle' = FALSE
    /\ prov_state' = "READY"
    /\ error_reason' = "OK"
    /\ retry_after' = PROV_GET_THROTTLE_TIME
    /\ last_send' = 0
    /\ transport_state' = "IDLE"
    /\ operation_id' = FALSE
    /\ payload_data' = "none"
    /\ answers' = <<>>
    /\ Cleanup
    /\ UNCHANGED at

\* dx_azure_iot.c polls once in a unit of time.
Older == last_send' = IF last_send < Oldest THEN last_send + 1 ELSE last_send

\* Prov_Device_LL_DoWork is called.
DoWork ==
    /\ prov_handle
    /\ at = "app"
    /\ mqtt_state # "DISCONNECTED" \/ prov_state = "ERROR"
    /\ at' = IF prov_state = "ERROR" \/ mqtt_state = "IDLE" THEN "client"
             ELSE IF mqtt_state = "CONNECTED" THEN "connected" ELSE "work"
    /\ Older
    /\ UNCHANGED <<prov_handle, prov_state, error_reason, is_connected, retry_after,
                   transportVars, request, link, answers>>

\* Its first call opens the connection.
create_connection ==
    /\ prov_handle
    /\ at = "app"
    /\ mqtt_state = "DISCONNECTED" /\ prov_state # "ERROR"
    /\ at' = "client"
    /\ \/ mqtt_state' = "CONNECTING" /\ link' = TRUE /\ UNCHANGED transport_state
       \/ Failed /\ UNCHANGED link
    /\ Older
    /\ UNCHANGED <<prov_handle, prov_state, error_reason, is_connected, retry_after,
                   operation_id, payload_data, request, answers>>

-----------------------------------------------------------------------------
(* The transport's callbacks.                                               *)

Hears == at \in {"connected", "work"} /\ link

OnConnack ==
    /\ Hears
    /\ mqtt_state = "CONNECTING"
    /\ \/ mqtt_state' = "CONNECTED" /\ UNCHANGED <<transport_state, error_reason>>
       \/ Failed /\ error_reason' = "error"
    /\ UNCHANGED <<prov_handle, at, prov_state, is_connected, retry_after, last_send,
                   operation_id, payload_data, request, link, answers>>

OnSubscribeAck ==
    /\ Hears
    /\ mqtt_state = "SUBSCRIBING"
    /\ \/ mqtt_state' = "SUBSCRIBED" /\ UNCHANGED transport_state
       \/ Failed
    /\ UNCHANGED <<prov_handle, at, clientVars, operation_id, payload_data, request, link,
                   answers>>

\* The reply is taken for the one to the last request: ids are not compared.
mqtt_notification_callback(reply) ==
    /\ Hears
    /\ request # "none"
    /\ request' = "none"
    /\ \/ /\ transport_state' = IF transport_state = "REG_SENT" THEN "REG_RECV"
                              ELSE "STATUS_RECV"
          /\ payload_data' = reply
          /\ UNCHANGED mqtt_state
       \/ Failed /\ UNCHANGED payload_data
    /\ UNCHANGED <<prov_handle, at, clientVars, operation_id, link, answers>>

\* A status of 429 or more.
OnTransient ==
    /\ Hears
    /\ request # "none"
    /\ request' = "none"
    /\ transport_state' = "TRANSIENT"
    /\ UNCHANGED <<prov_handle, at, clientVars, mqtt_state, operation_id, payload_data, link,
                   answers>>

mqtt_error_callback ==
    /\ Hears
    /\ Failed
    /\ link' = FALSE
    /\ request' = "none"
    /\ UNCHANGED <<prov_handle, at, clientVars, operation_id, payload_data, answers>>

-----------------------------------------------------------------------------
(* prov_transport_common_mqtt_dowork after mqtt_client_dowork.              *)

subscribe_to_topic ==
    /\ at = "connected"
    /\ at' = "client"
    /\ \/ /\ link
          /\ mqtt_state' = "SUBSCRIBING"
          /\ is_connected' = TRUE
          /\ UNCHANGED transport_state
       \/ Failed /\ UNCHANGED is_connected
    /\ UNCHANGED <<prov_handle, prov_state, error_reason, retry_after, last_send, operation_id,
                   payload_data, request, link, answers>>

\* The switch on the transport's state.
Working(states) ==
    /\ at = "work"
    /\ mqtt_state \in {"SUBSCRIBED", "ERROR"}
    /\ transport_state \in states
    /\ at' = "client"

WorkIdle ==
    /\ at = "work"
    /\ \/ mqtt_state \notin {"SUBSCRIBED", "ERROR"}
       \/ transport_state \in {"IDLE", "REG_SENT", "STATUS_SENT"}
    /\ at' = "client"
    /\ UNCHANGED <<prov_handle, clientVars, transportVars, request, link, answers>>

SendMessage ==
    /\ Working({"REG_SEND", "STATUS_SEND"})
    /\ \/ /\ link
          /\ transport_state' = IF transport_state = "REG_SEND" THEN "REG_SENT" ELSE "STATUS_SENT"
          /\ request' = IF transport_state = "REG_SEND" THEN "register" ELSE "status"
          /\ UNCHANGED mqtt_state
       \/ Failed /\ UNCHANGED request
    /\ UNCHANGED <<prov_handle, clientVars, operation_id, payload_data, link, answers>>

\* on_transport_status: the operation's status is asked for later.
OnAssigning ==
    /\ Working({"REG_RECV", "STATUS_RECV"})
    /\ payload_data = "assigning"
    /\ \/ /\ operation_id' = TRUE
          /\ prov_state' = "STATUS_SEND"
          /\ retry_after' \in RetryTimes
          /\ transport_state' = "IDLE"
          /\ UNCHANGED mqtt_state
       \/ /\ ~operation_id
          /\ Failed
          /\ UNCHANGED <<operation_id, prov_state, retry_after>>
    /\ UNCHANGED <<prov_handle, error_reason, is_connected, last_send, payload_data, request,
                   link, answers>>

\* on_transport_registration_data tells the application and closes.
OnAssigned ==
    /\ Working({"REG_RECV", "STATUS_RECV"})
    /\ payload_data = "assigned"
    /\ Answer("OK", TRUE)
    /\ prov_state' = "READY"
    /\ Cleanup
    /\ transport_state' = "IDLE"
    /\ UNCHANGED <<prov_handle, error_reason, retry_after, last_send, operation_id,
                   payload_data>>

\* The reply cannot be parsed or says no; not every such reply sets the reason.
OnRejected ==
    /\ Working({"REG_RECV", "STATUS_RECV"})
    /\ payload_data = "rejected"
    /\ error_reason' \in {error_reason, "error"}
    /\ Failed
    /\ UNCHANGED <<prov_handle, prov_state, is_connected, retry_after, last_send, operation_id,
                   payload_data, request, link, answers>>

\* Mutant: the client goes on waiting.
BugRetried == prov_state

Retried == IF prov_state = "REGISTER_SENT" THEN "REGISTER_SEND"
           ELSE IF prov_state = "STATUS_SENT" THEN "STATUS_SEND" ELSE prov_state

WorkTransient ==
    /\ Working({"TRANSIENT"})
    /\ prov_state' = Retried
    /\ retry_after' \in RetryTimes
    /\ transport_state' = "IDLE"
    /\ UNCHANGED <<prov_handle, error_reason, is_connected, last_send, mqtt_state,
                   operation_id, payload_data, request, link, answers>>

\* Mutant: the reason stays as it is.
BugReason == error_reason

\* on_transport_registration_data with an error.
Reason == "error"

WorkError ==
    /\ Working({"ERROR"})
    /\ prov_state' = "ERROR"
    /\ error_reason' = Reason
    /\ transport_state' = "IDLE"
    /\ mqtt_state' = "IDLE"
    /\ UNCHANGED <<prov_handle, is_connected, retry_after, last_send, operation_id,
                   payload_data, request, link, answers>>

-----------------------------------------------------------------------------
(* Prov_Device_LL_DoWork after the transport's.                             *)

\* Unsigned: the time of a send in the future is long ago.
Due == last_send < 0 \/ last_send > retry_after
Sends == prov_state \in {"REGISTER_SEND", "STATUS_SEND"} /\ is_connected

ClientIdle ==
    /\ at = "client"
    /\ prov_state # "ERROR"
    /\ ~Sends \/ ~Due
    /\ at' = "app"
    /\ UNCHANGED <<prov_handle, clientVars, transportVars, request, link, answers>>

\* Mutant: the client forgets that it has asked.
BugAsked(sent) == prov_state

Asked(sent) == sent

\* Asks the transport to register; it may refuse.
SendRegister ==
    /\ at = "client"
    /\ Sends /\ Due
    /\ prov_state = "REGISTER_SEND"
    /\ IF transport_state \in {"REG_SEND", "ERROR"} \/ operation_id
       THEN /\ prov_state' = "ERROR"
            /\ error_reason' = "error"
            /\ UNCHANGED transport_state
       ELSE /\ prov_state' = Asked("REGISTER_SENT")
            /\ transport_state' = "REG_SEND"
            /\ UNCHANGED error_reason
    /\ last_send' = 0
    /\ at' = "app"
    /\ UNCHANGED <<prov_handle, is_connected, retry_after, mqtt_state, operation_id,
                   payload_data, request, link, answers>>

SendStatus ==
    /\ at = "client"
    /\ Sends /\ Due
    /\ prov_state = "STATUS_SEND"
    /\ IF transport_state = "ERROR" \/ ~operation_id
       THEN /\ prov_state' = "ERROR"
            /\ error_reason' = "error"
            /\ UNCHANGED transport_state
       ELSE /\ prov_state' = Asked("STATUS_SENT")
            /\ transport_state' = "STATUS_SEND"
            /\ UNCHANGED error_reason
    /\ last_send' = 0
    /\ at' = "app"
    /\ UNCHANGED <<prov_handle, is_connected, retry_after, mqtt_state, operation_id,
                   payload_data, request, link, answers>>

ReportError ==
    /\ at = "client"
    /\ prov_state = "ERROR"
    /\ Answer(error_reason, FALSE)
    /\ prov_state' = "READY"
    /\ Cleanup
    /\ transport_state' \in {transport_state, "ERROR"}   \* met while it closes
    /\ at' = "app"
    /\ UNCHANGED <<prov_handle, error_reason, retry_after, last_send, operation_id,
                   payload_data>>

-----------------------------------------------------------------------------
Init ==
    /\ prov_handle = FALSE
    /\ at = "app"
    /\ prov_state = "READY"
    /\ error_reason = "OK"
    /\ is_connected = FALSE
    /\ retry_after = PROV_GET_THROTTLE_TIME
    /\ last_send = 0
    /\ mqtt_state = "IDLE"
    /\ transport_state = "IDLE"
    /\ operation_id = FALSE
    /\ payload_data = "none"
    /\ request = "none"
    /\ link = FALSE
    /\ answers = <<>>

\* The rest of a Prov_Device_LL_DoWork.
DoWorkGoesOn ==
    \/ subscribe_to_topic
    \/ WorkIdle
    \/ SendMessage
    \/ OnAssigning
    \/ OnAssigned
    \/ OnRejected
    \/ WorkTransient
    \/ WorkError
    \/ ClientIdle
    \/ SendRegister
    \/ SendStatus
    \/ ReportError

Events ==
    \/ OnConnack
    \/ OnSubscribeAck
    \/ \E reply \in Replies : mqtt_notification_callback(reply)
    \/ OnTransient
    \/ mqtt_error_callback

Polls == DoWork \/ create_connection \/ DoWorkGoesOn

Running == Polls \/ Events

\* The timer polls the client, and a service that can answer again and again
\* does so and decides at last.
Fairness ==
    /\ WF_vars(Polls)
    /\ SF_vars(\/ OnConnack
               \/ OnSubscribeAck
               \/ \E reply \in {"assigned", "rejected"} : mqtt_notification_callback(reply))

-----------------------------------------------------------------------------
\* The application was told OK.
Ok == <<[result |-> "OK", hub |-> TRUE]>>

\* A request that the service has not answered is the transport's last.
OneRequest ==
    request # "none" =>
        transport_state = IF request = "register" THEN "REG_SENT" ELSE "STATUS_SENT"

\* At most one call of register_callback, which says OK exactly if it has a hub.
AnswerIsSound ==
    answers = <<>> \/ \E a \in [result : {"OK", "error"}, hub : BOOLEAN] :
                        answers = <<a>> /\ (a.result = "OK" <=> a.hub)
=============================================================================
