------------------------------ MODULE HubClient ------------------------------
(***************************************************************************)
(* The Azure IoT SDK's hub client as dx_azure_iot.c uses it: the queues of *)
(* iothub_client_core_ll.c over the MQTT transport of                      *)
(* iothubtransport_mqtt_common.c, which connects, subscribes, publishes    *)
(* telemetry and waits for PUBACKs, resends, times out, and reconnects;    *)
(* umqtt's mqtt_client and the hub answer through mqtt_client_dowork.      *)
(*                                                                         *)
(* The client is single-threaded, but it calls back from inside DoWork and *)
(* the application calls DoWork from its callbacks.  `stack' is the C call *)
(* stack, top first; what happens between two points at which other code   *)
(* may run is one step.  A packet is identified with the request it        *)
(* belongs to.  Memory that is used after it was freed ends the program.   *)
(***************************************************************************)
EXTENDS Integers, Sequences, SequencesExt, FiniteSets

CONSTANTS
    Msgs,           \* telemetry messages
    Reports,        \* reported properties
    AppTopics,      \* topics the application's callbacks need
    NULL,
    RESEND_TIMEOUT_VALUE_MIN,       \* ages are in units of half a minute or so;
    TELEMETRY_MSG_TIMEOUT_MIN,      \* only the order of the limits matters
    ON_DEMAND_GET_TWIN_REQUEST_TIMEOUT_SECS,
    TWIN_REPORT_UPDATE_TIMEOUT_SECS,
    MaxNest         \* bound: callbacks from which DoWork is called again

ASSUME TopicsAssumption == AppTopics \subseteq {"message", "getState", "methods"}
ASSUME ItemsAssumption ==
    /\ NULL \notin Msgs \cup Reports
    /\ Msgs \cap Reports = {}
ASSUME LimitsAssumption ==
    /\ RESEND_TIMEOUT_VALUE_MIN \in Nat
    /\ TELEMETRY_MSG_TIMEOUT_MIN \in Nat \ {0}
    /\ ON_DEMAND_GET_TWIN_REQUEST_TIMEOUT_SECS \in Nat \ {0}
    /\ TWIN_REPORT_UPDATE_TIMEOUT_SECS \in Nat \ {0}
    /\ MaxNest \in Nat

VARIABLES
    client,                 \* "none", "open", "destroying" (isDestroyCalled), "destroyed",
                            \* "crashed"
    stack,
    mqttClientStatus,
    currPacketState,
    topics,                 \* the topic_... strings that are not NULL
    topics_ToSubscribe,
    isRecoverableError,
    conn_attempted,
    device_twin_get_sent,
    twin_resp_sub_recv,
    waitingToSend,          \* messages, oldest first
    telemetry_waitingForAck,
    iot_msg_queue,          \* reports not handed to the transport yet
    iot_ack_queue,          \* reports the transport has sent
    ack_waiting_queue,      \* the transport's twin requests
    uptime,                 \* the age of msgTickCounter, as published
    link,                   \* the connection: "none", "opening", "open"
    puback,                 \* messages published on it that the hub can acknowledge
    suback,                 \* SUBSCRIBEs sent on it: is GetState among the topics?
    told,                   \* history: the status last reported to the application
    confirms                \* history: how often each item was confirmed

connVars == <<mqttClientStatus, currPacketState, topics, topics_ToSubscribe,
              isRecoverableError, conn_attempted>>
twinVars == <<device_twin_get_sent, twin_resp_sub_recv, ack_waiting_queue>>
itemVars == <<waitingToSend, telemetry_waitingForAck, iot_msg_queue, iot_ack_queue>>
wireVars == <<link, puback, suback>>
vars == <<client, stack, connVars, twinVars, itemVars, uptime, wireVars, told, confirms>>

Items    == Msgs \cup Reports
Statuses == {"NOT_CONNECTED", "CONNECTING", "CONNECTED", "PENDING_CLOSE",
             "EXECUTE_DISCONNECT"}
Packets  == {"UNKNOWN", "CONNECT", "CONNACK", "SUBSCRIBE", "SUBACK", "PUBLISH",
             "DISCONNECT", "ERROR"}
Topics   == {"message", "getState", "notifyState", "methods"}

\* MQTT_MESSAGE_DETAILS_LIST and MQTT_DEVICE_TWIN_ITEM, with the time since
\* msgCreationTime and msgPublishTime, which are only told apart up to the limit
\* they are compared with; asked says that the request went out on the current
\* connection, so that the hub may answer it.  A request without a report asks
\* for the twin.
TwinLimit(id) == IF id = NULL THEN ON_DEMAND_GET_TWIN_REQUEST_TIMEOUT_SECS
                 ELSE TWIN_REPORT_UPDATE_TIMEOUT_SECS
Detail  == [msg : Msgs, created : 0 .. TELEMETRY_MSG_TIMEOUT_MIN,
            published : 0 .. RESEND_TIMEOUT_VALUE_MIN + 1]
Request == [id : Reports \cup {NULL}, age : Nat, asked : BOOLEAN]

-----------------------------------------------------------------------------
(* The call stack.                                                          *)
(*   update   DoWork before UpdateMqttConnectionStateIfNeeded               *)
(*   state    DoWork after it returned 0                                    *)
(*   pending  ProcessPendingTelemetryMessages before entry next; then is    *)
(*            where DoWork goes on                                          *)
(*   publish  DoWork before ProcessPublishStateDoWork                       *)
(*   work     DoWork in mqtt_client_dowork                                  *)
(*   expire   DoWork before removeExpiredTwinRequests                       *)
(*   closing  DisconnectFromClient in its mqtt_client_dowork loop, called   *)
(*            for then                                                      *)
(*   app      application code in a callback, called for then               *)

Frame == [pc : {"update", "state", "pending", "publish", "work", "expire",
                "closing", "app"},
          next : Msgs \cup {NULL},
          then : {"", "publish", "expire", "pending", "sas", "destroy",
                  "refused", "error", "twin"}]
Fr(p, t) == [pc |-> p, next |-> NULL, then |-> t]

Top == Head(stack)
TopIn(S) == stack # <<>> /\ Top.pc \in S
Goto(f) == <<f>> \o Tail(stack)

\* A frame of s is in the xio's dowork: umqtt calls back from inside it.
InXio(s) == \E i \in DOMAIN s : s[i].pc \in {"work", "closing"}

\* The hub and the network can be heard.
Listening == TopIn({"work", "closing"}) /\ link # "none"

Callbacks == Cardinality({i \in DOMAIN stack : stack[i].pc = "app"})
AppRuns == /\ client \in {"open", "destroying"}
           /\ stack = <<>> \/ TopIn({"app"})

\* ProcessPendingTelemetryMessages starts at the head of the queue.
PendingFrame(then) ==
    [pc |-> "pending", then |-> then,
     next |-> IF telemetry_waitingForAck = <<>> THEN NULL
              ELSE Head(telemetry_waitingForAck).msg]

-----------------------------------------------------------------------------
(* Pieces of the handlers.                                                  *)

\* What is left of q when only the places of I stay.  (SelectSeq would say it
\* with a test; it has no definition that can be reasoned about.)
Keep(q, I) ==
    LET place(k) == CHOOSE i \in I : Cardinality({j \in I : j <= i}) = k
    IN  [k \in 1 .. Cardinality(I) |-> q[place(k)]]

MsgsIn(q)   == {q[i].msg : i \in DOMAIN q}
Without(q, m) == Keep(q, {i \in DOMAIN q : q[i].msg # m})

\* The confirmation callbacks of the items of S; they only count.
Confirm(S) == confirms' = [i \in Items |-> IF i \in S THEN confirms[i] + 1 ELSE confirms[i]]

\* The reports of S leave the core's queue and are confirmed.
ReportedStateComplete(S) ==
    /\ Confirm(S \cap Range(iot_ack_queue))
    /\ iot_ack_queue' = Keep(iot_ack_queue, {i \in DOMAIN iot_ack_queue : iot_ack_queue[i] \notin S})

ConnectionStatus(s) == told' = s

\* Requests of a connection that is gone are not answered any more.  Those for
\* the twin expire unnoticed and are left out at once.
Unasked(q) == LET reports == Keep(q, {i \in DOMAIN q : q[i].id # NULL}) IN
              [i \in DOMAIN reports |-> [reports[i] EXCEPT !.asked = FALSE]]

DropLink ==
    /\ link' = "none" /\ puback' = {} /\ suback' = <<>>
    /\ ack_waiting_queue' = Unasked(ack_waiting_queue)

\* xio_destroy inside a dowork of the same xio: the frames of base go on with
\* freed memory.
Crash ==
    /\ client' = "crashed"
    /\ stack' = <<>>
    /\ UNCHANGED <<connVars, twinVars, itemVars, uptime, wireVars, told, confirms>>

\* Mutant: a SUBSCRIBE is forced before the session is there.
BugChangeStateToSubscribe(p) == "SUBSCRIBE"

changeStateToSubscribeIfAllowed(p) ==
    IF p \in {"CONNACK", "CONNECT", "DISCONNECT", "ERROR"} THEN p ELSE "SUBSCRIBE"

\* The end of DisconnectFromClient, in packet state p.
Disconnected(p) ==
    IF p # "DISCONNECT"
    THEN /\ DropLink
         /\ device_twin_get_sent' = FALSE
         /\ mqttClientStatus' = "NOT_CONNECTED"
         /\ currPacketState' = "DISCONNECT"
    ELSE /\ UNCHANGED <<wireVars, ack_waiting_queue, device_twin_get_sent, mqttClientStatus>>
         /\ currPacketState' = p

\* DisconnectFromClient says goodbye and waits only on a session.
ClosesSlowly == currPacketState # "DISCONNECT" /\ mqttClientStatus = "CONNECTED"

-----------------------------------------------------------------------------
(* The application.                                                         *)

\* IoTHubDeviceClient_LL_Create and the callbacks that ConnectToIotHub sets.
Create ==
    /\ client = "none"
    /\ client' = "open"
    /\ UNCHANGED <<stack, connVars, twinVars, itemVars, uptime, wireVars, told, confirms>>

SendEventAsync(m) ==
    /\ AppRuns
    /\ confirms[m] = 0
    /\ m \notin Range(waitingToSend) \cup MsgsIn(telemetry_waitingForAck)
    /\ waitingToSend' = Append(waitingToSend, m)
    /\ UNCHANGED <<client, stack, connVars, twinVars, telemetry_waitingForAck, iot_msg_queue,
                   iot_ack_queue, uptime, wireVars, told, confirms>>

Subscribe_DeviceTwin ==
    /\ topics' = topics \cup {"getState"}
    /\ topics_ToSubscribe' = topics_ToSubscribe \cup ({"getState"} \ topics)
    /\ currPacketState' = changeStateToSubscribeIfAllowed(currPacketState)

\* It subscribes to the twin, which changes the packet state.
SendReportedState(r) ==
    /\ AppRuns
    /\ confirms[r] = 0
    /\ r \notin Range(iot_msg_queue) \cup Range(iot_ack_queue)
    /\ iot_msg_queue' = Append(iot_msg_queue, r)
    /\ Subscribe_DeviceTwin
    /\ UNCHANGED <<client, stack, mqttClientStatus, isRecoverableError, conn_attempted,
                   twinVars, waitingToSend, telemetry_waitingForAck, iot_ack_queue,
                   uptime, wireVars, told, confirms>>

\* createDeviceTwinMsg
TwinMsg(id) == [id |-> id, age |-> 0, asked |-> TRUE]

\* The transport publishes the reports of sent.
publishDeviceTwinMsg(sent) ==
    ack_waiting_queue' = ack_waiting_queue \o [i \in DOMAIN sent |-> TwinMsg(sent[i])]

\* IoTHubClientCore_LL_DoWork hands the reports to the transport first.  One
\* that cannot be published is dropped.
ProcessItem ==
    IF currPacketState = "PUBLISH" /\ twin_resp_sub_recv
    THEN \E ok \in SUBSET Range(iot_msg_queue) :
            LET sent == Keep(iot_msg_queue, {i \in DOMAIN iot_msg_queue : iot_msg_queue[i] \in ok})
            IN
            /\ link = "none" => ok = {}
            /\ iot_msg_queue' = <<>>
            /\ iot_ack_queue' = iot_ack_queue \o sent
            /\ publishDeviceTwinMsg(sent)
    ELSE UNCHANGED <<iot_msg_queue, iot_ack_queue, ack_waiting_queue>>

DoWork ==
    /\ AppRuns
    /\ Callbacks <= MaxNest
    /\ stack' = <<Fr("update", "")>> \o stack
    /\ ProcessItem
    /\ UNCHANGED <<client, connVars, device_twin_get_sent, twin_resp_sub_recv, waitingToSend,
                   telemetry_waitingForAck, uptime, wireVars, told, confirms>>

-----------------------------------------------------------------------------
(* UpdateMqttConnectionStateIfNeeded.                                       *)

Updating(s) == TopIn({"update"}) /\ client = "open" /\ mqttClientStatus = s

Proceed == stack' = Goto(Fr("state", ""))
GiveUp  == stack' = Goto(PendingFrame("expire"))

\* Being destroyed, or nothing to do for the connection.
UpdateNothing ==
    /\ TopIn({"update"})
    /\ \/ client = "destroying"
       \/ mqttClientStatus \in {"CONNECTING", "CONNECTED", "PENDING_CLOSE"}
       \/ mqttClientStatus = "NOT_CONNECTED" /\ ~isRecoverableError
    /\ Proceed
    /\ UNCHANGED <<client, connVars, twinVars, itemVars, uptime, wireVars, told, confirms>>

\* The first attempt is made at once; then retry_control_should_retry decides
\* by the time since the last one.  Without a time limit it never says stop.
RetryLater ==
    /\ Updating("NOT_CONNECTED")
    /\ isRecoverableError
    /\ conn_attempted
    /\ GiveUp
    /\ UNCHANGED <<client, connVars, twinVars, itemVars, uptime, wireVars, told, confirms>>

SendMqttConnectMsg ==
    /\ link' = "opening"
    /\ conn_attempted' = TRUE
    /\ currPacketState' = "CONNECT"

\* ResetConnectionIfNecessary, then SendMqttConnectMsg, which may fail before
\* or after the attempt counts.
Connect ==
    /\ Updating("NOT_CONNECTED")
    /\ isRecoverableError
    /\ IF conn_attempted /\ InXio(Tail(stack)) THEN Crash ELSE
       /\ puback' = {} /\ suback' = <<>>
       /\ ack_waiting_queue' = Unasked(ack_waiting_queue)
       /\ \/ /\ SendMqttConnectMsg
             /\ mqttClientStatus' = "CONNECTING"
             /\ Proceed
          \/ /\ link' = "none"
             /\ conn_attempted' \in {conn_attempted, TRUE}
             /\ UNCHANGED <<currPacketState, mqttClientStatus>>
             /\ GiveUp
       /\ UNCHANGED <<client, topics, topics_ToSubscribe, isRecoverableError,
                      device_twin_get_sent, twin_resp_sub_recv, itemVars, uptime, told, confirms>>

\* The disconnect that processErrorCallback has deferred, and a CONNACK that
\* does not come in time: DisconnectFromClient without a session.
DeferredDisconnect ==
    /\ \/ Updating("EXECUTE_DISCONNECT") /\ Proceed
       \/ Updating("CONNECTING") /\ GiveUp
    /\ ~InXio(Tail(stack))
    /\ Disconnected(IF mqttClientStatus = "CONNECTING" THEN "ERROR" ELSE currPacketState)
    /\ UNCHANGED <<client, topics, topics_ToSubscribe, isRecoverableError, conn_attempted,
                   twin_resp_sub_recv, itemVars, uptime, told, confirms>>

\* The SAS token of the session is about to expire.
SasExpires ==
    /\ Updating("CONNECTED")
    /\ ClosesSlowly
    /\ stack' = <<Fr("closing", "sas")>> \o Goto(Fr("state", ""))
    /\ UNCHANGED <<client, connVars, twinVars, itemVars, uptime, wireVars, told, confirms>>

\* The same from a callback, inside the xio that is destroyed.
NestedDisconnect ==
    /\ Updating("EXECUTE_DISCONNECT") \/ Updating("CONNECTING")
    /\ InXio(Tail(stack))
    /\ mqttClientStatus = "CONNECTING" \/ currPacketState # "DISCONNECT"
    /\ Crash

-----------------------------------------------------------------------------
(* The rest of DoWork, by packet state.                                     *)

SubscribeToMqttProtocol ==
    IF topics_ToSubscribe # {}
    THEN /\ currPacketState' = "SUBSCRIBE"
         /\ \/ /\ link # "none"
               /\ suback' = Append(suback, "getState" \in topics_ToSubscribe)
               /\ topics_ToSubscribe' = topics_ToSubscribe \ topics
            \/ UNCHANGED <<suback, topics_ToSubscribe>>
         /\ UNCHANGED telemetry_waitingForAck
    ELSE /\ currPacketState' = "PUBLISH"
         /\ telemetry_waitingForAck' =
                [i \in DOMAIN telemetry_waitingForAck |->
                    [telemetry_waitingForAck[i] EXCEPT !.published = uptime]]
         /\ UNCHANGED <<suback, topics_ToSubscribe>>

publishDeviceTwinGetMsg == ack_waiting_queue' = Append(ack_waiting_queue, TwinMsg(NULL))

\* The twin is asked for once on a connection, if that can be sent.
ProcessSubackDoWork ==
    /\ currPacketState' = "PUBLISH"
    /\ \/ /\ topics \cap {"getState", "notifyState"} # {}
          /\ ~device_twin_get_sent
          /\ link # "none"
          /\ device_twin_get_sent' = TRUE
          /\ publishDeviceTwinGetMsg
       \/ UNCHANGED <<device_twin_get_sent, ack_waiting_queue>>

StateWork(packets) ==
    /\ TopIn({"state"})
    /\ mqttClientStatus # "PENDING_CLOSE"
    /\ currPacketState \in packets
    /\ stack' = Goto(Fr("work", ""))

\* mqtt_client_disconnect on a refused connection.
DoPendingClose ==
    /\ TopIn({"state"})
    /\ mqttClientStatus = "PENDING_CLOSE"
    /\ mqttClientStatus' = "NOT_CONNECTED"
    /\ DropLink
    /\ stack' = Goto(Fr("work", ""))
    /\ UNCHANGED <<client, currPacketState, topics, topics_ToSubscribe, isRecoverableError,
                   conn_attempted, device_twin_get_sent, twin_resp_sub_recv, itemVars,
                   uptime, told, confirms>>

DoSubscribe ==
    /\ StateWork({"CONNACK", "SUBSCRIBE"})
    /\ SubscribeToMqttProtocol
    /\ UNCHANGED <<client, mqttClientStatus, topics, isRecoverableError, conn_attempted,
                   twinVars, waitingToSend, iot_msg_queue, iot_ack_queue, uptime, link,
                   puback, told, confirms>>

DoSuback ==
    /\ StateWork({"SUBACK"})
    /\ ProcessSubackDoWork
    /\ UNCHANGED <<client, mqttClientStatus, topics, topics_ToSubscribe, isRecoverableError,
                   conn_attempted, twin_resp_sub_recv, itemVars, uptime, wireVars, told,
                   confirms>>

DoOtherState ==
    /\ StateWork({"UNKNOWN", "CONNECT", "DISCONNECT", "ERROR"})
    /\ UNCHANGED <<client, connVars, twinVars, itemVars, uptime, wireVars, told, confirms>>

DoPublishState ==
    /\ TopIn({"state"})
    /\ mqttClientStatus # "PENDING_CLOSE"
    /\ currPacketState = "PUBLISH"
    /\ stack' = Goto(PendingFrame("publish"))
    /\ UNCHANGED <<client, connVars, twinVars, itemVars, uptime, wireVars, told, confirms>>

\* Every waiting message is published, fails and is confirmed so, or stays
\* because there is no memory.  The session may be gone by now.
ProcessPublishStateDoWork ==
    /\ TopIn({"publish"})
    /\ \E result \in [Range(waitingToSend) -> {"sent", "failed", "kept"}] :
        LET with(r) == Keep(waitingToSend, {i \in DOMAIN waitingToSend :
                                                result[waitingToSend[i]] = r})
        IN
        /\ link = "none" => with("sent") = <<>>
        /\ waitingToSend' = with("kept")
        /\ telemetry_waitingForAck' = telemetry_waitingForAck \o
              [i \in DOMAIN with("sent") |->
                  [msg |-> with("sent")[i], created |-> 0, published |-> 0]]
        /\ puback' = puback \cup Range(with("sent"))
        /\ Confirm(Range(with("failed")))
    /\ stack' = Goto(Fr("work", ""))
    /\ UNCHANGED <<client, connVars, twinVars, iot_msg_queue, iot_ack_queue, uptime, link,
                   suback, told>>

WorkReturns ==
    /\ TopIn({"work"})
    /\ stack' = Goto(PendingFrame("expire"))
    /\ UNCHANGED <<client, connVars, twinVars, itemVars, uptime, wireVars, told, confirms>>

\* removeExpiredTwinRequests: a report that was not answered is confirmed (408).
ExpireTwinRequests ==
    LET expired == {i \in DOMAIN ack_waiting_queue :
                        ack_waiting_queue[i].age >= TwinLimit(ack_waiting_queue[i].id)}
        gone == {ack_waiting_queue[i].id : i \in expired}
    IN
    /\ TopIn({"expire"})
    /\ stack' = Tail(stack)
    /\ ack_waiting_queue' = Keep(ack_waiting_queue, DOMAIN ack_waiting_queue \ expired)
    /\ ReportedStateComplete(gone)
    /\ UNCHANGED <<client, connVars, device_twin_get_sent, twin_resp_sub_recv, waitingToSend,
                   telemetry_waitingForAck, iot_msg_queue, uptime, wireVars, told>>

-----------------------------------------------------------------------------
(* ProcessPendingTelemetryMessages, one entry at a time.                    *)

\* The entry that next points to, and the entry behind it.
EntryAt == CHOOSE i \in DOMAIN telemetry_waitingForAck :
                telemetry_waitingForAck[i].msg = Top.next
Behind  == IF EntryAt = Len(telemetry_waitingForAck) THEN NULL
           ELSE telemetry_waitingForAck[EntryAt + 1].msg
Examines == TopIn({"pending"}) /\ Top.next \in MsgsIn(telemetry_waitingForAck)
Expired  == telemetry_waitingForAck[EntryAt].created >= TELEMETRY_MSG_TIMEOUT_MIN
Stale    == telemetry_waitingForAck[EntryAt].published > RESEND_TIMEOUT_VALUE_MIN
LoopOn   == stack' = Goto([Top EXCEPT !.next = Behind])

PendingDone ==
    /\ TopIn({"pending"})
    /\ Top.next = NULL
    /\ stack' = Goto(Fr(Top.then, ""))
    /\ UNCHANGED <<client, connVars, twinVars, itemVars, uptime, wireVars, told, confirms>>

\* The entry was removed and freed while a callback ran.
PendingDangles ==
    /\ TopIn({"pending"})
    /\ Top.next # NULL
    /\ ~Examines
    /\ Crash

PendingWaits ==
    /\ Examines
    /\ ~Expired /\ ~Stale
    /\ LoopOn
    /\ UNCHANGED <<client, connVars, twinVars, itemVars, uptime, wireVars, told, confirms>>

\* No PUBACK in time: the message is confirmed, the connection torn down.
PendingExpires ==
    LET loop == Goto([Top EXCEPT !.next = Behind]) IN
    /\ Examines
    /\ Expired
    /\ ClosesSlowly \/ currPacketState = "DISCONNECT" \/ ~InXio(Tail(stack))
    /\ Confirm({Top.next})
    /\ telemetry_waitingForAck' = Without(telemetry_waitingForAck, Top.next)
    /\ IF ClosesSlowly
       THEN /\ stack' = <<Fr("closing", "pending")>> \o loop
            /\ UNCHANGED <<wireVars, ack_waiting_queue, device_twin_get_sent,
                           mqttClientStatus, currPacketState, told>>
       ELSE /\ stack' = <<Fr("app", "")>> \o loop
            /\ Disconnected(currPacketState)
            /\ ConnectionStatus("UNAUTHENTICATED")
    /\ UNCHANGED <<client, topics, topics_ToSubscribe, isRecoverableError, conn_attempted,
                   twin_resp_sub_recv, waitingToSend, iot_msg_queue, iot_ack_queue, uptime>>

PendingExpiresNested ==
    /\ Examines
    /\ Expired
    /\ ~ClosesSlowly /\ currPacketState # "DISCONNECT" /\ InXio(Tail(stack))
    /\ Crash

\* Mutant: the time to wait for the PUBACK starts again, too.
BugResent(e) == [e EXCEPT !.published = 0, !.created = 0]

Resent(e) == [e EXCEPT !.published = 0]

\* Resent, or given up with an error; outside of PUBLISH_TYPE the time starts again.
PendingResends ==
    /\ Examines
    /\ ~Expired
    /\ Stale
    /\ LoopOn
    /\ \/ /\ currPacketState = "PUBLISH" => link # "none"
          /\ telemetry_waitingForAck' =
                [telemetry_waitingForAck EXCEPT ![EntryAt] = Resent(@)]
          /\ puback' = IF currPacketState = "PUBLISH" THEN puback \cup {Top.next} ELSE puback
          /\ UNCHANGED confirms
       \/ /\ currPacketState = "PUBLISH"
          /\ telemetry_waitingForAck' = Without(telemetry_waitingForAck, Top.next)
          /\ Confirm({Top.next})
          /\ UNCHANGED puback
    /\ UNCHANGED <<client, connVars, twinVars, waitingToSend, iot_msg_queue, iot_ack_queue,
                   uptime, link, suback, told>>

-----------------------------------------------------------------------------
(* What mqtt_client_dowork delivers, in DoWork and while disconnecting.     *)

CallApp(then) == stack' = <<Fr("app", then)>> \o stack

\* Mutant: an accepted connection is not announced.
BugConnackAccepted == UNCHANGED <<told, stack>>

ConnackAccepted == ConnectionStatus("AUTHENTICATED") /\ CallApp("")

OnConnack ==
    /\ Listening
    /\ link = "opening"
    /\ mqttClientStatus = "CONNECTING"
    /\ link' = "open"
    /\ currPacketState' = "CONNACK"
    /\ isRecoverableError' = TRUE
    /\ mqttClientStatus' = "CONNECTED"
    /\ ConnackAccepted
    /\ UNCHANGED <<client, topics, topics_ToSubscribe, conn_attempted, twinVars, itemVars,
                   uptime, puback, suback, confirms>>

Refused ==
    /\ mqttClientStatus' = "PENDING_CLOSE"
    /\ currPacketState' = "ERROR"

\* Device disabled, bad credentials and not authorized are reported before the
\* state changes, an unacceptable version and unknown codes are not.
OnConnackRefused ==
    /\ Listening
    /\ link = "opening"
    /\ mqttClientStatus = "CONNECTING"
    /\ \E code \in {"SERVER_UNAVAIL", "BAD_USERNAME_PASSWORD", "ID_REJECTED",
                    "NOT_AUTHORIZED", "UNACCEPTABLE_VERSION", "UNKNOWN"} :
        /\ isRecoverableError' = (isRecoverableError /\
                code \notin {"BAD_USERNAME_PASSWORD", "ID_REJECTED", "UNACCEPTABLE_VERSION"})
        /\ IF code \in {"UNACCEPTABLE_VERSION", "UNKNOWN"}
           THEN Refused /\ UNCHANGED <<stack, told>>
           ELSE /\ ConnectionStatus("UNAUTHENTICATED")
                /\ CallApp("refused")
                /\ UNCHANGED <<mqttClientStatus, currPacketState>>
    /\ UNCHANGED <<client, topics, topics_ToSubscribe, conn_attempted, twinVars, itemVars,
                   uptime, wireVars, confirms>>

\* Mutant: the message is confirmed, its entry stays.
BugAcked(m) == Confirm({m}) /\ UNCHANGED telemetry_waitingForAck

Acked(m) ==
    /\ Confirm({m})
    /\ telemetry_waitingForAck' = Without(telemetry_waitingForAck, m)

OnPublishAck(m) ==
    /\ Listening
    /\ link = "open"
    /\ m \in puback \cap MsgsIn(telemetry_waitingForAck)
    /\ puback' = puback \ {m}
    /\ Acked(m)
    /\ UNCHANGED <<client, stack, connVars, twinVars, waitingToSend, iot_msg_queue,
                   iot_ack_queue, uptime, link, suback, told>>

OnSubscribeAck ==
    /\ Listening
    /\ link = "open"
    /\ suback # <<>>
    /\ suback' = Tail(suback)
    /\ currPacketState' = "SUBACK"
    /\ twin_resp_sub_recv' = (twin_resp_sub_recv \/ Head(suback))
    /\ UNCHANGED <<client, stack, mqttClientStatus, topics, topics_ToSubscribe,
                   isRecoverableError, conn_attempted, device_twin_get_sent,
                   ack_waiting_queue, itemVars, uptime, link, puback, told, confirms>>

\* Mutant: the topic is asked for without its name.
BugNotifyNeeded ==
    /\ topics_ToSubscribe' = topics_ToSubscribe \cup {"notifyState"}
    /\ currPacketState' = changeStateToSubscribeIfAllowed(currPacketState)
    /\ UNCHANGED topics

\* subscribeToNotifyStateIfNeeded
NotifyNeeded ==
    /\ topics' = topics \cup {"notifyState"}
    /\ topics_ToSubscribe' = topics_ToSubscribe \cup ({"notifyState"} \ topics)
    /\ currPacketState' = changeStateToSubscribeIfAllowed(currPacketState)

\* The answer to a twin request.  Patches are subscribed to after the callback.
OnTwinResponse ==
    /\ Listening
    /\ link = "open"
    /\ \E i \in DOMAIN ack_waiting_queue :
        LET q == ack_waiting_queue[i] IN
        /\ q.asked
        /\ ack_waiting_queue' = RemoveAt(ack_waiting_queue, i)
        /\ IF q.id = NULL
           THEN /\ CallApp("twin")
                /\ UNCHANGED <<topics, topics_ToSubscribe, currPacketState,
                               iot_ack_queue, confirms>>
           ELSE /\ ReportedStateComplete({q.id})
                /\ NotifyNeeded
                /\ UNCHANGED stack
    /\ UNCHANGED <<client, mqttClientStatus, isRecoverableError, conn_attempted,
                   device_twin_get_sent, twin_resp_sub_recv, waitingToSend,
                   telemetry_waitingForAck, iot_msg_queue, uptime, wireVars, told>>

\* A twin patch, a method call or a message from the cloud.
OnInbound ==
    /\ Listening
    /\ link = "open"
    /\ CallApp("")
    /\ UNCHANGED <<client, connVars, twinVars, itemVars, uptime, wireVars, told, confirms>>

\* Mutant: the disconnect is not deferred, and so not made.
BugMqttFailed ==
    /\ currPacketState' = "ERROR"
    /\ device_twin_get_sent' = FALSE
    /\ topics_ToSubscribe' = topics_ToSubscribe \cup topics
    /\ DropLink
    /\ UNCHANGED mqttClientStatus

\* The end of processErrorCallback, and close_connection after it.
MqttFailed ==
    /\ mqttClientStatus' = IF mqttClientStatus = "PENDING_CLOSE" THEN "PENDING_CLOSE"
                           ELSE "EXECUTE_DISCONNECT"
    /\ currPacketState' = "ERROR"
    /\ device_twin_get_sent' = FALSE
    /\ topics_ToSubscribe' = topics_ToSubscribe \cup topics
    /\ DropLink

\* processErrorCallback reports a lost connection, a failed send and a missing
\* ping response to the application; parse and memory errors stay internal.
OnError ==
    /\ Listening
    /\ \/ /\ ConnectionStatus("UNAUTHENTICATED")
          /\ CallApp("error")
          /\ UNCHANGED <<mqttClientStatus, currPacketState, device_twin_get_sent,
                         topics_ToSubscribe, wireVars, ack_waiting_queue>>
       \/ /\ MqttFailed
          /\ UNCHANGED <<told, stack>>
    /\ UNCHANGED <<client, topics, isRecoverableError, conn_attempted, twin_resp_sub_recv,
                   itemVars, uptime, confirms>>

\* The DISCONNECT of DisconnectFromClient was sent.
OnDisconnect ==
    /\ TopIn({"closing"})
    /\ link = "open"
    /\ mqttClientStatus' = "NOT_CONNECTED"
    /\ UNCHANGED <<client, stack, currPacketState, topics, topics_ToSubscribe,
                   isRecoverableError, conn_attempted, twinVars, itemVars, uptime, wireVars,
                   told, confirms>>

-----------------------------------------------------------------------------
(* Returns: of application code, and of DisconnectFromClient.               *)

AppReturns ==
    /\ TopIn({"app"})
    /\ Top.then = ""
    /\ stack' = Tail(stack)
    /\ UNCHANGED <<client, connVars, twinVars, itemVars, uptime, wireVars, told, confirms>>

RefusedReturns ==
    /\ TopIn({"app"})
    /\ Top.then = "refused"
    /\ Refused
    /\ stack' = Tail(stack)
    /\ UNCHANGED <<client, topics, topics_ToSubscribe, isRecoverableError, conn_attempted,
                   twinVars, itemVars, uptime, wireVars, told, confirms>>

ErrorReturns ==
    /\ TopIn({"app"})
    /\ Top.then = "error"
    /\ MqttFailed
    /\ stack' = Tail(stack)
    /\ UNCHANGED <<client, topics, isRecoverableError, conn_attempted, twin_resp_sub_recv,
                   itemVars, uptime, told, confirms>>

TwinReturns ==
    /\ TopIn({"app"})
    /\ Top.then = "twin"
    /\ NotifyNeeded
    /\ stack' = Tail(stack)
    /\ UNCHANGED <<client, mqttClientStatus, isRecoverableError, conn_attempted, twinVars,
                   itemVars, uptime, wireVars, told, confirms>>

\* The session with the expired token is gone and the application knows.
SasReturns ==
    /\ TopIn({"app"})
    /\ Top.then = "sas"
    /\ currPacketState' = "UNKNOWN"
    /\ topics_ToSubscribe' = topics_ToSubscribe \cup topics
    /\ stack' = Tail(stack)
    /\ UNCHANGED <<client, mqttClientStatus, topics, isRecoverableError, conn_attempted,
                   twinVars, itemVars, uptime, wireVars, told, confirms>>

\* DisconnectFromClient returns; its caller reports the status, except Destroy.
ClosingReturns ==
    /\ TopIn({"closing"})
    /\ Top.then # "destroy"
    /\ IF InXio(Tail(stack)) THEN Crash ELSE
       /\ Disconnected("CONNACK")
       /\ ConnectionStatus("UNAUTHENTICATED")
       /\ stack' = Goto(Fr("app", IF Top.then = "sas" THEN "sas" ELSE ""))
       /\ UNCHANGED <<client, topics, topics_ToSubscribe, isRecoverableError, conn_attempted,
                      twin_resp_sub_recv, itemVars, uptime, confirms>>

-----------------------------------------------------------------------------
(* IoTHubClientCore_LL_Destroy: the transport first, then the queues.       *)

Unsettled == Range(waitingToSend) \cup MsgsIn(telemetry_waitingForAck)
                \cup Range(iot_msg_queue) \cup Range(iot_ack_queue)

DestroyRest ==
    /\ client' = "destroyed"
    /\ Confirm(Unsettled)
    /\ waitingToSend' = <<>> /\ telemetry_waitingForAck' = <<>>
    /\ iot_msg_queue' = <<>> /\ iot_ack_queue' = <<>>
    /\ ack_waiting_queue' = <<>>
    /\ link' = "none" /\ puback' = {} /\ suback' = <<>>
    /\ UNCHANGED <<connVars, device_twin_get_sent, twin_resp_sub_recv, uptime, told>>

Destroy ==
    /\ client = "open"
    /\ stack = <<>>
    /\ IF ClosesSlowly
       THEN /\ client' = "destroying"
            /\ stack' = <<Fr("closing", "destroy")>>
            /\ UNCHANGED <<connVars, twinVars, itemVars, uptime, wireVars, told, confirms>>
       ELSE DestroyRest /\ UNCHANGED stack

DestroyReturns ==
    /\ TopIn({"closing"})
    /\ Top.then = "destroy"
    /\ DestroyRest
    /\ stack' = <<>>

-----------------------------------------------------------------------------
\* Time passes between two calls of the client.
Older(n, limit) == IF n < limit THEN n + 1 ELSE n

Tick ==
    LET sentLonger(e) ==
            [e EXCEPT !.created = Older(@, TELEMETRY_MSG_TIMEOUT_MIN),
                      !.published = Older(@, RESEND_TIMEOUT_VALUE_MIN + 1)]
        askedLonger(q) == [q EXCEPT !.age = Older(@, TwinLimit(q.id))]
    IN
    /\ client = "open"
    /\ stack = <<>>
    /\ uptime' = Older(uptime, RESEND_TIMEOUT_VALUE_MIN + 1)
    /\ telemetry_waitingForAck' =
          [i \in DOMAIN telemetry_waitingForAck |-> sentLonger(telemetry_waitingForAck[i])]
    /\ ack_waiting_queue' = [i \in DOMAIN ack_waiting_queue |-> askedLonger(ack_waiting_queue[i])]
    /\ UNCHANGED <<client, stack, connVars, device_twin_get_sent, twin_resp_sub_recv,
                   waitingToSend, iot_msg_queue, iot_ack_queue, wireVars, told, confirms>>

\* What a new client begins with.
Init ==
    /\ client = "none"
    /\ stack = <<>>
    /\ mqttClientStatus = "NOT_CONNECTED"
    /\ topics = AppTopics
    /\ topics_ToSubscribe = AppTopics
    /\ currPacketState = "CONNECT"
    /\ isRecoverableError = TRUE
    /\ conn_attempted = FALSE
    /\ device_twin_get_sent = FALSE
    /\ twin_resp_sub_recv = FALSE
    /\ waitingToSend = <<>>
    /\ telemetry_waitingForAck = <<>>
    /\ iot_msg_queue = <<>>
    /\ iot_ack_queue = <<>>
    /\ ack_waiting_queue = <<>>
    /\ uptime = 0
    /\ link = "none"
    /\ puback = {}
    /\ suback = <<>>
    /\ told = NULL
    /\ confirms = [i \in Items |-> 0]

Application ==
    \/ \E m \in Msgs : SendEventAsync(m)
    \/ \E r \in Reports : SendReportedState(r)
    \/ DoWork
    \/ Destroy

UpdateMqttConnectionStateIfNeeded ==
    \/ UpdateNothing
    \/ RetryLater
    \/ Connect
    \/ DeferredDisconnect
    \/ NestedDisconnect
    \/ SasExpires

ProcessPendingTelemetryMessages ==
    \/ PendingDone
    \/ PendingDangles
    \/ PendingWaits
    \/ PendingExpires
    \/ PendingExpiresNested
    \/ PendingResends

DoWorkGoesOn ==
    \/ UpdateMqttConnectionStateIfNeeded
    \/ DoPendingClose
    \/ DoSubscribe
    \/ DoSuback
    \/ DoOtherState
    \/ DoPublishState
    \/ ProcessPendingTelemetryMessages
    \/ ProcessPublishStateDoWork
    \/ ExpireTwinRequests

ClientReturns ==
    \/ WorkReturns
    \/ ClosingReturns
    \/ DestroyReturns

CallbackReturns ==
    \/ AppReturns
    \/ RefusedReturns
    \/ ErrorReturns
    \/ TwinReturns
    \/ SasReturns

Events ==
    \/ OnConnack
    \/ OnConnackRefused
    \/ \E m \in Msgs : OnPublishAck(m)
    \/ OnSubscribeAck
    \/ OnTwinResponse
    \/ OnInbound
    \/ OnError
    \/ OnDisconnect

Running == Application \/ DoWorkGoesOn \/ ClientReturns \/ CallbackReturns \/ Events \/ Tick

Next == Create \/ Running

Spec == Init /\ [][Next]_vars

\* The timer calls DoWork again and again; a dowork ends, however much arrives;
\* callbacks return; time passes.  Now and then a connection can be opened and
\* the hub accepts one.
Fairness ==
    /\ WF_vars(stack = <<>> /\ DoWork)
    /\ WF_vars(DoWorkGoesOn)
    /\ SF_vars(ClientReturns)
    /\ WF_vars(CallbackReturns)
    /\ SF_vars(Tick)
    /\ SF_vars(Connect /\ link' = "opening")
    /\ SF_vars(OnConnack)
FairSpec == Spec /\ Fairness

-----------------------------------------------------------------------------
\* Every field has its type, and no topic is asked for that has no name.
TypeOK ==
    /\ client \in {"none", "open", "destroying", "destroyed", "crashed"}
    /\ stack \in Seq(Frame)
    /\ mqttClientStatus \in Statuses
    /\ currPacketState \in Packets
    /\ topics \subseteq Topics
    /\ topics_ToSubscribe \subseteq topics
    /\ isRecoverableError \in BOOLEAN
    /\ conn_attempted \in BOOLEAN
    /\ device_twin_get_sent \in BOOLEAN
    /\ twin_resp_sub_recv \in BOOLEAN
    /\ waitingToSend \in Seq(Msgs)
    /\ telemetry_waitingForAck \in Seq(Detail)
    /\ iot_msg_queue \in Seq(Reports)
    /\ iot_ack_queue \in Seq(Reports)
    /\ ack_waiting_queue \in Seq(Request)
    /\ uptime \in 0 .. RESEND_TIMEOUT_VALUE_MIN + 1
    /\ link \in {"none", "opening", "open"}
    /\ puback \subseteq Msgs
    /\ suback \in Seq(BOOLEAN)
    /\ told \in {NULL, "AUTHENTICATED", "UNAUTHENTICATED"}
    /\ confirms \in [Items -> Nat]

\* An application that hands a message to dx_azurePublish or a value to
\* dx_deviceTwinReportValue gets at most one confirmation, and one for all it
\* handed over when the client is destroyed; only a report whose PUBLISH fails is
\* dropped without.  Queues change hands between core and transport, and
\* PUBACKs, resends, timeouts and the destruction compete for an entry.
C == INSTANCE Confirmations WITH
        Lossy <- Reports,
        pending <- Unsettled,
        closed <- client = "destroyed"
ImplementsConfirmations == C!Spec

\* Whenever the client waits to be called with a session on a live connection,
\* the application's last word from it was "authenticated": no tear-down on any
\* path is followed by a silent reconnect after a loss that was reported.
ConnectedIsTold ==
    client = "open" /\ stack = <<>> /\ mqttClientStatus = "CONNECTED" => told = "AUTHENTICATED"

\* What was sent is settled, whatever happens to connection and hub: a resend
\* and a reconnect start the resend clock again, never the one of the timeout.
SentIsSettled ==
    \A i \in Items :
        i \in MsgsIn(telemetry_waitingForAck) \cup Range(iot_ack_queue)
            ~> confirms[i] > 0 \/ client \in {"destroyed", "crashed"}

\* A client without a connection opens one again unless its credentials were
\* refused, from every state that errors, refusals and timeouts leave behind.
Reconnects ==
    link = "none" ~> link = "open" \/ ~isRecoverableError \/ client # "open"

\* If callbacks do not call DoWork, nothing is subscribed to or published before
\* the hub has accepted the connection, whenever topics are added and whatever
\* state the connection before left the packet state in.
SessionFirst == suback # <<>> \/ puback # {} => link = "open"
=============================================================================
