------------------------------ MODULE AzureIoT ------------------------------
(***************************************************************************)
(* The Azure IoT connection of dx_azure_iot.c: connect and stop, the       *)
(* connection timer's handler with DPS provisioning and client set-up, the *)
(* cached network check, publishing, and the connection-status             *)
(* notifications.                                                          *)
(*                                                                         *)
(* Everything runs on one libuv loop, but it is re-entrant: a call of      *)
(* IoTHubDeviceClient_LL_DoWork delivers SDK callbacks, a callback runs    *)
(* application code, and application code may publish or report, which     *)
(* calls DoWork again.  `stack' is that C call stack, top first: a frame   *)
(* is the point at which a function waits for a call to return.  Whatever  *)
(* happens between two such points is one step.                            *)
(***************************************************************************)
EXTENDS Integers, Sequences, FiniteSets, DxTimer

CONSTANTS
    ConnectionTypes,    \* the connectionType values the configuration may hold
    Hubs,               \* IoT hubs a device can be assigned to
    Subscribers,        \* connection-status callbacks of the application
    NULL,
    MAX_CONNECTION_STATUS_CALLBACKS,
    MaxRetry,           \* the 60 of provisionCompletedMaxRetry++ > 60
    MaxQueue,           \* bound: messages the SDK client holds
    MaxDepth,           \* bound: stack depth below which application code calls in
    EarlyCalls          \* may the API be used before dx_azureConnect or after stop?

ASSUME ConnectionTypesAssumption ==
    ConnectionTypes \subseteq {"NOT_DEFINED", "HOSTNAME", "DPS", "STRING"}
ASSUME NullAssumption ==
    /\ NULL \notin Hubs /\ NULL \notin Subscribers
    /\ NULL \notin {"NOT_DEFINED", "HOSTNAME", "DPS", "STRING"}
ASSUME SlotsAssumption == MAX_CONNECTION_STATUS_CALLBACKS \in Nat \ {0}
ASSUME BoundsAssumption ==
    /\ MaxRetry \in Nat
    /\ MaxQueue \in Nat
    /\ MaxDepth \in Nat
    /\ EarlyCalls \in BOOLEAN

VARIABLES
    loop,                       \* the libuv loop: "run", "stop" (uv_stop called), "ended"
    stack,                      \* the C call stack, top first
    userConfig,                 \* _userConfig->connectionType, or NULL
    connection_initialized,
    azureConnectionTimer,
    tmr_network_ready_cached,
    network_ready_cached,
    connection_state,           \* the cached answer in isNetworkReady
    netUp,                      \* what dx_isNetworkConnected would answer now
    authState,                  \* iotHubClientAuthenticationState
    deviceConnectionState,
    prov_handle,                \* is prov_handle non-NULL?
    security_init_called,
    dpsRegisterStatus,
    provisionCompletedMaxRetry,
    iotHubUri,
    assignedHub,                \* history: the hub DPS last assigned
    iothubClientHandle,         \* the hub the client is for, or NULL
    link,                       \* is the SDK client's MQTT session up?
    queued,                     \* messages the SDK client has not confirmed yet
    outstandingMessageCount,
    previous_connection_state,
    connectionStatusCallback,   \* the table of status callbacks
    told,                       \* history: what each subscriber heard last, or NULL
    inboundCallback             \* the twin, method and message callbacks: "never"
                                \* registered, "set" or "cleared"

loopVars == <<loop, userConfig, connection_initialized>>
netVars  == <<network_ready_cached, connection_state, tmr_network_ready_cached>>
stateVars == <<authState, deviceConnectionState, previous_connection_state>>
provVars == <<prov_handle, security_init_called, dpsRegisterStatus,
              provisionCompletedMaxRetry, iotHubUri, assignedHub>>
sdkVars  == <<iothubClientHandle, link, queued, outstandingMessageCount>>
subVars  == <<connectionStatusCallback, told, inboundCallback>>
\* All but the call stack and the table of callbacks.
coreVars == <<loopVars, azureConnectionTimer, netVars, netUp, stateVars, provVars, sdkVars>>
vars == <<stack, coreVars, subVars>>

AuthStates   == {"NotAuthenticated", "AuthenticationInitiated", "Authenticated",
                 "Device_Disabled"}
DeviceStates == {"NOT_CONNECTED", "PROVISIONING_ERROR", "PROVISIONING",
                 "PROVISION_IOT_CLIENT", "CONNECTED"}
DpsResults   == {"INVALID_STATE", "OK", "ERROR"}
Reasons      == {"EXPIRED_SAS_TOKEN", "DEVICE_DISABLED", "BAD_CREDENTIAL",
                 "RETRY_EXPIRED", "NO_NETWORK", "COMMUNICATION_ERROR",
                 "NO_PING_RESPONSE"}
Slots        == 1 .. MAX_CONNECTION_STATUS_CALLBACKS

-----------------------------------------------------------------------------
(* The call stack.                                                          *)
(*   handlerWork   AzureConnectionHandler in DoWork                         *)
(*   publishCheck  dx_azurePublish in dx_isAzureConnected, which will       *)
(*                 answer arg                                               *)
(*   publishWork   dx_azurePublish in DoWork; it will return arg; sent says *)
(*                 whether the message went to the client                   *)
(*   reportCheck, reportWork   dx_deviceTwinReportValue, likewise           *)
(*   notify        ProcessConnectionStatusCallbacks(arg) before slot i      *)
(*   subscriber    application code in a connection-status callback         *)
(*   inbound       application code in a twin, method or message callback   *)

WorkPoints == {"handlerWork", "publishWork", "reportWork"}
AppPoints  == {"subscriber", "inbound"}
Points     == WorkPoints \cup AppPoints \cup {"publishCheck", "reportCheck", "notify"}

Frame == [pc : Points, arg : BOOLEAN, sent : BOOLEAN, i : Nat]
Fr(p, b) == [pc |-> p, arg |-> b, sent |-> FALSE, i |-> 1]

Top == Head(stack)
TopIn(S) == stack # <<>> /\ Top.pc \in S
Push(f, s) == <<f>> \o s

\* DoWork is running, so the SDK may call back.
InDoWork == TopIn(WorkPoints)

\* Application code is running: from the loop or main, or inside a callback.
AppRuns == /\ stack = <<>> \/ TopIn(AppPoints)
           /\ Len(stack) < MaxDepth

\* Application code that uses the connection.
AppUses == AppRuns /\ (EarlyCalls \/ azureConnectionTimer.initialized)

-----------------------------------------------------------------------------
(* The network check, the connection check and the notifications.           *)

NetworkReady == IF network_ready_cached THEN connection_state ELSE netUp

\* The effect of calling isNetworkReady: it answers NetworkReady.
isNetworkReady ==
    /\ connection_state' = NetworkReady
    /\ network_ready_cached' = TRUE
    /\ tmr_network_ready_cached' = IF network_ready_cached
                                   THEN tmr_network_ready_cached
                                   ELSE dx_timerOneShotSet(tmr_network_ready_cached)

\* Mutant: only new connections are announced.
BugProcessConnectionStatusCallbacks(state, base) ==
    /\ previous_connection_state' = state
    /\ stack' = IF state /\ ~previous_connection_state
                THEN Push(Fr("notify", state), base) ELSE base

\* Mutant: the state announced is not recorded.
BugForgetsAnnouncement(state, base) ==
    /\ UNCHANGED previous_connection_state
    /\ stack' = IF state # previous_connection_state
                THEN Push(Fr("notify", state), base) ELSE base

\* previous_connection_state is set before the first callback is called;
\* the loop over the table is the frame this pushes on base.
ProcessConnectionStatusCallbacks(state, base) ==
    /\ previous_connection_state' = state
    /\ stack' = IF state # previous_connection_state
                THEN Push(Fr("notify", state), base) ELSE base

\* Mutant: an authenticated session outlives the network.
BugLostNetwork(a) == FALSE

\* The answer and the effect of dx_isAzureConnected, called with
\* authentication state a and device state d by the frames in base.
LostNetwork(a) == ~NetworkReady /\ a = "Authenticated"
IsConnected(a) == NetworkReady /\ iothubClientHandle # NULL /\ a = "Authenticated"

dx_isAzureConnected(a, d, base) ==
    /\ isNetworkReady
    /\ authState' = IF LostNetwork(a) THEN "NotAuthenticated" ELSE a
    /\ deviceConnectionState' = IF LostNetwork(a) THEN "NOT_CONNECTED" ELSE d
    /\ ProcessConnectionStatusCallbacks(IsConnected(a), base)
    /\ UNCHANGED <<loopVars, azureConnectionTimer, netUp, provVars, subVars>>

\* The next iteration of the loop that finds a callback.  The slots are read
\* as they are now: a callback may register and unregister.
SlotsLeft == {i \in Slots : i >= Top.i /\ connectionStatusCallback[i] # NULL}

NotifyNext ==
    /\ TopIn({"notify"})
    /\ \E i \in SlotsLeft :
        /\ \A j \in SlotsLeft : i <= j
        /\ told' = [told EXCEPT ![connectionStatusCallback[i]] = Top.arg]
        /\ stack' = Push(Fr("subscriber", FALSE),
                         Push([Top EXCEPT !.i = i + 1], Tail(stack)))
    /\ UNCHANGED <<coreVars, connectionStatusCallback, inboundCallback>>

NotifyDone ==
    /\ TopIn({"notify"})
    /\ SlotsLeft = {}
    /\ stack' = Tail(stack)
    /\ UNCHANGED <<coreVars, subVars>>

\* An application callback returns.
CallbackReturns ==
    /\ TopIn(AppPoints)
    /\ stack' = Tail(stack)
    /\ UNCHANGED <<coreVars, subVars>>

network_ready_expired_handler ==
    /\ stack = <<>>
    /\ loop # "ended"
    /\ tmr_network_ready_cached.active
    /\ network_ready_cached' = FALSE
    /\ tmr_network_ready_cached' = Expired(tmr_network_ready_cached)
    /\ UNCHANGED <<loopVars, stack, azureConnectionTimer, connection_state, netUp,
                   stateVars, provVars, sdkVars, subVars>>

-----------------------------------------------------------------------------
(* Calls of the application.                                                *)

dx_terminate == loop' = IF loop = "ended" THEN "ended" ELSE "stop"

\* dx_azureConnect returns at once after the first time.  A missing type and a
\* failure to build the PnP model id terminate the program before anything
\* starts;
ConnectRejected(type) ==
    /\ type \in {"NOT_DEFINED", "DPS"}
    /\ userConfig' = IF type = "NOT_DEFINED" THEN userConfig ELSE type
    /\ dx_terminate
    /\ UNCHANGED <<connection_initialized, azureConnectionTimer, tmr_network_ready_cached>>

\* a failure of IoTHub_Init does, too, but connection_initialized is set;
ConnectFails(type) ==
    /\ type # "NOT_DEFINED"
    /\ ~azureConnectionTimer.initialized
    /\ userConfig' = type
    /\ connection_initialized' = TRUE
    /\ dx_terminate
    /\ UNCHANGED <<azureConnectionTimer, tmr_network_ready_cached>>

\* Mutant: the flag is set before dx_azureToDeviceStart, which clears it.
BugConnectStarts(type) ==
    /\ type # "NOT_DEFINED"
    /\ userConfig' = type
    /\ connection_initialized' = FALSE
    /\ azureConnectionTimer' = dx_timerStart(azureConnectionTimer, TRUE, FALSE)
    /\ tmr_network_ready_cached' = dx_timerStart(tmr_network_ready_cached, FALSE, FALSE)
    /\ UNCHANGED loop

\* otherwise both timers start, only the first of them with a delay.
ConnectStarts(type) ==
    /\ type # "NOT_DEFINED"
    /\ userConfig' = type
    /\ connection_initialized' = TRUE
    /\ azureConnectionTimer' = dx_timerStart(azureConnectionTimer, TRUE, FALSE)
    /\ tmr_network_ready_cached' = dx_timerStart(tmr_network_ready_cached, FALSE, FALSE)
    /\ UNCHANGED loop

dx_azureConnect ==
    /\ AppRuns
    /\ ~connection_initialized
    /\ \E type \in ConnectionTypes :
            ConnectRejected(type) \/ ConnectFails(type) \/ ConnectStarts(type)
    /\ UNCHANGED <<stack, network_ready_cached, connection_state, netUp, stateVars,
                   provVars, sdkVars, subVars>>

\* The timers stop; the client, its session and connection_initialized stay.
dx_azureToDeviceStop ==
    /\ AppRuns
    /\ azureConnectionTimer.initialized
    /\ azureConnectionTimer' = dx_timerStop(azureConnectionTimer)
    /\ tmr_network_ready_cached' = dx_timerStop(tmr_network_ready_cached)
    /\ UNCHANGED <<loopVars, stack, network_ready_cached, connection_state, netUp,
                   stateVars, provVars, sdkVars, subVars>>

CheckConnected ==
    /\ AppUses
    /\ dx_isAzureConnected(authState, deviceConnectionState, stack)
    /\ UNCHANGED sdkVars

\* dx_azurePublish with a non-empty message, up to the answer of its check.
PublishCheck ==
    /\ AppUses
    /\ queued < MaxQueue
    /\ dx_isAzureConnected(authState, deviceConnectionState,
                           Push(Fr("publishCheck", IsConnected(authState)), stack))
    /\ UNCHANGED sdkVars

\* Not connected, or the message cannot be created.
PublishRefused ==
    /\ TopIn({"publishCheck"})
    /\ stack' = Tail(stack)
    /\ UNCHANGED <<coreVars, subVars>>

\* Mutant: a message is counted before the client accepts it.
BugHandOver(accepted) ==
    /\ queued' = IF accepted THEN queued + 1 ELSE queued
    /\ outstandingMessageCount' = outstandingMessageCount + 1

\* IoTHubDeviceClient_LL_SendEventAsync takes the message, or not.
HandOver(accepted) ==
    /\ queued' = IF accepted THEN queued + 1 ELSE queued
    /\ outstandingMessageCount' = IF accepted THEN outstandingMessageCount + 1
                                              ELSE outstandingMessageCount

\* The message goes to the client (accepted), the client refuses it, or one of
\* its properties cannot be set.  In the last case result is returned
\* uninitialised: the answer may be either.
PublishSend(accepted, ret) ==
    /\ TopIn({"publishCheck"})
    /\ Top.arg
    /\ accepted => ret
    /\ stack' = Push([Fr("publishWork", ret) EXCEPT !.sent = accepted], Tail(stack))
    /\ HandOver(accepted)
    /\ UNCHANGED <<loopVars, azureConnectionTimer, netVars, netUp, stateVars, provVars,
                   iothubClientHandle, link, subVars>>

PublishContinues ==
    PublishRefused \/ \E accepted, ret \in BOOLEAN : PublishSend(accepted, ret)

dx_azurePublish == PublishCheck \/ PublishContinues

\* dx_deviceTwinReportValue: the check, the report if the check succeeds (not
\* represented here), and DoWork on whatever handle there is, connected or not.
ReportCheck ==
    /\ AppUses
    /\ inboundCallback # "never"    \* dx_deviceTwinSubscribe stored the handle's address
    /\ dx_isAzureConnected(authState, deviceConnectionState,
                           Push(Fr("reportCheck", IsConnected(authState)), stack))
    /\ UNCHANGED sdkVars

ReportSend ==
    /\ TopIn({"reportCheck"})
    /\ stack' = Push(Fr("reportWork", Top.arg), Tail(stack))
    /\ UNCHANGED <<coreVars, subVars>>

dx_deviceTwinReportValue == ReportCheck \/ ReportSend

\* The first free slot, if there is one.
dx_azureRegisterConnectionChangedNotification(s) ==
    /\ AppRuns
    /\ \E i \in Slots :
        /\ connectionStatusCallback[i] = NULL
        /\ \A j \in Slots : j < i => connectionStatusCallback[j] # NULL
        /\ connectionStatusCallback' = [connectionStatusCallback EXCEPT ![i] = s]
    /\ UNCHANGED <<stack, coreVars, told, inboundCallback>>

\* Every slot that holds s.
dx_azureUnregisterConnectionChangedNotification(s) ==
    /\ AppRuns
    /\ connectionStatusCallback' =
            [i \in Slots |-> IF connectionStatusCallback[i] = s
                             THEN NULL ELSE connectionStatusCallback[i]]
    /\ told' = [told EXCEPT ![s] = NULL]
    /\ UNCHANGED <<stack, coreVars, inboundCallback>>

\* The three callbacks for twins, methods and messages are registered and
\* cleared (by registering NULL) alike.
dx_azureRegisterInbound ==
    /\ AppRuns
    /\ inboundCallback' \in {"set", "cleared"}
    /\ UNCHANGED <<stack, coreVars, connectionStatusCallback, told>>

-----------------------------------------------------------------------------
(* The SDK client.  Its callbacks come from DoWork only.                    *)

\* HubConnectionStatusCallback, after it has chosen the new states.
StatusCallback(a, d) ==
    /\ InDoWork
    /\ iothubClientHandle # NULL
    /\ dx_isAzureConnected(a, d, stack)
    /\ UNCHANGED <<iothubClientHandle, queued, outstandingMessageCount>>

\* AUTHENTICATED: the hub accepts the MQTT session.
HubAuthenticated ==
    /\ ~link
    /\ link' = TRUE
    /\ StatusCallback("Authenticated", deviceConnectionState)

StateAfter(reason) == IF reason \in {"DEVICE_DISABLED", "NO_NETWORK"}
                      THEN "Device_Disabled" ELSE "NotAuthenticated"

\* Mutant: deviceConnectionState is not reset.
BugHubUnauthenticated(reason) ==
    /\ link' = FALSE
    /\ StatusCallback(StateAfter(reason), deviceConnectionState)

\* UNAUTHENTICATED: the session is refused, lost or expired.
HubUnauthenticated(reason) ==
    /\ link' = FALSE
    /\ StatusCallback(StateAfter(reason), "NOT_CONNECTED")

\* A message is acknowledged, or times out.
SendMessageCallback ==
    /\ InDoWork
    /\ queued > 0
    /\ queued' = queued - 1
    /\ outstandingMessageCount' = outstandingMessageCount - 1
    /\ UNCHANGED <<loopVars, stack, azureConnectionTimer, netVars, netUp, stateVars,
                   provVars, iothubClientHandle, link, subVars>>

\* HubDeviceTwinCallback, HubDirectMethodCallback, HubMessageReceivedCallback:
\* something arrives from the hub and a callback is registered for it.
HubInbound ==
    /\ InDoWork
    /\ link
    /\ inboundCallback = "set"
    /\ stack' = Push(Fr("inbound", FALSE), stack)
    /\ UNCHANGED <<coreVars, subVars>>

\* DoWork returns; the connection handler then sets its timer again.
DoWorkReturns ==
    /\ InDoWork
    /\ stack' = Tail(stack)
    /\ azureConnectionTimer' = IF Top.pc = "handlerWork"
                               THEN dx_timerOneShotSet(azureConnectionTimer)
                               ELSE azureConnectionTimer
    /\ UNCHANGED <<loopVars, netVars, netUp, stateVars, provVars, sdkVars, subVars>>

-----------------------------------------------------------------------------
(* The connection timer's handler.  All cases but PollClient and the ones   *)
(* that open a client run to the end in one step and set the timer again.   *)

\* On entry the handler checks the network and drops an authenticated session
\* if the network is gone (without notifying anyone).
HandlerEntry ==
    /\ stack = <<>>
    /\ loop # "ended"
    /\ azureConnectionTimer.active
    /\ isNetworkReady
    /\ UNCHANGED <<loopVars, netUp, previous_connection_state, subVars>>

AuthOnEntry == IF LostNetwork(authState) THEN "NotAuthenticated" ELSE authState

\* Mutant: a lost network does not reset deviceConnectionState.
BugDeviceOnEntry == deviceConnectionState

DeviceOnEntry == IF LostNetwork(authState) THEN "NOT_CONNECTED" ELSE deviceConnectionState

\* Mutant: a return that skips the last line of the handler.
BugHandlerReturns ==
    /\ azureConnectionTimer' = Expired(azureConnectionTimer)
    /\ stack' = <<>>

\* Either the handler comes to its end in this step and sets its timer again,
HandlerReturns ==
    /\ azureConnectionTimer' = dx_timerOneShotSet(Expired(azureConnectionTimer))
    /\ stack' = <<>>

\* or it calls DoWork.
HandlerWorks ==
    /\ azureConnectionTimer' = Expired(azureConnectionTimer)
    /\ stack' = <<Fr("handlerWork", FALSE)>>

PollClient ==
    /\ HandlerEntry
    /\ AuthOnEntry \in {"AuthenticationInitiated", "Authenticated"}
    /\ authState' = AuthOnEntry
    /\ deviceConnectionState' = DeviceOnEntry
    /\ HandlerWorks
    /\ UNCHANGED <<provVars, sdkVars>>

\* Device_Disabled: try again next time.
ReenableDevice ==
    /\ HandlerEntry
    /\ AuthOnEntry = "Device_Disabled"
    /\ authState' = "NotAuthenticated"
    /\ deviceConnectionState' = "NOT_CONNECTED"
    /\ HandlerReturns
    /\ UNCHANGED <<provVars, sdkVars>>

\* Mutant: destroying the client loses the confirmations of its messages.
BugDestroyClient == link' = FALSE /\ queued' = 0 /\ UNCHANGED outstandingMessageCount

\* IoTHubDeviceClient_LL_Destroy confirms what the client holds, through
\* SendMessageCallback; without a client there is nothing to confirm.
DestroyClient ==
    /\ link' = FALSE
    /\ queued' = 0
    /\ outstandingMessageCount' = outstandingMessageCount - queued

\* NotAuthenticated: SetupAzureClient.  The old client goes first.  It ends ...
SetupEntry(type) ==
    /\ HandlerEntry
    /\ AuthOnEntry = "NotAuthenticated"
    /\ userConfig = type
    /\ DestroyClient

\* ... without a client,
NoClient ==
    /\ iothubClientHandle' = NULL
    /\ authState' = "NotAuthenticated"
    /\ HandlerReturns

\* ... or with a client for hub h, whose callbacks are set, and in DoWork.
OpenClient(h) ==
    /\ iothubClientHandle' = h
    /\ authState' = "AuthenticationInitiated"
    /\ HandlerWorks

\* HOSTNAME creates no client; it goes on only if the device were CONNECTED.
SetupHostname ==
    /\ SetupEntry("HOSTNAME")
    /\ deviceConnectionState' = DeviceOnEntry
    /\ IF DeviceOnEntry = "CONNECTED" THEN OpenClient(NULL) ELSE NoClient
    /\ UNCHANGED provVars

SetUpAzureIoTHubClientWithConnectionString ==
    /\ SetupEntry("STRING")
    /\ \/ /\ NetworkReady
          /\ deviceConnectionState' = "CONNECTED"
          /\ \E h \in Hubs : OpenClient(h)
       \/ /\ deviceConnectionState' = "NOT_CONNECTED"
          /\ NoClient
    /\ UNCHANGED provVars

\* Mutant: released after an error only.
BugCleanup(d, prov, sec) ==
    /\ deviceConnectionState' = d
    /\ prov_handle' = (prov /\ d # "PROVISIONING_ERROR")
    /\ security_init_called' = (sec /\ d # "PROVISIONING_ERROR")

\* The cleanup label of SetUpAzureIoTHubClientWithDpsPnP, entered in state d
\* with a provisioning client (prov) and security (sec) initialised or not.
Cleanup(d, prov, sec) ==
    LET done == d \in {"CONNECTED", "PROVISIONING_ERROR"} IN
    /\ deviceConnectionState' = d
    /\ prov_handle' = (prov /\ ~done)
    /\ security_init_called' = (sec /\ ~done)

\* The early return of SetUpAzureIoTHubClientWithDpsPnP.
DpsWaits ==
    /\ SetupEntry("DPS")
    /\ ~NetworkReady
    /\ deviceConnectionState' = DeviceOnEntry
    /\ NoClient
    /\ UNCHANGED provVars

DpsEntry(states) ==
    /\ SetupEntry("DPS")
    /\ NetworkReady
    /\ DeviceOnEntry \in states

ResetAttempt ==
    dpsRegisterStatus' = "INVALID_STATE" /\ provisionCompletedMaxRetry' = 0

\* A new attempt.  It can fail before security is initialised, before the
\* provisioning client exists, or after.
DpsBegin ==
    /\ DpsEntry({"NOT_CONNECTED", "PROVISIONING_ERROR"})
    /\ ResetAttempt
    /\ \/ Cleanup("PROVISIONING_ERROR", prov_handle, security_init_called)
       \/ Cleanup("PROVISIONING_ERROR", FALSE, TRUE)
       \/ Cleanup("PROVISIONING_ERROR", TRUE, TRUE)
       \/ Cleanup("PROVISIONING", TRUE, TRUE)
    /\ NoClient
    /\ UNCHANGED <<iotHubUri, assignedHub>>

\* Mutant: a failed copy leaves the old address.
BugAssign(h, copied) == iotHubUri' = IF copied THEN h ELSE iotHubUri

\* The old address is freed first, and the copy of the new one may fail.
Assign(h, copied) == iotHubUri' = IF copied THEN h ELSE NULL

RegisterProvisioningDeviceCallback ==
    \/ /\ dpsRegisterStatus' = "OK"
       /\ \E h \in Hubs, copied \in BOOLEAN : Assign(h, copied) /\ assignedHub' = h
    \/ /\ dpsRegisterStatus' = "ERROR"
       /\ UNCHANGED <<iotHubUri, assignedHub>>

DpsPoll ==
    /\ DpsEntry({"PROVISIONING"})
    /\ \/ RegisterProvisioningDeviceCallback
       \/ UNCHANGED <<dpsRegisterStatus, iotHubUri, assignedHub>>
    /\ provisionCompletedMaxRetry' = provisionCompletedMaxRetry + 1
    /\ Cleanup(IF provisionCompletedMaxRetry > MaxRetry THEN "PROVISIONING_ERROR"
               ELSE IF dpsRegisterStatus' = "OK" THEN "PROVISION_IOT_CLIENT"
               ELSE "PROVISIONING",
               prov_handle, security_init_called)
    /\ NoClient

\* ConnectToIotHub: the client is created, or something fails and a client
\* that was created is destroyed again.  In the switch's default case, a device
\* that is CONNECTED already, nothing is created.
DpsConnect ==
    /\ DpsEntry({"PROVISION_IOT_CLIENT", "CONNECTED"})
    /\ \/ /\ iotHubUri # NULL \/ DeviceOnEntry = "CONNECTED"
          /\ Cleanup("CONNECTED", prov_handle, security_init_called)
          /\ OpenClient(IF DeviceOnEntry = "CONNECTED" THEN NULL ELSE iotHubUri)
       \/ /\ DeviceOnEntry = "PROVISION_IOT_CLIENT"
          /\ Cleanup("PROVISIONING_ERROR", prov_handle, security_init_called)
          /\ NoClient
    /\ UNCHANGED <<dpsRegisterStatus, provisionCompletedMaxRetry, iotHubUri, assignedHub>>

-----------------------------------------------------------------------------
(* The environment: the network comes and goes, SIGTERM or application code *)
(* stops the loop.                                                          *)

NetworkChanges ==
    /\ netUp' = ~netUp
    /\ UNCHANGED <<loopVars, stack, azureConnectionTimer, netVars, stateVars, provVars,
                   sdkVars, subVars>>

\* dx_terminate called elsewhere, and dx_terminationHandler.
Terminate ==
    /\ dx_terminate
    /\ UNCHANGED <<stack, userConfig, connection_initialized, azureConnectionTimer,
                   netVars, netUp, stateVars, provVars, sdkVars, subVars>>

\* uv_run returns after the iteration in which uv_stop was called.
LoopEnds ==
    /\ loop = "stop"
    /\ stack = <<>>
    /\ loop' = "ended"
    /\ UNCHANGED <<stack, userConfig, connection_initialized, azureConnectionTimer,
                   netVars, netUp, stateVars, provVars, sdkVars, subVars>>

-----------------------------------------------------------------------------
Init ==
    /\ loop = "run"
    /\ stack = <<>>
    /\ userConfig = NULL
    /\ connection_initialized = FALSE
    /\ azureConnectionTimer = NewTimer
    /\ tmr_network_ready_cached = NewTimer
    /\ network_ready_cached = FALSE
    /\ connection_state = FALSE
    /\ netUp \in BOOLEAN
    /\ authState = "NotAuthenticated"
    /\ deviceConnectionState = "NOT_CONNECTED"
    /\ prov_handle = FALSE
    /\ security_init_called = FALSE
    /\ dpsRegisterStatus = "INVALID_STATE"
    /\ provisionCompletedMaxRetry = 0
    /\ iotHubUri = NULL
    /\ assignedHub = NULL
    /\ iothubClientHandle = NULL
    /\ link = FALSE
    /\ queued = 0
    /\ outstandingMessageCount = 0
    /\ previous_connection_state = FALSE
    /\ connectionStatusCallback = [i \in Slots |-> NULL]
    /\ told = [s \in Subscribers |-> NULL]
    /\ inboundCallback = "never"

Application ==
    \/ dx_azureConnect
    \/ dx_azureToDeviceStop
    \/ CheckConnected
    \/ dx_azurePublish
    \/ dx_deviceTwinReportValue
    \/ \E s \in Subscribers : dx_azureRegisterConnectionChangedNotification(s)
    \/ \E s \in Subscribers : dx_azureUnregisterConnectionChangedNotification(s)
    \/ dx_azureRegisterInbound

SetupAzureClient ==
    \/ SetupHostname
    \/ SetUpAzureIoTHubClientWithConnectionString
    \/ DpsWaits
    \/ DpsBegin
    \/ DpsPoll
    \/ DpsConnect

AzureConnectionHandler == PollClient \/ ReenableDevice \/ SetupAzureClient

Notifications == NotifyNext \/ NotifyDone \/ CallbackReturns

SdkClient ==
    \/ HubAuthenticated
    \/ \E r \in Reasons : HubUnauthenticated(r)
    \/ SendMessageCallback
    \/ HubInbound
    \/ DoWorkReturns

Environment == NetworkChanges \/ Terminate \/ LoopEnds

Next ==
    \/ Application
    \/ AzureConnectionHandler
    \/ network_ready_expired_handler
    \/ Notifications
    \/ SdkClient
    \/ Environment

Spec == Init /\ [][Next]_vars

(* Fairness of the program: the loop runs the handler of an expired timer,  *)
(* however often application code runs in between; a call to DoWork handles *)
(* finitely many events; callbacks return; a function goes on after a call. *)
ProgramFairness ==
    /\ SF_vars(AzureConnectionHandler)
    /\ SF_vars(network_ready_expired_handler)
    /\ SF_vars(DoWorkReturns)
    /\ SF_vars(CallbackReturns)
    /\ WF_vars(NotifyNext \/ NotifyDone)
    /\ WF_vars(PublishContinues)
    /\ WF_vars(ReportSend)

(* Fairness of the services: if the program keeps trying, a hub client can  *)
(* be created, the hub accepts its session, and DPS answers a registration  *)
(* while the program still waits for the answer.                            *)
ServiceFairness ==
    /\ SF_vars(SetUpAzureIoTHubClientWithConnectionString /\ iothubClientHandle' # NULL)
    /\ SF_vars(DpsBegin /\ prov_handle')
    /\ SF_vars(DpsPoll /\ provisionCompletedMaxRetry <= MaxRetry
                       /\ dpsRegisterStatus' = "OK" /\ iotHubUri' # NULL)
    /\ SF_vars(DpsConnect /\ iothubClientHandle' # NULL)
    /\ SF_vars(HubAuthenticated)

FairSpec == Spec /\ ProgramFairness /\ ServiceFairness

-----------------------------------------------------------------------------
(* Properties.                                                              *)

\* Every variable keeps the type of its C counterpart.
TypeOK ==
    /\ loop \in {"run", "stop", "ended"}
    /\ stack \in Seq(Frame)
    /\ userConfig \in {NULL, "HOSTNAME", "DPS", "STRING"}
    /\ connection_initialized \in BOOLEAN
    /\ azureConnectionTimer \in Timer
    /\ tmr_network_ready_cached \in Timer
    /\ network_ready_cached \in BOOLEAN
    /\ connection_state \in BOOLEAN
    /\ netUp \in BOOLEAN
    /\ authState \in AuthStates
    /\ deviceConnectionState \in DeviceStates
    /\ prov_handle \in BOOLEAN
    /\ security_init_called \in BOOLEAN
    /\ dpsRegisterStatus \in DpsResults
    /\ provisionCompletedMaxRetry \in Nat
    /\ iotHubUri \in Hubs \cup {NULL}
    /\ assignedHub \in Hubs \cup {NULL}
    /\ iothubClientHandle \in Hubs \cup {NULL}
    /\ link \in BOOLEAN
    /\ queued \in Nat
    /\ outstandingMessageCount \in Int
    /\ previous_connection_state \in BOOLEAN
    /\ connectionStatusCallback \in [Slots -> Subscribers \cup {NULL}]
    /\ told \in [Subscribers -> BOOLEAN \cup {NULL}]
    /\ inboundCallback \in {"never", "set", "cleared"}

Provisioning == deviceConnectionState \in {"PROVISIONING", "PROVISION_IOT_CLIENT"}
InSession    == authState \in {"AuthenticationInitiated", "Authenticated"}

\* The DPS client and its security context exist exactly while provisioning is
\* under way, and no hub client exists meanwhile.  deviceConnectionState is
\* reset to NOT_CONNECTED in four places that do not release them, and a new
\* attempt overwrites prov_handle: none of the four may be reached with them.
ProvisioningResources ==
    /\ prov_handle <=> Provisioning
    /\ security_init_called <=> Provisioning
    /\ Provisioning => iothubClientHandle = NULL /\ authState = "NotAuthenticated"

\* The connection type and with it the way to set a client up cannot change
\* under a connection that was started, however often dx_azureConnect is called:
\* a provisioning that is under way is always finished or cleaned up by the DPS
\* branch of SetupAzureClient.
ConfigurationIsFixed ==
    /\ azureConnectionTimer.active => azureConnectionTimer.initialized
    /\ azureConnectionTimer.initialized => connection_initialized
    /\ Provisioning => userConfig = "DPS" /\ connection_initialized

\* The handler never waits in DoWork for the callbacks of a client that does
\* not exist (it would do so for ever: DoWork on NULL does nothing).
SessionHasClient == InSession => iothubClientHandle # NULL

\* A device that is CONNECTED has a session, so a set-up never starts from
\* CONNECTED: it would skip the switch of SetUpAzureIoTHubClientWithDpsPnP and
\* go on with the handle that SetupAzureClient has just destroyed.
ConnectedMeansSession == deviceConnectionState = "CONNECTED" => InSession

\* Whatever nests in whatever: when the hub has authenticated the client, the
\* last change announced by ProcessConnectionStatusCallbacks is "connected".
AuthenticatedIsAnnounced == authState = "Authenticated" => previous_connection_state

\* dx_azurePublish hands a message over in the state its check saw: callbacks
\* may run between a check and its answer, but never when the answer is yes.
SendsWhileAuthenticated ==
    \A k \in 1 .. Len(stack) :
        stack[k].pc = "publishCheck" /\ stack[k].arg
            => k = 1 /\ authState = "Authenticated"

\* outstandingMessageCount is what the live client has not confirmed: no
\* confirmation is missed when the client is destroyed and created again.
OutstandingIsQueued ==
    /\ outstandingMessageCount = queued
    /\ iothubClientHandle = NULL => queued = 0

\* The connection timer is one-shot: until dx_azureToDeviceStop, it is set, or
\* its handler is running (at the bottom of the stack) and will set it again.
TimerNeverLost ==
    azureConnectionTimer.initialized /\ ~azureConnectionTimer.active
        => stack # <<>> /\ stack[Len(stack)].pc = "handlerWork"

\* With DPS the client is for the hub of the latest assignment, never for one
\* left over from an earlier attempt.
HubIsAssigned ==
    userConfig = "DPS" /\ iothubClientHandle # NULL => iothubClientHandle = assignedHub

SlotsOf(s) == {i \in Slots : connectionStatusCallback[i] = s}

\* The subscriber in the first slot (and in no other) was last told the state last
\* announced, however deep callbacks nest: ProcessConnectionStatusCallbacks records
\* the state before it calls anyone, and an announcement made inside a callback
\* reaches the first slot before the one it interrupts goes on, with an old state,
\* to the later ones.
FirstSubscriberAgrees ==
    ~TopIn({"notify"}) =>
        \A s \in Subscribers :
            SlotsOf(s) = {1} => told[s] \in {NULL, previous_connection_state}

\* The network is back for good, dx_azureToDeviceStop is not called and the
\* program is not terminated.
StableNetwork == <>[](netUp /\ azureConnectionTimer.initialized /\ loop = "run")

\* Whatever went wrong before, in provisioning, in the client or in the
\* network, the device comes online again and again as long as the services
\* answer.
ComesOnline == StableNetwork => []<>(authState = "Authenticated")

-----------------------------------------------------------------------------
(* The connection layer implements Session.                                 *)

sessionPhase == IF iothubClientHandle # NULL THEN "open"
                ELSE IF Provisioning THEN "registering" ELSE "idle"

S == INSTANCE Session WITH
        mustRegister <- userConfig = "DPS",
        phase <- sessionPhase,
        hub <- iothubClientHandle,
        inflight <- outstandingMessageCount

\* One session at a time, opened with DPS only by a registration, and every
\* message that dx_azurePublish hands over is counted down exactly once.
ImplementsSession == S!Spec
=============================================================================
