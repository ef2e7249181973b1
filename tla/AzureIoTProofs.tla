--------------------------- MODULE AzureIoTProofs ---------------------------
(* Proofs about AzureIoT, for every value of its constants. *)
EXTENDS AzureIoT, SequenceTheorems, TLAPS

-----------------------------------------------------------------------------
(* The call stack.                                                          *)

LEMMA PushType ==
    ASSUME NEW f \in Frame, NEW s \in Seq(Frame)
    PROVE  /\ Push(f, s) \in Seq(Frame)
           /\ Push(f, s) # <<>>
           /\ Len(Push(f, s)) = Len(s) + 1
           /\ Head(Push(f, s)) = f
           /\ \A k \in 1 .. Len(Push(f, s)) :
                Push(f, s)[k] = IF k = 1 THEN f ELSE s[k - 1]
  BY DEF Push

LEMMA SingletonType ==
    ASSUME NEW f \in Frame
    PROVE  <<f>> \in Seq(Frame) /\ Len(<<f>>) = 1 /\ <<f>>[1] = f
  OBVIOUS

LEMMA TailType ==
    ASSUME NEW s \in Seq(Frame), s # <<>>
    PROVE  /\ Head(s) \in Frame
           /\ Tail(s) \in Seq(Frame)
           /\ Len(Tail(s)) = Len(s) - 1
           /\ \A k \in 1 .. Len(Tail(s)) : Tail(s)[k] = s[k + 1]
  BY HeadTailProperties

LEMMA FrameType ==
    ASSUME NEW p \in Points, NEW b \in BOOLEAN
    PROVE  /\ Fr(p, b) \in Frame
           /\ Fr(p, b).pc = p
           /\ Fr(p, b).arg = b
           /\ \A a \in BOOLEAN : [Fr(p, b) EXCEPT !.sent = a] \in Frame
           /\ \A a \in BOOLEAN : [Fr(p, b) EXCEPT !.sent = a].pc = p
  BY DEF Fr, Frame

LEMMA TimerType ==
    ASSUME NEW t \in Timer, NEW d \in BOOLEAN, NEW r \in BOOLEAN
    PROVE  /\ dx_timerStart(t, d, r) \in Timer
           /\ dx_timerStop(t) \in Timer
           /\ dx_timerOneShotSet(t) \in Timer
           /\ Expired(t) \in Timer
           /\ NewTimer \in Timer
  BY DEF Timer, dx_timerStart, dx_timerStop, dx_timerOneShotSet, Expired, NewTimer

-----------------------------------------------------------------------------
(* Type correctness.                                                        *)

\* The part of TypeOK that dx_isAzureConnected may change or keeps.
SdkTypeOK ==
    /\ iothubClientHandle \in Hubs \cup {NULL}
    /\ link \in BOOLEAN
    /\ queued \in Nat
    /\ outstandingMessageCount \in Int

LEMMA NetworkType ==
    ASSUME TypeOK, isNetworkReady
    PROVE  /\ connection_state' \in BOOLEAN
           /\ network_ready_cached' \in BOOLEAN
           /\ tmr_network_ready_cached' \in Timer
  BY TimerType DEF TypeOK, isNetworkReady, NetworkReady

LEMMA IsAzureConnectedType ==
    ASSUME TypeOK, SdkTypeOK',
           NEW a \in AuthStates, NEW d \in DeviceStates, NEW base \in Seq(Frame),
           dx_isAzureConnected(a, d, base)
    PROVE  TypeOK'
<1>1. IsConnected(a) \in BOOLEAN
  BY DEF IsConnected, NetworkReady, TypeOK
<1>2. Fr("notify", IsConnected(a)) \in Frame
  BY <1>1, FrameType DEF Points
<1>3. Push(Fr("notify", IsConnected(a)), base) \in Seq(Frame)
  BY <1>2, PushType
<1>4. stack' \in Seq(Frame) /\ previous_connection_state' \in BOOLEAN
  BY <1>1, <1>3 DEF dx_isAzureConnected, ProcessConnectionStatusCallbacks
<1>5. authState' \in AuthStates /\ deviceConnectionState' \in DeviceStates
  BY DEF dx_isAzureConnected, AuthStates, DeviceStates
<1>6. /\ connection_state' \in BOOLEAN
      /\ network_ready_cached' \in BOOLEAN
      /\ tmr_network_ready_cached' \in Timer
  BY NetworkType DEF dx_isAzureConnected
<1> QED
  BY <1>4, <1>5, <1>6
  DEF TypeOK, SdkTypeOK, dx_isAzureConnected, loopVars, provVars, subVars

LEMMA ApplicationType == TypeOK /\ Application => TypeOK'
<1> SUFFICES ASSUME TypeOK, Application PROVE TypeOK'
  OBVIOUS
<1> USE DEF loopVars, netVars, stateVars, provVars, sdkVars, subVars, coreVars
<1>0. /\ stack \in Seq(Frame)
      /\ authState \in AuthStates
      /\ deviceConnectionState \in DeviceStates
      /\ IsConnected(authState) \in BOOLEAN
  BY DEF TypeOK, IsConnected, NetworkReady
<1>1. CASE dx_azureConnect
  <2>1. PICK type \in ConnectionTypes :
            ConnectRejected(type) \/ ConnectFails(type) \/ ConnectStarts(type)
    BY <1>1 DEF dx_azureConnect
  <2>2. /\ userConfig' \in {NULL, "HOSTNAME", "DPS", "STRING"}
        /\ connection_initialized' \in BOOLEAN
        /\ loop' \in {"run", "stop", "ended"}
    BY <2>1, ConnectionTypesAssumption
    DEF TypeOK, ConnectRejected, ConnectFails, ConnectStarts, dx_terminate
  <2>3. azureConnectionTimer' \in Timer /\ tmr_network_ready_cached' \in Timer
    BY <2>1, TimerType DEF TypeOK, ConnectRejected, ConnectFails, ConnectStarts
  <2> QED
    BY <1>1, <2>2, <2>3 DEF TypeOK, dx_azureConnect
<1>2. CASE dx_azureToDeviceStop
  BY <1>2, TimerType DEF TypeOK, dx_azureToDeviceStop
<1>3. CASE CheckConnected
  BY <1>0, <1>3, IsAzureConnectedType DEF TypeOK, SdkTypeOK, CheckConnected
<1>4. CASE PublishCheck
  <2>1. Push(Fr("publishCheck", IsConnected(authState)), stack) \in Seq(Frame)
    BY <1>0, FrameType, PushType DEF Points
  <2> QED
    BY <1>0, <1>4, <2>1, IsAzureConnectedType DEF TypeOK, SdkTypeOK, PublishCheck
<1>5. CASE PublishRefused
  BY <1>5, TailType DEF TypeOK, PublishRefused, TopIn
<1>6. ASSUME NEW accepted \in BOOLEAN, NEW ret \in BOOLEAN, PublishSend(accepted, ret)
      PROVE  TypeOK'
  <2>1. [Fr("publishWork", ret) EXCEPT !.sent = accepted] \in Frame
    BY FrameType DEF Points, WorkPoints
  <2>2. stack' \in Seq(Frame)
    BY <1>0, <1>6, <2>1, TailType, PushType DEF PublishSend, TopIn
  <2> QED
    BY <1>6, <2>2 DEF TypeOK, PublishSend, HandOver
<1>7. CASE ReportCheck
  <2>1. Push(Fr("reportCheck", IsConnected(authState)), stack) \in Seq(Frame)
    BY <1>0, FrameType, PushType DEF Points
  <2> QED
    BY <1>0, <1>7, <2>1, IsAzureConnectedType DEF TypeOK, SdkTypeOK, ReportCheck
<1>8. CASE ReportSend
  <2>1. Top \in Frame /\ Tail(stack) \in Seq(Frame)
    BY <1>0, <1>8, TailType DEF ReportSend, TopIn, Top
  <2>2. Fr("reportWork", Top.arg) \in Frame
    BY <2>1, FrameType DEF Points, WorkPoints, Frame
  <2>3. stack' \in Seq(Frame)
    BY <1>8, <2>1, <2>2, PushType DEF ReportSend
  <2> QED
    BY <1>8, <2>3 DEF TypeOK, ReportSend
<1>9. ASSUME NEW s \in Subscribers, dx_azureRegisterConnectionChangedNotification(s)
      PROVE  TypeOK'
  BY <1>9 DEF TypeOK, dx_azureRegisterConnectionChangedNotification
<1>10. ASSUME NEW s \in Subscribers, dx_azureUnregisterConnectionChangedNotification(s)
       PROVE  TypeOK'
  BY <1>10 DEF TypeOK, dx_azureUnregisterConnectionChangedNotification
<1>11. CASE dx_azureRegisterInbound
  BY <1>11 DEF TypeOK, dx_azureRegisterInbound
<1> QED
  BY <1>1, <1>2, <1>3, <1>4, <1>5, <1>6, <1>7, <1>8, <1>9, <1>10, <1>11
  DEF Application, dx_azurePublish, PublishContinues, dx_deviceTwinReportValue

LEMMA LoopType ==
    TypeOK /\ (Notifications \/ Environment \/ network_ready_expired_handler) => TypeOK'
<1> SUFFICES ASSUME TypeOK,
                    Notifications \/ Environment \/ network_ready_expired_handler
             PROVE  TypeOK'
  OBVIOUS
<1> USE DEF loopVars, netVars, stateVars, provVars, sdkVars, subVars, coreVars
<1>0. stack \in Seq(Frame)
  BY DEF TypeOK
<1>1. CASE NotifyNext
  <2>1. Top \in Frame /\ Tail(stack) \in Seq(Frame)
    BY <1>0, <1>1, TailType DEF NotifyNext, TopIn, Top
  <2>2. PICK i \in SlotsLeft :
            /\ told' = [told EXCEPT ![connectionStatusCallback[i]] = Top.arg]
            /\ stack' = Push(Fr("subscriber", FALSE),
                             Push([Top EXCEPT !.i = i + 1], Tail(stack)))
    BY <1>1 DEF NotifyNext
  <2>3. i \in Nat /\ connectionStatusCallback[i] \in Subscribers
    BY <2>2, SlotsAssumption DEF SlotsLeft, Slots, TypeOK
  <2>4. [Top EXCEPT !.i = i + 1] \in Frame /\ Top.arg \in BOOLEAN
    BY <2>1, <2>3 DEF Frame
  <2>5. Fr("subscriber", FALSE) \in Frame
    BY FrameType DEF Points, AppPoints
  <2>6. stack' \in Seq(Frame)
    BY <2>1, <2>2, <2>4, <2>5, PushType
  <2>7. told' \in [Subscribers -> BOOLEAN \cup {NULL}]
    BY <2>2, <2>3, <2>4 DEF TypeOK
  <2>8. UNCHANGED <<coreVars, connectionStatusCallback, inboundCallback>>
    BY <1>1 DEF NotifyNext
  <2> QED
    BY <2>6, <2>7, <2>8 DEF TypeOK
<1>2. CASE NotifyDone
  BY <1>2, TailType DEF TypeOK, NotifyDone, TopIn
<1>3. CASE CallbackReturns
  BY <1>3, TailType DEF TypeOK, CallbackReturns, TopIn
<1>4. CASE network_ready_expired_handler
  <2>1. Expired(tmr_network_ready_cached) \in Timer
    BY TimerType DEF TypeOK
  <2>2. network_ready_cached' \in BOOLEAN /\ tmr_network_ready_cached' \in Timer
    BY <1>4, <2>1, Zenon DEF network_ready_expired_handler
  <2>3. UNCHANGED <<loopVars, stack, azureConnectionTimer, connection_state, netUp,
                    stateVars, provVars, sdkVars, subVars>>
    BY <1>4 DEF network_ready_expired_handler
  <2> QED
    BY <2>2, <2>3 DEF TypeOK
<1>5. CASE NetworkChanges
  <2>1. netUp' \in BOOLEAN
    BY <1>5 DEF TypeOK, NetworkChanges
  <2> QED
    BY <1>5, <2>1 DEF TypeOK, NetworkChanges
<1>6. CASE Terminate
  BY <1>6 DEF TypeOK, Terminate, dx_terminate
<1>7. CASE LoopEnds
  BY <1>7 DEF TypeOK, LoopEnds
<1> QED
  BY <1>1, <1>2, <1>3, <1>4, <1>5, <1>6, <1>7 DEF Notifications, Environment

LEMMA SdkClientType == TypeOK /\ SdkClient => TypeOK'
<1> SUFFICES ASSUME TypeOK, SdkClient PROVE TypeOK'
  OBVIOUS
<1> USE DEF loopVars, netVars, stateVars, provVars, sdkVars, subVars, coreVars
<1>0. stack \in Seq(Frame) /\ deviceConnectionState \in DeviceStates
  BY DEF TypeOK
<1>1. CASE HubAuthenticated
  <2>1. "Authenticated" \in AuthStates
    BY DEF AuthStates
  <2> QED
    BY <1>0, <1>1, <2>1, IsAzureConnectedType
    DEF TypeOK, SdkTypeOK, HubAuthenticated, StatusCallback
<1>2. ASSUME NEW r \in Reasons, HubUnauthenticated(r) PROVE TypeOK'
  <2>1. StateAfter(r) \in AuthStates /\ "NOT_CONNECTED" \in DeviceStates
    BY DEF StateAfter, AuthStates, DeviceStates
  <2> QED
    BY <1>0, <1>2, <2>1, IsAzureConnectedType
    DEF TypeOK, SdkTypeOK, HubUnauthenticated, StatusCallback
<1>3. CASE SendMessageCallback
  BY <1>3 DEF TypeOK, SendMessageCallback
<1>4. CASE HubInbound
  <2>1. Push(Fr("inbound", FALSE), stack) \in Seq(Frame)
    BY <1>0, FrameType, PushType DEF Points, AppPoints
  <2>2. stack' \in Seq(Frame)
    BY <1>4, <2>1 DEF HubInbound
  <2>3. UNCHANGED <<coreVars, subVars>>
    BY <1>4 DEF HubInbound
  <2> QED
    BY <2>2, <2>3 DEF TypeOK
<1>5. CASE DoWorkReturns
  BY <1>5, TailType, TimerType DEF TypeOK, DoWorkReturns, InDoWork, TopIn
<1> QED
  BY <1>1, <1>2, <1>3, <1>4, <1>5 DEF SdkClient

LEMMA HandlerType == TypeOK /\ AzureConnectionHandler => TypeOK'
<1> SUFFICES ASSUME TypeOK, AzureConnectionHandler PROVE TypeOK'
  OBVIOUS
<1> USE DEF loopVars, netVars, stateVars, provVars, sdkVars, subVars, coreVars
<1>0. /\ AuthOnEntry \in AuthStates
      /\ DeviceOnEntry \in DeviceStates
      /\ HandlerReturns \/ HandlerWorks =>
            stack' \in Seq(Frame) /\ azureConnectionTimer' \in Timer
  <2>1. Fr("handlerWork", FALSE) \in Frame
    BY FrameType DEF Points, WorkPoints
  <2>2. <<Fr("handlerWork", FALSE)>> \in Seq(Frame)
    BY <2>1, SingletonType
  <2>3. AuthOnEntry \in AuthStates /\ DeviceOnEntry \in DeviceStates
    BY DEF TypeOK, AuthOnEntry, DeviceOnEntry, AuthStates, DeviceStates
  <2>4. /\ Expired(azureConnectionTimer) \in Timer
        /\ dx_timerOneShotSet(Expired(azureConnectionTimer)) \in Timer
    BY TimerType DEF TypeOK
  <2>5. HandlerReturns => stack' \in Seq(Frame) /\ azureConnectionTimer' \in Timer
    BY <2>4 DEF HandlerReturns
  <2>6. HandlerWorks => stack' \in Seq(Frame) /\ azureConnectionTimer' \in Timer
    BY <2>2, <2>4 DEF HandlerWorks
  <2> QED
    BY <2>3, <2>5, <2>6
<1>1. HandlerEntry
  BY DEF AzureConnectionHandler, PollClient, ReenableDevice, SetupAzureClient,
         SetupHostname, SetUpAzureIoTHubClientWithConnectionString, DpsWaits, DpsBegin,
         DpsPoll, DpsConnect, DpsEntry, SetupEntry
<1>2. /\ connection_state' \in BOOLEAN
      /\ network_ready_cached' \in BOOLEAN
      /\ tmr_network_ready_cached' \in Timer
  BY <1>1, NetworkType DEF HandlerEntry
<1>3. CASE PollClient
  BY <1>0, <1>1, <1>2, <1>3 DEF TypeOK, PollClient, HandlerEntry
<1>4. CASE ReenableDevice
  BY <1>0, <1>1, <1>2, <1>4
  DEF TypeOK, ReenableDevice, HandlerEntry, AuthStates, DeviceStates
<1>5. ASSUME NEW t, SetupEntry(t) PROVE link' \in BOOLEAN /\ queued' \in Nat
                                        /\ outstandingMessageCount' \in Int
  <2>1. link' = FALSE /\ queued' = 0 /\ outstandingMessageCount' = outstandingMessageCount - queued
    BY <1>5 DEF SetupEntry, DestroyClient
  <2>2. queued \in Nat /\ outstandingMessageCount \in Int
    BY DEF TypeOK
  <2>3. link' \in BOOLEAN
    BY <2>1, Zenon
  <2> QED
    BY <2>1, <2>2, <2>3
<1>6. NoClient => /\ iothubClientHandle' \in Hubs \cup {NULL}
                  /\ authState' \in AuthStates
                  /\ stack' \in Seq(Frame)
                  /\ azureConnectionTimer' \in Timer
  BY <1>0 DEF NoClient, AuthStates
<1>7. ASSUME NEW h \in Hubs \cup {NULL}, OpenClient(h)
      PROVE  /\ iothubClientHandle' \in Hubs \cup {NULL}
             /\ authState' \in AuthStates
             /\ stack' \in Seq(Frame)
             /\ azureConnectionTimer' \in Timer
  BY <1>0, <1>7 DEF OpenClient, AuthStates
<1>8. CASE SetupHostname
  BY <1>0, <1>1, <1>2, <1>5, <1>6, <1>7, <1>8 DEF TypeOK, SetupHostname, HandlerEntry
<1>9. CASE SetUpAzureIoTHubClientWithConnectionString
  BY <1>0, <1>1, <1>2, <1>5, <1>6, <1>7, <1>9
  DEF TypeOK, SetUpAzureIoTHubClientWithConnectionString, HandlerEntry, DeviceStates
<1>10. CASE DpsWaits
  BY <1>0, <1>1, <1>2, <1>5, <1>6, <1>10 DEF TypeOK, DpsWaits, HandlerEntry
<1>11. ASSUME NEW d \in DeviceStates, NEW p \in BOOLEAN, NEW q \in BOOLEAN,
              Cleanup(d, p, q)
       PROVE  /\ deviceConnectionState' \in DeviceStates
              /\ prov_handle' \in BOOLEAN
              /\ security_init_called' \in BOOLEAN
  BY <1>11 DEF Cleanup
<1>12. CASE DpsBegin
  <2>1. /\ deviceConnectionState' \in DeviceStates
        /\ prov_handle' \in BOOLEAN
        /\ security_init_called' \in BOOLEAN
    BY <1>11, <1>12 DEF TypeOK, DpsBegin, DeviceStates
  <2> QED
    BY <1>1, <1>2, <1>5, <1>6, <1>12, <2>1
    DEF TypeOK, DpsBegin, DpsEntry, HandlerEntry, ResetAttempt, DpsResults
<1>13. CASE DpsPoll
  <2>1. /\ deviceConnectionState' \in DeviceStates
        /\ prov_handle' \in BOOLEAN
        /\ security_init_called' \in BOOLEAN
    BY <1>11, <1>13 DEF TypeOK, DpsPoll, DeviceStates
  <2>2. /\ dpsRegisterStatus' \in DpsResults
        /\ iotHubUri' \in Hubs \cup {NULL}
        /\ assignedHub' \in Hubs \cup {NULL}
    BY <1>13 DEF TypeOK, DpsPoll, RegisterProvisioningDeviceCallback, Assign, DpsResults
  <2> QED
    BY <1>1, <1>2, <1>5, <1>6, <1>13, <2>1, <2>2 DEF TypeOK, DpsPoll, DpsEntry, HandlerEntry
<1>14. CASE DpsConnect
  <2>1. /\ deviceConnectionState' \in DeviceStates
        /\ prov_handle' \in BOOLEAN
        /\ security_init_called' \in BOOLEAN
    BY <1>11, <1>14 DEF TypeOK, DpsConnect, DeviceStates
  <2>2. (IF DeviceOnEntry = "CONNECTED" THEN NULL ELSE iotHubUri) \in Hubs \cup {NULL}
    BY DEF TypeOK
  <2>3. /\ iothubClientHandle' \in Hubs \cup {NULL}
        /\ authState' \in AuthStates
        /\ stack' \in Seq(Frame)
        /\ azureConnectionTimer' \in Timer
    BY <1>6, <1>7, <1>14, <2>2 DEF DpsConnect
  <2> QED
    BY <1>1, <1>2, <1>5, <1>14, <2>1, <2>3 DEF TypeOK, DpsConnect, DpsEntry, HandlerEntry
<1> QED
  BY <1>3, <1>4, <1>8, <1>9, <1>10, <1>12, <1>13, <1>14
  DEF AzureConnectionHandler, SetupAzureClient

\* Every reachable state is well typed.
THEOREM TypeCorrect == Spec => []TypeOK
<1>1. Init => TypeOK
  <2> SUFFICES ASSUME Init PROVE TypeOK
    OBVIOUS
  <2>1. /\ stack \in Seq(Frame)
        /\ connectionStatusCallback \in [Slots -> Subscribers \cup {NULL}]
        /\ told \in [Subscribers -> BOOLEAN \cup {NULL}]
    BY DEF Init
  <2>2. azureConnectionTimer \in Timer /\ tmr_network_ready_cached \in Timer
    BY DEF Init, NewTimer, Timer
  <2>3. /\ connection_initialized \in BOOLEAN
        /\ network_ready_cached \in BOOLEAN
        /\ connection_state \in BOOLEAN
        /\ netUp \in BOOLEAN
        /\ prov_handle \in BOOLEAN
        /\ security_init_called \in BOOLEAN
        /\ link \in BOOLEAN
        /\ previous_connection_state \in BOOLEAN
    BY Zenon DEF Init
  <2>4. /\ provisionCompletedMaxRetry \in Nat
        /\ queued \in Nat
        /\ outstandingMessageCount \in Int
    BY DEF Init
  <2> QED
    BY <2>1, <2>2, <2>3, <2>4, Zenon
    DEF Init, TypeOK, AuthStates, DeviceStates, DpsResults
<1>2. TypeOK /\ [Next]_vars => TypeOK'
  <2> SUFFICES ASSUME TypeOK, [Next]_vars PROVE TypeOK'
    OBVIOUS
  <2>1. CASE UNCHANGED vars
    BY <2>1 DEF TypeOK, vars, loopVars, netVars, stateVars, provVars, sdkVars, subVars,
                coreVars
  <2> QED
    BY <2>1, ApplicationType, LoopType, SdkClientType, HandlerType DEF Next
<1> QED
  BY <1>1, <1>2, PTL DEF Spec

-----------------------------------------------------------------------------
(* The session invariant.  None of its parts is inductive alone: a status   *)
(* callback that resets deviceConnectionState keeps ProvisioningResources   *)
(* because a client that can call back excludes provisioning; set-up keeps  *)
(* SessionHasClient because of ConnectedMeansSession; a check keeps         *)
(* AuthenticatedIsAnnounced because of SessionHasClient; and a message goes *)
(* to a live client because of SendsWhileAuthenticated.                     *)

SessionState == /\ ProvisioningResources
                /\ SessionHasClient
                /\ ConnectedMeansSession
                /\ AuthenticatedIsAnnounced

SessionCore == /\ SessionState
               /\ SendsWhileAuthenticated
               /\ OutstandingIsQueued

SessionInv == SessionCore /\ ConfigurationIsFixed

\* dx_isAzureConnected keeps the session state, called with the current states
\* or, by a status callback of a live client, with new ones.
LEMMA CheckKeepsState ==
    ASSUME TypeOK, SessionState,
           NEW a \in AuthStates, NEW d \in DeviceStates, NEW base \in Seq(Frame),
           dx_isAzureConnected(a, d, base),
           UNCHANGED iothubClientHandle,
           \/ a = authState /\ d = deviceConnectionState
           \/ iothubClientHandle # NULL /\ a = "Authenticated" /\ d = deviceConnectionState
           \/ iothubClientHandle # NULL /\ a # "Authenticated" /\ d = "NOT_CONNECTED"
    PROVE  SessionState'
<1>1. /\ authState' = IF LostNetwork(a) THEN "NotAuthenticated" ELSE a
      /\ deviceConnectionState' = IF LostNetwork(a) THEN "NOT_CONNECTED" ELSE d
      /\ UNCHANGED <<prov_handle, security_init_called>>
  BY DEF dx_isAzureConnected, provVars
<1>2. previous_connection_state' = IsConnected(a)
  BY DEF dx_isAzureConnected, ProcessConnectionStatusCallbacks
<1>3. LostNetwork(a) => a = "Authenticated"
  BY DEF LostNetwork
<1>4. ProvisioningResources'
  BY <1>1, <1>3 DEF SessionState, ProvisioningResources, Provisioning, SessionHasClient,
                    InSession
<1>5. SessionHasClient'
  BY <1>1, <1>3 DEF SessionState, SessionHasClient, InSession
<1>6. ConnectedMeansSession'
  BY <1>1, <1>3 DEF SessionState, ConnectedMeansSession, InSession
<1>7. AuthenticatedIsAnnounced'
  <2> SUFFICES ASSUME authState' = "Authenticated" PROVE previous_connection_state'
    BY DEF AuthenticatedIsAnnounced
  <2>1. a = "Authenticated" /\ NetworkReady
    BY <1>1 DEF LostNetwork
  <2>2. iothubClientHandle # NULL
    BY <2>1 DEF SessionState, SessionHasClient, InSession
  <2> QED
    BY <1>2, <2>1, <2>2 DEF IsConnected
<1> QED
  BY <1>4, <1>5, <1>6, <1>7 DEF SessionState

\* Steps that leave the session's variables alone.
LEMMA SessionStateUnchanged ==
    ASSUME SessionState,
           UNCHANGED <<prov_handle, security_init_called, deviceConnectionState,
                       iothubClientHandle, authState, previous_connection_state>>
    PROVE  SessionState'
  BY DEF SessionState, ProvisioningResources, Provisioning, SessionHasClient, InSession,
         ConnectedMeansSession, AuthenticatedIsAnnounced

\* A stack without a publish that has been told it may send.
Sender(f) == f.pc = "publishCheck" /\ f.arg
NoSender(s) == \A k \in 1 .. Len(s) : ~Sender(s[k])

LEMMA NoSenderPush ==
    ASSUME NEW f \in Frame, ~Sender(f), NEW s \in Seq(Frame), NoSender(s)
    PROVE  NoSender(Push(f, s))
  BY PushType DEF NoSender

LEMMA NoSenderTail ==
    ASSUME TypeOK, SendsWhileAuthenticated, stack # <<>>
    PROVE  NoSender(Tail(stack))
<1>1. stack \in Seq(Frame)
  BY DEF TypeOK
<1>2. /\ Len(Tail(stack)) = Len(stack) - 1
      /\ \A k \in 1 .. Len(Tail(stack)) : Tail(stack)[k] = stack[k + 1]
  BY <1>1, TailType
<1>3. ASSUME NEW k \in 1 .. Len(Tail(stack)) PROVE ~Sender(Tail(stack)[k])
  <2>1. k + 1 \in 1 .. Len(stack) /\ k + 1 # 1
    BY <1>1, <1>2
  <2> QED
    BY <1>2, <2>1 DEF SendsWhileAuthenticated, Sender
<1> QED
  BY <1>3 DEF NoSender

LEMMA NoSenderBelow ==
    ASSUME TypeOK, SendsWhileAuthenticated, stack = <<>> \/ ~Sender(Top)
    PROVE  NoSender(stack)
<1>1. stack \in Seq(Frame)
  BY DEF TypeOK
<1>2. ASSUME NEW k \in 1 .. Len(stack), Sender(stack[k]) PROVE FALSE
  <2>1. k = 1 /\ stack # <<>>
    BY <1>1, <1>2 DEF SendsWhileAuthenticated, Sender
  <2>2. stack[1] = Top
    BY <1>1, <2>1 DEF Top
  <2> QED
    BY <1>2, <2>1, <2>2
<1> QED
  BY <1>2 DEF NoSender

LEMMA NoSenderIsEnough ==
    ASSUME NoSender(stack')
    PROVE  SendsWhileAuthenticated'
  BY DEF NoSender, Sender, SendsWhileAuthenticated

\* A check keeps SendsWhileAuthenticated when no caller below waits to send.
LEMMA CheckKeepsSender ==
    ASSUME NEW a \in AuthStates, NEW d \in DeviceStates, NEW base \in Seq(Frame),
           TypeOK, dx_isAzureConnected(a, d, base), NoSender(base)
    PROVE  SendsWhileAuthenticated'
<1>1. IsConnected(a) \in BOOLEAN
  BY DEF IsConnected
<1>2. Fr("notify", IsConnected(a)) \in Frame /\ ~Sender(Fr("notify", IsConnected(a)))
  BY <1>1, FrameType DEF Sender, Points
<1>3. NoSender(Push(Fr("notify", IsConnected(a)), base))
  BY <1>2, NoSenderPush
<1>4. NoSender(stack')
  BY <1>3 DEF dx_isAzureConnected, ProcessConnectionStatusCallbacks
<1> QED
  BY <1>4, NoSenderIsEnough

LEMMA ApplicationInv == TypeOK /\ SessionCore /\ Application => SessionCore'
<1> SUFFICES ASSUME TypeOK, SessionCore, Application PROVE SessionCore'
  OBVIOUS
<1> USE DEF loopVars, netVars, stateVars, provVars, sdkVars, subVars, coreVars
<1>0. /\ stack \in Seq(Frame)
      /\ authState \in AuthStates
      /\ deviceConnectionState \in DeviceStates
      /\ SessionState
      /\ SendsWhileAuthenticated
      /\ OutstandingIsQueued
      /\ IsConnected(authState) \in BOOLEAN
  BY DEF TypeOK, SessionCore, IsConnected
<1>a. UNCHANGED sdkVars => OutstandingIsQueued'
  BY <1>0 DEF OutstandingIsQueued
<1>b. AppRuns => NoSender(stack)
  BY <1>0, NoSenderBelow DEF AppRuns, TopIn, AppPoints, Sender
<1>1. ASSUME UNCHANGED <<stack, stateVars, provVars, sdkVars>> PROVE SessionCore'
  <2>1. SendsWhileAuthenticated'
    BY <1>0, <1>1 DEF SendsWhileAuthenticated
  <2> QED
    BY <1>0, <1>1, <1>a, <2>1, SessionStateUnchanged DEF SessionCore
<1>2. CASE dx_azureConnect \/ dx_azureToDeviceStop \/ dx_azureRegisterInbound
  BY <1>1, <1>2 DEF dx_azureConnect, dx_azureToDeviceStop, dx_azureRegisterInbound
<1>3. ASSUME NEW s \in Subscribers,
             \/ dx_azureRegisterConnectionChangedNotification(s)
             \/ dx_azureUnregisterConnectionChangedNotification(s)
      PROVE  SessionCore'
  BY <1>1, <1>3 DEF dx_azureRegisterConnectionChangedNotification,
                    dx_azureUnregisterConnectionChangedNotification
<1>4. CASE CheckConnected
  BY <1>0, <1>4, <1>a, <1>b, CheckKeepsState, CheckKeepsSender
  DEF CheckConnected, AppUses, SessionCore
<1>5. CASE PublishCheck
  <2> DEFINE f == Fr("publishCheck", IsConnected(authState))
             b == Push(f, stack)
  <2>1. f \in Frame /\ f.pc = "publishCheck" /\ f.arg = IsConnected(authState)
    BY <1>0, FrameType DEF Points
  <2>2. b \in Seq(Frame)
    BY <1>0, <2>1, PushType
  <2>3. /\ dx_isAzureConnected(authState, deviceConnectionState, b)
        /\ UNCHANGED sdkVars
        /\ NoSender(stack)
    BY <1>5, <1>b DEF PublishCheck, AppUses
  <2> HIDE DEF f, b
  <2>4. SessionState'
    BY <1>0, <2>2, <2>3, CheckKeepsState
  <2>5. CASE ~IsConnected(authState)
    <3>1. NoSender(b)
      BY <1>0, <2>1, <2>3, <2>5, NoSenderPush DEF b, Sender
    <3>2. SendsWhileAuthenticated'
      BY <1>0, <2>2, <2>3, <3>1, CheckKeepsSender
    <3> QED
      BY <1>a, <2>3, <2>4, <3>2 DEF SessionCore
  <2>6. CASE IsConnected(authState)
    <3>1. authState = "Authenticated" /\ NetworkReady /\ previous_connection_state
      BY <1>0, <2>6 DEF IsConnected, SessionState, AuthenticatedIsAnnounced
    <3>2. previous_connection_state = TRUE /\ IsConnected(authState) = TRUE
      BY <2>6, <3>1 DEF TypeOK
    <3>3. stack' = b /\ authState' = "Authenticated"
      BY <2>3, <3>1, <3>2
      DEF dx_isAzureConnected, ProcessConnectionStatusCallbacks, LostNetwork
    <3>4. ASSUME NEW k \in 1 .. Len(b), Sender(b[k]) PROVE k = 1
      BY <1>0, <2>1, <2>3, <3>4, PushType DEF NoSender, b
    <3>5. SendsWhileAuthenticated'
      BY <3>3, <3>4 DEF SendsWhileAuthenticated, Sender
    <3> QED
      BY <1>a, <2>3, <2>4, <3>5 DEF SessionCore
  <2> QED
    BY <2>5, <2>6
<1>6. CASE PublishRefused
  <2>1. stack # <<>> /\ stack' = Tail(stack) /\ UNCHANGED coreVars
    BY <1>6 DEF PublishRefused, TopIn
  <2>2. SendsWhileAuthenticated'
    BY <1>0, <2>1, NoSenderTail, NoSenderIsEnough
  <2> QED
    BY <1>0, <1>a, <2>1, <2>2, SessionStateUnchanged DEF SessionCore
<1>7. ASSUME NEW accepted \in BOOLEAN, NEW ret \in BOOLEAN, PublishSend(accepted, ret)
      PROVE  SessionCore'
  <2> DEFINE f == [Fr("publishWork", ret) EXCEPT !.sent = accepted]
  <2>1. /\ stack # <<>> /\ Sender(Top)
        /\ stack' = Push(f, Tail(stack))
        /\ HandOver(accepted)
        /\ UNCHANGED <<stateVars, provVars, iothubClientHandle>>
    BY <1>7 DEF PublishSend, TopIn, Sender
  <2>2. f \in Frame /\ ~Sender(f)
    BY FrameType DEF Points, WorkPoints, Sender
  <2>3. NoSender(Tail(stack)) /\ Tail(stack) \in Seq(Frame)
    BY <1>0, <2>1, NoSenderTail, TailType
  <2> HIDE DEF f
  <2>4. SendsWhileAuthenticated'
    BY <2>1, <2>2, <2>3, NoSenderPush, NoSenderIsEnough
  <2>5. stack[1] = Top /\ 1 \in 1 .. Len(stack)
    BY <1>0, <2>1 DEF Top
  <2>6. iothubClientHandle # NULL
    BY <1>0, <2>1, <2>5
    DEF SendsWhileAuthenticated, Sender, SessionState, SessionHasClient, InSession
  <2>7. OutstandingIsQueued'
    BY <1>0, <2>1, <2>6 DEF OutstandingIsQueued, HandOver, TypeOK
  <2> QED
    BY <1>0, <2>1, <2>4, <2>7, SessionStateUnchanged DEF SessionCore
<1>8. CASE ReportCheck
  <2> DEFINE b == Push(Fr("reportCheck", IsConnected(authState)), stack)
  <2>0. /\ Fr("reportCheck", IsConnected(authState)) \in Frame
        /\ Fr("reportCheck", IsConnected(authState)).pc = "reportCheck"
    BY <1>0, FrameType DEF Points
  <2>1. ~Sender(Fr("reportCheck", IsConnected(authState)))
    BY <2>0 DEF Sender
  <2>2. /\ dx_isAzureConnected(authState, deviceConnectionState, b)
        /\ UNCHANGED sdkVars
        /\ NoSender(stack)
    BY <1>8, <1>b DEF ReportCheck, AppUses
  <2>3. b \in Seq(Frame) /\ NoSender(b)
    BY <1>0, <2>0, <2>1, <2>2, PushType, NoSenderPush
  <2> QED
    BY <1>0, <1>a, <2>2, <2>3, CheckKeepsState, CheckKeepsSender DEF SessionCore
<1>9. CASE ReportSend
  <2>1. /\ stack # <<>> /\ stack' = Push(Fr("reportWork", Top.arg), Tail(stack))
        /\ UNCHANGED coreVars
    BY <1>9 DEF ReportSend, TopIn
  <2>2. NoSender(Tail(stack)) /\ Tail(stack) \in Seq(Frame) /\ Top.arg \in BOOLEAN
    BY <1>0, <2>1, NoSenderTail, TailType DEF Top, Frame
  <2>3. Fr("reportWork", Top.arg) \in Frame /\ Fr("reportWork", Top.arg).pc = "reportWork"
    BY <2>2, FrameType DEF Points, WorkPoints
  <2>5. ~Sender(Fr("reportWork", Top.arg))
    BY <2>3 DEF Sender
  <2>4. SendsWhileAuthenticated'
    BY <2>1, <2>2, <2>3, <2>5, NoSenderPush, NoSenderIsEnough
  <2> QED
    BY <1>0, <1>a, <2>1, <2>4, SessionStateUnchanged DEF SessionCore
<1> QED
  BY <1>2, <1>3, <1>4, <1>5, <1>6, <1>7, <1>8, <1>9
  DEF Application, dx_azurePublish, PublishContinues, dx_deviceTwinReportValue

LEMMA LoopInv ==
    TypeOK /\ SessionCore /\ (Notifications \/ Environment \/ network_ready_expired_handler)
        => SessionCore'
<1> SUFFICES ASSUME TypeOK, SessionCore,
                    Notifications \/ Environment \/ network_ready_expired_handler
             PROVE  SessionCore'
  OBVIOUS
<1> USE DEF loopVars, netVars, stateVars, provVars, sdkVars, subVars, coreVars
<1>0. /\ stack \in Seq(Frame)
      /\ SessionState
      /\ SendsWhileAuthenticated
      /\ OutstandingIsQueued
  BY DEF TypeOK, SessionCore
<1>1. UNCHANGED <<stateVars, provVars, sdkVars>>
  BY DEF Notifications, NotifyNext, NotifyDone, CallbackReturns, Environment,
         NetworkChanges, Terminate, LoopEnds, network_ready_expired_handler
<1>2. SendsWhileAuthenticated'
  <2>1. CASE NotifyNext
    <3>1. /\ stack # <<>>
          /\ Top \in Frame
          /\ Top.pc = "notify"
          /\ Tail(stack) \in Seq(Frame)
          /\ NoSender(Tail(stack))
      BY <1>0, <2>1, TailType, NoSenderTail DEF NotifyNext, TopIn, Top
    <3>2. PICK i \in SlotsLeft :
            stack' = Push(Fr("subscriber", FALSE),
                          Push([Top EXCEPT !.i = i + 1], Tail(stack)))
      BY <2>1 DEF NotifyNext
    <3>3. i \in Nat
      BY SlotsAssumption DEF SlotsLeft, Slots
    <3> DEFINE g == [Top EXCEPT !.i = i + 1]
               f == Fr("subscriber", FALSE)
    <3>4. g \in Frame /\ g.pc = "notify"
      BY <3>1, <3>3 DEF Frame
    <3>5. f \in Frame /\ f.pc = "subscriber"
      BY FrameType DEF Points, AppPoints
    <3> HIDE DEF f, g
    <3>6. ~Sender(f) /\ ~Sender(g)
      BY <3>4, <3>5 DEF Sender
    <3>7. Push(g, Tail(stack)) \in Seq(Frame) /\ NoSender(Push(g, Tail(stack)))
      BY <3>1, <3>4, <3>6, PushType, NoSenderPush
    <3>8. NoSender(Push(f, Push(g, Tail(stack))))
      BY <3>5, <3>6, <3>7, NoSenderPush
    <3> QED
      BY <3>2, <3>8, NoSenderIsEnough DEF f, g
  <2>2. CASE NotifyDone \/ CallbackReturns
    BY <1>0, <2>2, NoSenderTail, NoSenderIsEnough DEF NotifyDone, CallbackReturns, TopIn
  <2>3. CASE UNCHANGED <<stack, authState>>
    BY <1>0, <2>3 DEF SendsWhileAuthenticated
  <2> QED
    BY <2>1, <2>2, <2>3
    DEF Notifications, Environment, NetworkChanges, Terminate, LoopEnds,
        network_ready_expired_handler
<1> QED
  BY <1>0, <1>1, <1>2, SessionStateUnchanged DEF SessionCore, OutstandingIsQueued

LEMMA SdkClientInv == TypeOK /\ SessionCore /\ SdkClient => SessionCore'
<1> SUFFICES ASSUME TypeOK, SessionCore, SdkClient PROVE SessionCore'
  OBVIOUS
<1> USE DEF loopVars, netVars, stateVars, provVars, sdkVars, subVars, coreVars
<1>0. /\ stack \in Seq(Frame)
      /\ deviceConnectionState \in DeviceStates
      /\ SessionState
      /\ SendsWhileAuthenticated
      /\ OutstandingIsQueued
  BY DEF TypeOK, SessionCore
<1>1. InDoWork
  BY DEF SdkClient, HubAuthenticated, HubUnauthenticated, StatusCallback,
         SendMessageCallback, HubInbound, DoWorkReturns
<1>2. NoSender(stack) /\ stack # <<>>
  BY <1>0, <1>1, NoSenderBelow DEF InDoWork, TopIn, WorkPoints, Sender
<1>3. CASE HubAuthenticated
  <2>1. "Authenticated" \in AuthStates
    BY DEF AuthStates
  <2>2. /\ dx_isAzureConnected("Authenticated", deviceConnectionState, stack)
        /\ iothubClientHandle # NULL
        /\ UNCHANGED <<iothubClientHandle, queued, outstandingMessageCount>>
    BY <1>3 DEF HubAuthenticated, StatusCallback
  <2>3. SessionState'
    BY <1>0, <2>1, <2>2, CheckKeepsState
  <2>4. SendsWhileAuthenticated'
    BY <1>0, <1>2, <2>1, <2>2, CheckKeepsSender
  <2> QED
    BY <1>0, <2>2, <2>3, <2>4 DEF SessionCore, OutstandingIsQueued
<1>4. ASSUME NEW r \in Reasons, HubUnauthenticated(r) PROVE SessionCore'
  <2>1. /\ StateAfter(r) \in AuthStates
        /\ StateAfter(r) # "Authenticated"
        /\ "NOT_CONNECTED" \in DeviceStates
    BY DEF StateAfter, AuthStates, DeviceStates
  <2>2. /\ dx_isAzureConnected(StateAfter(r), "NOT_CONNECTED", stack)
        /\ iothubClientHandle # NULL
        /\ UNCHANGED <<iothubClientHandle, queued, outstandingMessageCount>>
    BY <1>4 DEF HubUnauthenticated, StatusCallback
  <2>3. SessionState'
    BY <1>0, <2>1, <2>2, CheckKeepsState
  <2>4. SendsWhileAuthenticated'
    BY <1>0, <1>2, <2>1, <2>2, CheckKeepsSender
  <2> QED
    BY <1>0, <2>2, <2>3, <2>4 DEF SessionCore, OutstandingIsQueued
<1>5. CASE SendMessageCallback
  <2>1. SendsWhileAuthenticated'
    BY <1>0, <1>5 DEF SendMessageCallback, SendsWhileAuthenticated
  <2>2. OutstandingIsQueued'
    BY <1>0, <1>5 DEF SendMessageCallback, OutstandingIsQueued, TypeOK
  <2>3. SessionState'
    BY <1>0, <1>5, SessionStateUnchanged DEF SendMessageCallback
  <2> QED
    BY <2>1, <2>2, <2>3 DEF SessionCore
<1>6. CASE HubInbound
  <2>1. stack' = Push(Fr("inbound", FALSE), stack) /\ UNCHANGED coreVars
    BY <1>6 DEF HubInbound
  <2>2. Fr("inbound", FALSE) \in Frame /\ Fr("inbound", FALSE).pc = "inbound"
    BY FrameType DEF Points, AppPoints
  <2>3. ~Sender(Fr("inbound", FALSE))
    BY <2>2 DEF Sender
  <2>4. SendsWhileAuthenticated'
    BY <1>0, <1>2, <2>1, <2>2, <2>3, NoSenderPush, NoSenderIsEnough
  <2> QED
    BY <1>0, <2>1, <2>4, SessionStateUnchanged DEF SessionCore, OutstandingIsQueued
<1>7. CASE DoWorkReturns
  <2>1. stack' = Tail(stack) /\ UNCHANGED <<stateVars, provVars, sdkVars>>
    BY <1>7 DEF DoWorkReturns
  <2>2. SendsWhileAuthenticated'
    BY <1>0, <1>2, <2>1, NoSenderTail, NoSenderIsEnough
  <2> QED
    BY <1>0, <2>1, <2>2, SessionStateUnchanged DEF SessionCore, OutstandingIsQueued
<1> QED
  BY <1>3, <1>4, <1>5, <1>6, <1>7 DEF SdkClient

LEMMA HandlerInv == TypeOK /\ SessionInv /\ AzureConnectionHandler => SessionCore'
<1> SUFFICES ASSUME TypeOK, SessionInv, AzureConnectionHandler PROVE SessionCore'
  OBVIOUS
<1> USE DEF loopVars, netVars, stateVars, provVars, sdkVars, subVars, coreVars
<1>0. /\ deviceConnectionState \in DeviceStates
      /\ SessionState
      /\ OutstandingIsQueued
      /\ Provisioning => userConfig = "DPS"
  BY DEF TypeOK, SessionInv, SessionCore, ConfigurationIsFixed
<1>1. UNCHANGED previous_connection_state
  BY DEF AzureConnectionHandler, PollClient, ReenableDevice, SetupAzureClient,
         SetupHostname, SetUpAzureIoTHubClientWithConnectionString, DpsWaits, DpsBegin,
         DpsPoll, DpsConnect, DpsEntry, SetupEntry, HandlerEntry
<1>2. HandlerReturns \/ HandlerWorks => SendsWhileAuthenticated'
  <2>1. ASSUME HandlerReturns PROVE SendsWhileAuthenticated'
    BY <2>1 DEF HandlerReturns, SendsWhileAuthenticated
  <2>2. ASSUME HandlerWorks PROVE SendsWhileAuthenticated'
    <3>0. Fr("handlerWork", FALSE) \in Frame
      BY FrameType DEF Points, WorkPoints
    <3>1. Len(stack') = 1 /\ stack'[1] = Fr("handlerWork", FALSE)
      BY <2>2, <3>0, SingletonType DEF HandlerWorks
    <3>2. Fr("handlerWork", FALSE).pc = "handlerWork"
      BY DEF Fr
    <3>3. ~Sender(stack'[1])
      BY <3>1, <3>2 DEF Sender
    <3>4. ASSUME NEW k \in 1 .. Len(stack') PROVE ~Sender(stack'[k])
      <4>1. k = 1
        BY <3>1
      <4> QED
        BY <3>3, <4>1
    <3>5. NoSender(stack')
      BY <3>4 DEF NoSender
    <3> QED
      BY <3>5, NoSenderIsEnough
  <2> QED
    BY <2>1, <2>2
<1>3. LostNetwork(authState) => authState = "Authenticated"
  BY DEF LostNetwork
<1>4. CASE PollClient
  <2>1. SessionState'
    BY <1>0, <1>1, <1>3, <1>4
    DEF PollClient, AuthOnEntry, DeviceOnEntry, SessionState, ProvisioningResources,
        Provisioning, SessionHasClient, InSession, ConnectedMeansSession,
        AuthenticatedIsAnnounced
  <2> QED
    BY <1>0, <1>2, <1>4, <2>1 DEF PollClient, SessionCore, OutstandingIsQueued
<1>5. CASE ReenableDevice
  <2>1. SessionState'
    BY <1>0, <1>1, <1>3, <1>5
    DEF ReenableDevice, AuthOnEntry, SessionState, ProvisioningResources, Provisioning,
        SessionHasClient, InSession, ConnectedMeansSession, AuthenticatedIsAnnounced
  <2> QED
    BY <1>0, <1>2, <1>5, <2>1 DEF ReenableDevice, SessionCore, OutstandingIsQueued
<1>6. ASSUME NEW t, SetupEntry(t)
      PROVE  /\ OutstandingIsQueued'
             /\ DeviceOnEntry # "CONNECTED"
             /\ DeviceOnEntry \in DeviceStates
             /\ LostNetwork(authState) => ~Provisioning
             /\ DeviceOnEntry \in {"PROVISIONING", "PROVISION_IOT_CLIENT"} <=> Provisioning
  <2>1. AuthOnEntry = "NotAuthenticated" /\ DestroyClient
    BY <1>6 DEF SetupEntry
  <2>2. OutstandingIsQueued'
    BY <1>0, <2>1 DEF OutstandingIsQueued, DestroyClient, TypeOK
  <2>3. DeviceOnEntry # "CONNECTED" /\ DeviceOnEntry \in DeviceStates
    BY <1>0, <2>1
    DEF AuthOnEntry, DeviceOnEntry, SessionState, ConnectedMeansSession, InSession,
        DeviceStates
  <2>4. LostNetwork(authState) => ~Provisioning
    BY <1>0, <1>3 DEF SessionState, ProvisioningResources
  <2>5. DeviceOnEntry \in {"PROVISIONING", "PROVISION_IOT_CLIENT"} <=> Provisioning
    BY <2>4 DEF DeviceOnEntry, Provisioning
  <2> QED
    BY <2>2, <2>3, <2>4, <2>5
<1>7. ASSUME NoClient,
             prov_handle' <=> Provisioning',
             security_init_called' <=> Provisioning',
             deviceConnectionState' # "CONNECTED"
      PROVE  SessionState' /\ SendsWhileAuthenticated'
  BY <1>2, <1>7
  DEF NoClient, SessionState, ProvisioningResources, SessionHasClient, InSession,
      ConnectedMeansSession, AuthenticatedIsAnnounced
<1>8. ASSUME NEW h, h # NULL, OpenClient(h), ~prov_handle', ~security_init_called',
             deviceConnectionState' = "CONNECTED"
      PROVE  SessionState' /\ SendsWhileAuthenticated'
  BY <1>2, <1>8
  DEF OpenClient, SessionState, ProvisioningResources, Provisioning, SessionHasClient,
      InSession, ConnectedMeansSession, AuthenticatedIsAnnounced
<1>9. /\ prov_handle <=> Provisioning
      /\ security_init_called <=> Provisioning
  BY <1>0 DEF SessionState, ProvisioningResources
<1>10. CASE SetupHostname
  <2>1. /\ SetupEntry("HOSTNAME") /\ NoClient
        /\ deviceConnectionState' = DeviceOnEntry
        /\ UNCHANGED <<prov_handle, security_init_called>>
    BY <1>6, <1>10 DEF SetupHostname
  <2> QED
    BY <1>6, <1>7, <1>9, <2>1 DEF SessionCore, Provisioning
<1>11. CASE SetUpAzureIoTHubClientWithConnectionString
  <2>1. /\ SetupEntry("STRING")
        /\ UNCHANGED <<prov_handle, security_init_called>>
    BY <1>11 DEF SetUpAzureIoTHubClientWithConnectionString
  <2>2. ~Provisioning /\ OutstandingIsQueued'
    BY <1>0, <1>6, <2>1 DEF SetupEntry
  <2>3. ~prov_handle' /\ ~security_init_called'
    BY <1>9, <2>1, <2>2
  <2>4. CASE deviceConnectionState' = "CONNECTED" /\ \E h \in Hubs : OpenClient(h)
    <3>1. PICK h \in Hubs : OpenClient(h)
      BY <2>4
    <3> QED
      BY <1>8, <2>2, <2>3, <2>4, <3>1, NullAssumption DEF SessionCore
  <2>5. CASE deviceConnectionState' = "NOT_CONNECTED" /\ NoClient
    BY <1>7, <2>2, <2>3, <2>5 DEF SessionCore, Provisioning
  <2> QED
    BY <1>11, <2>4, <2>5 DEF SetUpAzureIoTHubClientWithConnectionString
<1>12. CASE DpsWaits
  <2>1. /\ SetupEntry("DPS") /\ NoClient
        /\ deviceConnectionState' = DeviceOnEntry
        /\ UNCHANGED <<prov_handle, security_init_called>>
    BY <1>12 DEF DpsWaits
  <2> QED
    BY <1>6, <1>7, <1>9, <2>1 DEF SessionCore, Provisioning
<1>13. ASSUME NEW d \in DeviceStates \ {"NOT_CONNECTED"}, NEW prov, NEW sec,
              Cleanup(d, prov, sec), prov \in BOOLEAN, sec \in BOOLEAN,
              d \in {"PROVISIONING", "PROVISION_IOT_CLIENT"} => prov /\ sec
       PROVE  /\ prov_handle' <=> Provisioning'
              /\ security_init_called' <=> Provisioning'
              /\ deviceConnectionState' = d
  BY <1>13 DEF Cleanup, Provisioning, DeviceStates
<1>14. CASE DpsBegin
  <2>1. SetupEntry("DPS") /\ NoClient
    BY <1>14 DEF DpsBegin, DpsEntry
  <2>2. prov_handle \in BOOLEAN /\ security_init_called \in BOOLEAN
    BY DEF TypeOK
  <2>3. /\ prov_handle' <=> Provisioning'
        /\ security_init_called' <=> Provisioning'
        /\ deviceConnectionState' # "CONNECTED"
    <3>1. ASSUME NEW prov \in BOOLEAN, NEW sec \in BOOLEAN,
                 Cleanup("PROVISIONING_ERROR", prov, sec)
          PROVE  /\ prov_handle' <=> Provisioning'
                 /\ security_init_called' <=> Provisioning'
                 /\ deviceConnectionState' # "CONNECTED"
      BY <1>13, <3>1 DEF DeviceStates
    <3>2. ASSUME Cleanup("PROVISIONING", TRUE, TRUE)
          PROVE  /\ prov_handle' <=> Provisioning'
                 /\ security_init_called' <=> Provisioning'
                 /\ deviceConnectionState' # "CONNECTED"
      BY <1>13, <3>2 DEF DeviceStates, Cleanup, Provisioning
    <3>3. \/ \E prov, sec \in BOOLEAN : Cleanup("PROVISIONING_ERROR", prov, sec)
          \/ Cleanup("PROVISIONING", TRUE, TRUE)
      BY <1>14, <2>2, Zenon DEF DpsBegin
    <3> QED
      BY <3>1, <3>2, <3>3
  <2> QED
    BY <1>6, <1>7, <2>1, <2>3 DEF SessionCore
<1>15. CASE DpsPoll
  <2>1. SetupEntry("DPS") /\ NoClient /\ DeviceOnEntry = "PROVISIONING"
    BY <1>15 DEF DpsPoll, DpsEntry
  <2>2. prov_handle /\ security_init_called /\ OutstandingIsQueued'
    BY <1>6, <1>9, <2>1
  <2>3. prov_handle \in BOOLEAN /\ security_init_called \in BOOLEAN
    BY DEF TypeOK
  <2>4. PICK d \in {"PROVISIONING_ERROR", "PROVISION_IOT_CLIENT", "PROVISIONING"} :
            Cleanup(d, prov_handle, security_init_called)
    BY <1>15 DEF DpsPoll
  <2>5. /\ prov_handle' <=> Provisioning'
        /\ security_init_called' <=> Provisioning'
        /\ deviceConnectionState' # "CONNECTED"
    BY <1>13, <2>2, <2>3, <2>4 DEF DeviceStates
  <2> QED
    BY <1>7, <2>1, <2>2, <2>5 DEF SessionCore
<1>16. CASE DpsConnect
  <2>1. /\ SetupEntry("DPS")
        /\ OutstandingIsQueued'
        /\ DeviceOnEntry = "PROVISION_IOT_CLIENT"
    BY <1>6, <1>16 DEF DpsConnect, DpsEntry
  <2>2. prov_handle \in BOOLEAN /\ security_init_called \in BOOLEAN
    BY DEF TypeOK
  <2>3. ASSUME iotHubUri # NULL, Cleanup("CONNECTED", prov_handle, security_init_called),
               OpenClient(iotHubUri)
        PROVE  SessionCore'
    <3>1. ~prov_handle' /\ ~security_init_called' /\ deviceConnectionState' = "CONNECTED"
      BY <2>3 DEF Cleanup
    <3> QED
      BY <1>8, <2>1, <2>3, <3>1 DEF SessionCore
  <2>4. ASSUME Cleanup("PROVISIONING_ERROR", prov_handle, security_init_called), NoClient
        PROVE  SessionCore'
    <3>1. /\ prov_handle' <=> Provisioning'
          /\ security_init_called' <=> Provisioning'
          /\ deviceConnectionState' # "CONNECTED"
      BY <1>13, <2>2, <2>4 DEF DeviceStates
    <3> QED
      BY <1>7, <2>1, <2>4, <3>1 DEF SessionCore
  <2>5. \/ /\ iotHubUri # NULL
           /\ Cleanup("CONNECTED", prov_handle, security_init_called)
           /\ OpenClient(iotHubUri)
        \/ Cleanup("PROVISIONING_ERROR", prov_handle, security_init_called) /\ NoClient
    BY <1>16, <2>1 DEF DpsConnect
  <2> QED
    BY <2>3, <2>4, <2>5
<1> QED
  BY <1>4, <1>5, <1>10, <1>11, <1>12, <1>14, <1>15, <1>16
  DEF AzureConnectionHandler, SetupAzureClient

\* No step changes the connection type under a started connection.
LEMMA ConfigurationStep == TypeOK /\ SessionInv /\ Next => ConfigurationIsFixed'
<1> SUFFICES ASSUME TypeOK, SessionInv, Next PROVE ConfigurationIsFixed'
  OBVIOUS
<1> USE DEF loopVars, netVars, stateVars, provVars, sdkVars, subVars, coreVars
<1>0. /\ ConfigurationIsFixed
      /\ azureConnectionTimer \in Timer
      /\ ProvisioningResources
  BY DEF TypeOK, SessionInv, SessionCore, SessionState
<1>1. ASSUME UNCHANGED <<loopVars, azureConnectionTimer, deviceConnectionState>>
      PROVE  ConfigurationIsFixed'
  BY <1>0, <1>1 DEF ConfigurationIsFixed, Provisioning
<1>2. ASSUME UNCHANGED <<loopVars, azureConnectionTimer>>,
             deviceConnectionState' \in {deviceConnectionState, "NOT_CONNECTED"}
      PROVE  ConfigurationIsFixed'
  BY <1>0, <1>2 DEF ConfigurationIsFixed, Provisioning
<1>3. ASSUME NEW a, NEW base, dx_isAzureConnected(a, deviceConnectionState, base)
      PROVE  ConfigurationIsFixed'
  BY <1>2, <1>3 DEF dx_isAzureConnected
<1>4. CASE dx_azureConnect
  <2>1. /\ ~connection_initialized /\ UNCHANGED deviceConnectionState
        /\ ~azureConnectionTimer.initialized /\ ~azureConnectionTimer.active
        /\ ~Provisioning
    BY <1>0, <1>4 DEF dx_azureConnect, ConfigurationIsFixed
  <2>2. \/ UNCHANGED azureConnectionTimer
        \/ /\ azureConnectionTimer' = dx_timerStart(azureConnectionTimer, TRUE, FALSE)
           /\ connection_initialized'
    BY <1>4 DEF dx_azureConnect, ConnectRejected, ConnectFails, ConnectStarts
  <2> QED
    BY <2>1, <2>2 DEF ConfigurationIsFixed, Provisioning, dx_timerStart
<1>5. CASE dx_azureToDeviceStop
  BY <1>0, <1>5 DEF dx_azureToDeviceStop, dx_timerStop, ConfigurationIsFixed, Provisioning,
                    Timer
<1>6. CASE CheckConnected \/ PublishCheck \/ ReportCheck \/ HubAuthenticated
  BY <1>3, <1>6 DEF CheckConnected, PublishCheck, ReportCheck, HubAuthenticated,
                    StatusCallback
<1>7. ASSUME NEW r \in Reasons, HubUnauthenticated(r) PROVE ConfigurationIsFixed'
  <2>1. /\ UNCHANGED <<loopVars, azureConnectionTimer>>
        /\ deviceConnectionState' = "NOT_CONNECTED"
    BY <1>7 DEF HubUnauthenticated, StatusCallback, dx_isAzureConnected
  <2> QED
    BY <1>2, <2>1
<1>8. CASE DoWorkReturns
  BY <1>0, <1>8 DEF DoWorkReturns, dx_timerOneShotSet, ConfigurationIsFixed, Provisioning,
                    Timer
<1>9. CASE AzureConnectionHandler
  <2>1. HandlerEntry
    BY <1>9 DEF AzureConnectionHandler, PollClient, ReenableDevice, SetupAzureClient,
         SetupHostname, SetUpAzureIoTHubClientWithConnectionString, DpsWaits, DpsBegin,
         DpsPoll, DpsConnect, DpsEntry, SetupEntry
  <2>2. /\ UNCHANGED loopVars
        /\ azureConnectionTimer.initialized /\ connection_initialized
    BY <1>0, <2>1 DEF HandlerEntry, ConfigurationIsFixed
  <2>3. HandlerReturns \/ HandlerWorks
    BY <1>9 DEF AzureConnectionHandler, PollClient, ReenableDevice, SetupAzureClient,
         SetupHostname, SetUpAzureIoTHubClientWithConnectionString, DpsWaits, DpsBegin,
         DpsPoll, DpsConnect, NoClient, OpenClient
  <2>4. azureConnectionTimer'.initialized
    BY <1>0, <2>2, <2>3 DEF HandlerReturns, HandlerWorks, Expired, dx_timerOneShotSet, Timer
  <2>5. Provisioning' => userConfig = "DPS"
    <3>1. CASE userConfig = "DPS"
      BY <3>1
    <3>2. CASE userConfig # "DPS"
      <4>1. ~Provisioning
        BY <1>0, <3>2 DEF ConfigurationIsFixed
      <4>2. deviceConnectionState' \in {deviceConnectionState, "NOT_CONNECTED", "CONNECTED"}
        BY <1>9, <3>2 DEF AzureConnectionHandler, PollClient, ReenableDevice,
           SetupAzureClient, SetupHostname, SetUpAzureIoTHubClientWithConnectionString,
           DpsWaits, DpsBegin, DpsPoll, DpsConnect, DpsEntry, SetupEntry, DeviceOnEntry
      <4> QED
        BY <4>1, <4>2 DEF Provisioning
    <3> QED
      BY <3>1, <3>2
  <2> QED
    BY <2>2, <2>4, <2>5 DEF ConfigurationIsFixed
<1>10. CASE \/ PublishContinues \/ ReportSend \/ dx_azureRegisterInbound
            \/ \E s \in Subscribers : \/ dx_azureRegisterConnectionChangedNotification(s)
                                       \/ dx_azureUnregisterConnectionChangedNotification(s)
            \/ SendMessageCallback \/ HubInbound \/ Notifications
            \/ network_ready_expired_handler \/ NetworkChanges
  BY <1>1, <1>10
  DEF PublishContinues, PublishRefused, PublishSend, ReportSend, dx_azureRegisterInbound,
      dx_azureRegisterConnectionChangedNotification,
      dx_azureUnregisterConnectionChangedNotification, SendMessageCallback, HubInbound,
      Notifications, NotifyNext, NotifyDone, CallbackReturns,
      network_ready_expired_handler, NetworkChanges
<1>11. CASE Terminate \/ LoopEnds
  BY <1>0, <1>11 DEF Terminate, LoopEnds, ConfigurationIsFixed, Provisioning
<1> QED
  BY <1>4, <1>5, <1>6, <1>7, <1>8, <1>9, <1>10, <1>11
  DEF Next, Application, dx_azurePublish, dx_deviceTwinReportValue, SdkClient, Environment

\* The session invariant holds in every reachable state, whatever callbacks
\* nest in whatever calls and whatever fails.
THEOREM SessionCorrect == Spec => []SessionInv
<1>1. Init => SessionInv
  <2>1. ASSUME Init PROVE SendsWhileAuthenticated
    BY <2>1 DEF Init, SendsWhileAuthenticated
  <2>2. ASSUME Init PROVE SessionState /\ OutstandingIsQueued /\ ConfigurationIsFixed
    BY <2>2 DEF Init, NewTimer, SessionState, ProvisioningResources, Provisioning,
      SessionHasClient, InSession, ConnectedMeansSession, AuthenticatedIsAnnounced,
      OutstandingIsQueued, ConfigurationIsFixed
  <2> QED
    BY <2>1, <2>2 DEF SessionInv, SessionCore
<1>2. TypeOK /\ SessionInv /\ [Next]_vars => SessionInv'
  <2> SUFFICES ASSUME TypeOK, SessionInv, [Next]_vars PROVE SessionInv'
    OBVIOUS
  <2>1. CASE UNCHANGED vars
    <3>1. SessionState'
      BY <2>1, SessionStateUnchanged
      DEF SessionInv, SessionCore, vars, coreVars, stateVars, provVars, sdkVars
    <3>2. SendsWhileAuthenticated' /\ OutstandingIsQueued' /\ ConfigurationIsFixed'
      BY <2>1 DEF SessionInv, SessionCore, SendsWhileAuthenticated, OutstandingIsQueued,
        ConfigurationIsFixed, Provisioning, vars, coreVars, loopVars, stateVars, sdkVars
    <3> QED
      BY <3>1, <3>2 DEF SessionInv, SessionCore
  <2>2. CASE Next
    <3>1. SessionCore'
      BY <2>2, ApplicationInv, LoopInv, SdkClientInv, HandlerInv DEF Next, SessionInv
    <3> QED
      BY <2>2, <3>1, ConfigurationStep DEF SessionInv
  <2> QED
    BY <2>1, <2>2
<1> QED
  BY <1>1, <1>2, TypeCorrect, PTL DEF Spec

\* The DPS client and its security context are never leaked by the places of
\* dx_azure_iot.c that reset deviceConnectionState, and no hub client exists
\* beside them.
THEOREM ProvisioningCorrect == Spec => []ProvisioningResources
  BY SessionCorrect, PTL DEF SessionInv, SessionCore, SessionState

\* AzureConnectionHandler never polls a client that does not exist.
THEOREM SessionClientCorrect == Spec => []SessionHasClient
  BY SessionCorrect, PTL DEF SessionInv, SessionCore, SessionState

\* No set-up starts from CONNECTED, where SetUpAzureIoTHubClientWithDpsPnP would
\* use the handle that SetupAzureClient has destroyed.
THEOREM ConnectedCorrect == Spec => []ConnectedMeansSession
  BY SessionCorrect, PTL DEF SessionInv, SessionCore, SessionState

\* ProcessConnectionStatusCallbacks has announced every authenticated session.
THEOREM AnnouncedCorrect == Spec => []AuthenticatedIsAnnounced
  BY SessionCorrect, PTL DEF SessionInv, SessionCore, SessionState

\* A second dx_azureConnect cannot change the way a client is set up.
THEOREM ConfigurationCorrect == Spec => []ConfigurationIsFixed
  BY SessionCorrect, PTL DEF SessionInv

\* dx_azurePublish sends only while the hub has authenticated the client,
\* whatever callbacks its own connection check ran.
THEOREM PublishCorrect == Spec => []SendsWhileAuthenticated
  BY SessionCorrect, PTL DEF SessionInv, SessionCore

\* outstandingMessageCount counts each message that was handed over down once.
THEOREM OutstandingCorrect == Spec => []OutstandingIsQueued
  BY SessionCorrect, PTL DEF SessionInv, SessionCore

-----------------------------------------------------------------------------
(* The connection timer.  TimerNeverLost is inductive: a push and a pop     *)
(* above the bottom frame keep that frame, and the bottom frame, if it is   *)
(* the handler's, is popped only by the step that sets the timer again.     *)

Bottom(s) == s[Len(s)]

LEMMA BottomPush ==
    ASSUME NEW f \in Frame, NEW s \in Seq(Frame), s # <<>>
    PROVE  Push(f, s) # <<>> /\ Bottom(Push(f, s)) = Bottom(s)
<1>1. /\ Push(f, s) \in Seq(Frame)
      /\ Len(Push(f, s)) = Len(s) + 1
      /\ \A k \in 1 .. Len(s) : Push(f, s)[k + 1] = s[k]
  BY PushType
<1>2. Len(s) \in 1 .. Len(s)
  OBVIOUS
<1> QED
  BY <1>1, <1>2 DEF Bottom

LEMMA BottomTail ==
    ASSUME NEW s \in Seq(Frame), s # <<>>
    PROVE  \/ Tail(s) = <<>> /\ Bottom(s) = Head(s)
           \/ Tail(s) # <<>> /\ Bottom(Tail(s)) = Bottom(s)
<1>1. /\ Tail(s) \in Seq(Frame)
      /\ Len(Tail(s)) = Len(s) - 1
      /\ \A k \in 1 .. Len(Tail(s)) : Tail(s)[k] = s[k + 1]
  BY TailType
<1>2. Head(s) = s[1] /\ Len(s) \in Nat \ {0}
  OBVIOUS
<1>3. CASE Len(s) = 1
  <2>1. Tail(s) = <<>>
    <3>1. Len(Tail(s)) \notin Nat \ {0}
      BY <1>1, <1>3
    <3> QED
      BY <1>1, <3>1, EmptySeq
  <2>2. Bottom(s) = Head(s)
    BY <1>2, <1>3 DEF Bottom
  <2> QED
    BY <2>1, <2>2
<1>4. CASE Len(s) # 1
  <2>1. Len(Tail(s)) \in 1 .. Len(Tail(s)) /\ Len(Tail(s)) + 1 = Len(s)
    BY <1>1, <1>2, <1>4
  <2>2. Tail(s) # <<>>
    <3>1. Len(Tail(s)) # 0
      BY <1>1, <1>2, <1>4
    <3> QED
      BY <3>1, EmptySeq
  <2> QED
    BY <1>1, <2>1, <2>2 DEF Bottom
<1> QED
  BY <1>3, <1>4

\* If the handler is at the bottom of s, it is at the bottom of t.
HandlerAtBottom(s) == s # <<>> /\ Bottom(s).pc = "handlerWork"
Keeps(s, t) == HandlerAtBottom(s) => HandlerAtBottom(t)

LEMMA KeepsPush ==
    ASSUME NEW f \in Frame, NEW s \in Seq(Frame)
    PROVE  Keeps(s, Push(f, s))
  BY BottomPush DEF Keeps, HandlerAtBottom

LEMMA KeepsTail ==
    ASSUME NEW s \in Seq(Frame), s # <<>>, Head(s).pc # "handlerWork"
    PROVE  Keeps(s, Tail(s))
  BY BottomTail DEF Keeps, HandlerAtBottom

\* A step that leaves the timer alone and keeps the bottom of the stack.
LEMMA TimerKept ==
    ASSUME TimerNeverLost, UNCHANGED azureConnectionTimer, Keeps(stack, stack')
    PROVE  TimerNeverLost'
  BY DEF TimerNeverLost, Keeps, HandlerAtBottom, Bottom

\* dx_isAzureConnected at most pushes a frame on those of its callers.
LEMMA CheckKeepsTimer ==
    ASSUME TypeOK, TimerNeverLost,
           NEW a \in AuthStates, NEW d, NEW base \in Seq(Frame),
           dx_isAzureConnected(a, d, base), Keeps(stack, base)
    PROVE  TimerNeverLost'
<1>1. Fr("notify", IsConnected(a)) \in Frame
  BY FrameType DEF Points, IsConnected
<1>2. Keeps(base, Push(Fr("notify", IsConnected(a)), base))
  BY <1>1, KeepsPush
<1>3. Keeps(stack, stack') /\ UNCHANGED azureConnectionTimer
  BY <1>2 DEF dx_isAzureConnected, ProcessConnectionStatusCallbacks, Keeps
<1> QED
  BY <1>3, TimerKept

LEMMA TimerStep == TypeOK /\ TimerNeverLost /\ Next => TimerNeverLost'
<1> SUFFICES ASSUME TypeOK, TimerNeverLost, Next PROVE TimerNeverLost'
  OBVIOUS
<1> USE DEF loopVars, netVars, stateVars, provVars, sdkVars, subVars, coreVars
<1>0. /\ stack \in Seq(Frame)
      /\ azureConnectionTimer \in Timer
      /\ authState \in AuthStates
      /\ IsConnected(authState) \in BOOLEAN
      /\ Keeps(stack, stack)
  BY DEF TypeOK, IsConnected, Keeps
<1>1. ASSUME UNCHANGED <<stack, azureConnectionTimer>> PROVE TimerNeverLost'
  BY <1>0, <1>1, TimerKept
<1>2. CASE dx_azureConnect
  <2>1. /\ UNCHANGED stack
        /\ \/ UNCHANGED azureConnectionTimer
           \/ azureConnectionTimer' = dx_timerStart(azureConnectionTimer, TRUE, FALSE)
    BY <1>2 DEF dx_azureConnect, ConnectRejected, ConnectFails, ConnectStarts
  <2>2. \/ UNCHANGED azureConnectionTimer
        \/ azureConnectionTimer' = [initialized |-> TRUE, active |-> TRUE, repeat |-> FALSE]
    BY <2>1 DEF dx_timerStart
  <2> QED
    BY <1>1, <2>1, <2>2 DEF TimerNeverLost
<1>3. CASE dx_azureToDeviceStop
  BY <1>0, <1>3 DEF dx_azureToDeviceStop, dx_timerStop, TimerNeverLost, Timer
<1>4. CASE CheckConnected
  BY <1>0, <1>4, CheckKeepsTimer DEF CheckConnected
<1>5. ASSUME NEW p \in Points,
             dx_isAzureConnected(authState, deviceConnectionState,
                                 Push(Fr(p, IsConnected(authState)), stack))
      PROVE  TimerNeverLost'
  <2>1. Fr(p, IsConnected(authState)) \in Frame
    BY <1>0, FrameType
  <2> DEFINE b == Push(Fr(p, IsConnected(authState)), stack)
  <2>2. b \in Seq(Frame) /\ Keeps(stack, b)
    BY <1>0, <2>1, PushType, KeepsPush
  <2> HIDE DEF b
  <2>3. dx_isAzureConnected(authState, deviceConnectionState, b)
    BY <1>5 DEF b
  <2> QED
    BY <1>0, <2>2, <2>3, CheckKeepsTimer
<1>6. CASE PublishCheck
  BY <1>5, <1>6 DEF PublishCheck, Points
<1>7. CASE ReportCheck
  BY <1>5, <1>7 DEF ReportCheck, Points
<1>8. ASSUME stack # <<>>, Top.pc # "handlerWork", UNCHANGED azureConnectionTimer,
             \/ stack' = Tail(stack)
             \/ \E f \in Frame : stack' = Push(f, Tail(stack))
             \/ \E f, g \in Frame : stack' = Push(f, Push(g, Tail(stack)))
      PROVE  TimerNeverLost'
  <2>1. Keeps(stack, Tail(stack)) /\ Tail(stack) \in Seq(Frame)
    BY <1>0, <1>8, KeepsTail, TailType DEF Top
  <2>2. ASSUME NEW f \in Frame
        PROVE  Keeps(stack, Push(f, Tail(stack))) /\ Push(f, Tail(stack)) \in Seq(Frame)
    BY <2>1, KeepsPush, PushType DEF Keeps
  <2>3. ASSUME NEW f \in Frame, NEW g \in Frame
        PROVE  Keeps(stack, Push(f, Push(g, Tail(stack))))
    BY <2>2, KeepsPush DEF Keeps
  <2> QED
    BY <1>8, <2>1, <2>2, <2>3, TimerKept
<1>9. CASE PublishRefused \/ NotifyDone \/ CallbackReturns
  BY <1>8, <1>9 DEF PublishRefused, NotifyDone, CallbackReturns, TopIn, AppPoints
<1>10. ASSUME NEW accepted \in BOOLEAN, NEW ret \in BOOLEAN, PublishSend(accepted, ret)
       PROVE  TimerNeverLost'
  <2>1. [Fr("publishWork", ret) EXCEPT !.sent = accepted] \in Frame
    BY FrameType DEF Points, WorkPoints
  <2>2. /\ stack # <<>> /\ Top.pc = "publishCheck" /\ UNCHANGED azureConnectionTimer
        /\ stack' = Push([Fr("publishWork", ret) EXCEPT !.sent = accepted], Tail(stack))
    BY <1>10 DEF PublishSend, TopIn
  <2> QED
    BY <1>8, <2>1, <2>2
<1>11. CASE ReportSend
  <2>1. /\ stack # <<>> /\ Top.pc = "reportCheck" /\ UNCHANGED azureConnectionTimer
        /\ stack' = Push(Fr("reportWork", Top.arg), Tail(stack))
    BY <1>11 DEF ReportSend, TopIn
  <2>2. Top.arg \in BOOLEAN
    BY <1>0, <2>1, TailType DEF Top, Frame
  <2>3. Fr("reportWork", Top.arg) \in Frame
    BY <2>2, FrameType DEF Points, WorkPoints
  <2> QED
    BY <1>8, <2>1, <2>3
<1>12. CASE NotifyNext
  <2>1. stack # <<>> /\ Top.pc = "notify" /\ Top \in Frame /\ UNCHANGED azureConnectionTimer
    BY <1>0, <1>12, TailType DEF NotifyNext, TopIn, Top
  <2>2. PICK i \in SlotsLeft :
            stack' = Push(Fr("subscriber", FALSE),
                          Push([Top EXCEPT !.i = i + 1], Tail(stack)))
    BY <1>12 DEF NotifyNext
  <2>3. i \in Nat
    BY SlotsAssumption DEF SlotsLeft, Slots
  <2>4. [Top EXCEPT !.i = i + 1] \in Frame
    BY <2>1, <2>3 DEF Frame
  <2>5. Fr("subscriber", FALSE) \in Frame
    BY FrameType DEF Points, AppPoints
  <2> QED
    BY <1>8, <2>1, <2>2, <2>4, <2>5
<1>13. CASE HubAuthenticated
  <2>1. dx_isAzureConnected("Authenticated", deviceConnectionState, stack)
    BY <1>13 DEF HubAuthenticated, StatusCallback
  <2>2. "Authenticated" \in AuthStates
    BY DEF AuthStates
  <2> QED
    BY <1>0, <2>1, <2>2, CheckKeepsTimer
<1>14. ASSUME NEW r \in Reasons, HubUnauthenticated(r) PROVE TimerNeverLost'
  <2>1. dx_isAzureConnected(StateAfter(r), "NOT_CONNECTED", stack)
    BY <1>14 DEF HubUnauthenticated, StatusCallback
  <2>2. StateAfter(r) \in AuthStates
    BY DEF AuthStates, StateAfter
  <2> QED
    BY <1>0, <2>1, <2>2, CheckKeepsTimer
<1>15. CASE HubInbound
  <2>1. Fr("inbound", FALSE) \in Frame
    BY FrameType DEF Points, AppPoints
  <2>2. Keeps(stack, Push(Fr("inbound", FALSE), stack))
    BY <1>0, <2>1, KeepsPush
  <2> QED
    BY <1>15, <2>2, TimerKept DEF HubInbound
<1>16. CASE DoWorkReturns
  <2>1. stack # <<>> /\ stack' = Tail(stack)
    BY <1>16 DEF DoWorkReturns, InDoWork, TopIn
  <2>2. CASE Top.pc = "handlerWork"
    BY <1>0, <1>16, <2>2 DEF DoWorkReturns, dx_timerOneShotSet, TimerNeverLost, Timer
  <2>3. CASE Top.pc # "handlerWork"
    <3>1. UNCHANGED azureConnectionTimer
      BY <1>16, <2>3 DEF DoWorkReturns
    <3> QED
      BY <1>8, <2>1, <2>3, <3>1
  <2> QED
    BY <2>2, <2>3
<1>17. CASE AzureConnectionHandler
  <2>1. HandlerReturns \/ HandlerWorks
    BY <1>17 DEF AzureConnectionHandler, PollClient, ReenableDevice, SetupAzureClient,
         SetupHostname, SetUpAzureIoTHubClientWithConnectionString, DpsWaits, DpsBegin,
         DpsPoll, DpsConnect, NoClient, OpenClient
  <2>2. CASE HandlerReturns
    BY <1>0, <2>2 DEF HandlerReturns, dx_timerOneShotSet, Expired, TimerNeverLost, Timer
  <2>3. CASE HandlerWorks
    <3>1. Fr("handlerWork", FALSE) \in Frame /\ Fr("handlerWork", FALSE).pc = "handlerWork"
      BY FrameType DEF Points, WorkPoints
    <3>2. stack' # <<>> /\ stack'[Len(stack')].pc = "handlerWork"
      BY <2>3, <3>1, SingletonType DEF HandlerWorks
    <3> QED
      BY <3>2 DEF TimerNeverLost
  <2> QED
    BY <2>1, <2>2, <2>3
<1>18. CASE \/ dx_azureRegisterInbound
            \/ \E s \in Subscribers : \/ dx_azureRegisterConnectionChangedNotification(s)
                                       \/ dx_azureUnregisterConnectionChangedNotification(s)
            \/ SendMessageCallback \/ network_ready_expired_handler \/ Environment
  BY <1>1, <1>18
  DEF dx_azureRegisterInbound, dx_azureRegisterConnectionChangedNotification,
      dx_azureUnregisterConnectionChangedNotification, SendMessageCallback,
      network_ready_expired_handler, Environment, NetworkChanges, Terminate, LoopEnds
<1> QED
  BY <1>2, <1>3, <1>4, <1>6, <1>7, <1>9, <1>10, <1>11, <1>12, <1>13, <1>14, <1>15, <1>16,
     <1>17, <1>18
  DEF Next, Application, dx_azurePublish, PublishContinues, dx_deviceTwinReportValue,
      SdkClient, Notifications

\* Until dx_azureToDeviceStop, the one-shot connection timer is set or its
\* handler is running and will set it again: no path through
\* AzureConnectionHandler, and no call from a callback, ends the polling.
THEOREM TimerCorrect == Spec => []TimerNeverLost
<1>1. Init => TimerNeverLost
  BY DEF Init, NewTimer, TimerNeverLost
<1>2. TypeOK /\ TimerNeverLost /\ [Next]_vars => TimerNeverLost'
  <2> SUFFICES ASSUME TypeOK, TimerNeverLost, [Next]_vars PROVE TimerNeverLost'
    OBVIOUS
  <2>1. CASE UNCHANGED vars
    BY <2>1 DEF TimerNeverLost, vars, coreVars
  <2> QED
    BY <2>1, TimerStep
<1> QED
  BY <1>1, <1>2, TypeCorrect, PTL DEF Spec

-----------------------------------------------------------------------------
(* The hub of the client.  The address that RegisterProvisioningDevice-     *)
(* Callback leaves behind is the assigned one or none, and the type of a    *)
(* connection that has a client can no longer change.                       *)

HubInv ==
    /\ iotHubUri \in {NULL, assignedHub}
    /\ iothubClientHandle # NULL => connection_initialized
    /\ HubIsAssigned

\* The handler polls, gives up a disabled device, or sets up a client: then no
\* device is CONNECTED, and the messages of the old client are accounted for.
LEMMA HandlerStep ==
    ASSUME TypeOK, SessionInv, AzureConnectionHandler
    PROVE  /\ connection_initialized
           /\ UNCHANGED <<userConfig, connection_initialized>>
           /\ \/ PollClient \/ ReenableDevice
              \/ /\ SetupAzureClient
                 /\ DeviceOnEntry # "CONNECTED"
                 /\ \/ DeviceOnEntry = deviceConnectionState
                    \/ DeviceOnEntry = "NOT_CONNECTED" /\ ~Provisioning
                 /\ outstandingMessageCount' = 0
<1>1. HandlerEntry
  BY DEF AzureConnectionHandler, PollClient, ReenableDevice, SetupAzureClient,
       SetupHostname, SetUpAzureIoTHubClientWithConnectionString, DpsWaits, DpsBegin,
       DpsPoll, DpsConnect, DpsEntry, SetupEntry
<1>2. connection_initialized /\ UNCHANGED <<userConfig, connection_initialized>>
  BY <1>1 DEF HandlerEntry, SessionInv, ConfigurationIsFixed, loopVars
<1>3. ASSUME SetupAzureClient
      PROVE  /\ AuthOnEntry = "NotAuthenticated"
             /\ outstandingMessageCount' = outstandingMessageCount - queued
  BY <1>3 DEF SetupAzureClient, SetupHostname, SetUpAzureIoTHubClientWithConnectionString,
       DpsWaits, DpsBegin, DpsPoll, DpsConnect, DpsEntry, SetupEntry, DestroyClient
<1>4. ASSUME SetupAzureClient
      PROVE  /\ DeviceOnEntry # "CONNECTED"
             /\ \/ DeviceOnEntry = deviceConnectionState
                \/ DeviceOnEntry = "NOT_CONNECTED" /\ ~Provisioning
  <2>1. CASE LostNetwork(authState)
    BY <2>1 DEF DeviceOnEntry, LostNetwork, SessionInv, SessionCore, SessionState,
         ProvisioningResources
  <2>2. CASE ~LostNetwork(authState)
    BY <1>3, <1>4, <2>2 DEF DeviceOnEntry, AuthOnEntry, InSession, SessionInv, SessionCore,
         SessionState, ConnectedMeansSession
  <2> QED
    BY <2>1, <2>2
<1>5. ASSUME SetupAzureClient PROVE outstandingMessageCount' = 0
  BY <1>3, <1>5 DEF SessionInv, SessionCore, OutstandingIsQueued, TypeOK
<1> QED
  BY <1>2, <1>4, <1>5 DEF AzureConnectionHandler

\* Every other step leaves the client and the registration alone.
LEMMA OtherStep ==
    ASSUME Next, ~AzureConnectionHandler
    PROVE  UNCHANGED <<iothubClientHandle, iotHubUri, assignedHub>>
<1> USE DEF loopVars, netVars, stateVars, provVars, sdkVars, subVars, coreVars
<1>1. CASE Application
  BY <1>1 DEF Application, dx_azureConnect, dx_azureToDeviceStop, CheckConnected,
    dx_azurePublish, PublishCheck, PublishContinues, PublishRefused, PublishSend,
    dx_deviceTwinReportValue, ReportCheck, ReportSend,
    dx_azureRegisterConnectionChangedNotification,
    dx_azureUnregisterConnectionChangedNotification, dx_azureRegisterInbound,
    dx_isAzureConnected
<1>2. CASE SdkClient
  BY <1>2 DEF SdkClient, HubAuthenticated, HubUnauthenticated, StatusCallback,
    dx_isAzureConnected, SendMessageCallback, HubInbound, DoWorkReturns
<1>3. CASE network_ready_expired_handler \/ Notifications \/ Environment
  BY <1>3 DEF network_ready_expired_handler, Notifications, NotifyNext, NotifyDone,
    CallbackReturns, Environment, NetworkChanges, Terminate, LoopEnds
<1> QED
  BY <1>1, <1>2, <1>3 DEF Next

\* Only dx_azureConnect configures, and only before a connection is started.
LEMMA ConfigurationKept ==
    ASSUME Next, ~AzureConnectionHandler, ~dx_azureConnect
    PROVE  UNCHANGED <<userConfig, connection_initialized>>
<1> USE DEF loopVars, netVars, stateVars, provVars, sdkVars, subVars, coreVars
<1>1. CASE Application
  BY <1>1 DEF Application, dx_azureToDeviceStop, CheckConnected,
    dx_azurePublish, PublishCheck, PublishContinues, PublishRefused, PublishSend,
    dx_deviceTwinReportValue, ReportCheck, ReportSend,
    dx_azureRegisterConnectionChangedNotification,
    dx_azureUnregisterConnectionChangedNotification, dx_azureRegisterInbound,
    dx_isAzureConnected
<1>2. CASE SdkClient
  BY <1>2 DEF SdkClient, HubAuthenticated, HubUnauthenticated, StatusCallback,
    dx_isAzureConnected, SendMessageCallback, HubInbound, DoWorkReturns
<1>3. CASE network_ready_expired_handler \/ Notifications \/ Environment
  BY <1>3 DEF network_ready_expired_handler, Notifications, NotifyNext, NotifyDone,
    CallbackReturns, Environment, NetworkChanges, Terminate, LoopEnds
<1> QED
  BY <1>1, <1>2, <1>3 DEF Next

LEMMA HubStep == TypeOK /\ SessionInv /\ HubInv /\ Next => HubInv'
<1> SUFFICES ASSUME TypeOK, SessionInv, HubInv, Next PROVE HubInv'
  OBVIOUS
<1>1. CASE dx_azureConnect /\ ~AzureConnectionHandler
  <2>1. ~connection_initialized /\ UNCHANGED <<iothubClientHandle, iotHubUri, assignedHub>>
    BY <1>1, OtherStep DEF dx_azureConnect
  <2> QED
    BY <2>1 DEF HubInv, HubIsAssigned
<1>2. CASE ~dx_azureConnect /\ ~AzureConnectionHandler
  BY <1>2, OtherStep, ConfigurationKept DEF HubInv, HubIsAssigned
<1>3. CASE AzureConnectionHandler
  <2>1. connection_initialized' /\ UNCHANGED userConfig
    BY <1>3, HandlerStep
  <2>2. CASE PollClient \/ ReenableDevice
    BY <2>1, <2>2 DEF PollClient, ReenableDevice, provVars, sdkVars, HubInv, HubIsAssigned
  <2>3. CASE SetupHostname \/ SetUpAzureIoTHubClientWithConnectionString
    <3>1. userConfig # "DPS" /\ UNCHANGED <<iotHubUri, assignedHub>>
      BY <2>3 DEF SetupHostname, SetUpAzureIoTHubClientWithConnectionString, SetupEntry,
        provVars
    <3> QED
      BY <2>1, <3>1 DEF HubInv, HubIsAssigned
  <2>4. CASE DpsWaits \/ DpsBegin
    <3>1. iothubClientHandle' = NULL /\ UNCHANGED <<iotHubUri, assignedHub>>
      BY <2>4 DEF DpsWaits, DpsBegin, NoClient, provVars
    <3> QED
      BY <3>1 DEF HubInv, HubIsAssigned
  <2>5. CASE DpsPoll
    <3>1. iothubClientHandle' = NULL
      BY <2>5 DEF DpsPoll, NoClient
    <3>2. iotHubUri' \in {NULL, assignedHub'}
      BY <2>5 DEF DpsPoll, RegisterProvisioningDeviceCallback, Assign, HubInv
    <3> QED
      BY <3>1, <3>2 DEF HubInv, HubIsAssigned
  <2>6. CASE DpsConnect
    <3>1. /\ iothubClientHandle' \in {NULL, iotHubUri}
          /\ UNCHANGED <<iotHubUri, assignedHub>>
      BY <2>6 DEF DpsConnect, OpenClient, NoClient
    <3> QED
      BY <2>1, <3>1 DEF HubInv, HubIsAssigned
  <2> QED
    BY <1>3, <2>2, <2>3, <2>4, <2>5, <2>6 DEF AzureConnectionHandler, SetupAzureClient
<1> QED
  BY <1>1, <1>2, <1>3

\* iotHubUri is the address DPS assigned last or none, and a client that exists was
\* made after dx_azureConnect fixed the type of the connection.
THEOREM HubCorrect == Spec => []HubInv
<1>1. Init => HubInv
  BY DEF Init, HubInv, HubIsAssigned
<1>2. TypeOK /\ SessionInv /\ HubInv /\ [Next]_vars => HubInv'
  <2>1. ASSUME HubInv, UNCHANGED vars PROVE HubInv'
    BY <2>1 DEF HubInv, HubIsAssigned, vars, coreVars, loopVars, provVars, sdkVars
  <2> QED
    BY <2>1, HubStep
<1> QED
  BY <1>1, <1>2, TypeCorrect, SessionCorrect, PTL DEF Spec

\* A device provisioned by DPS is never connected to the hub of an earlier
\* assignment: RegisterProvisioningDeviceCallback frees the old address before
\* it copies the new one, and no second dx_azureConnect changes the type under
\* a client.
THEOREM HubIsAssignedCorrect == Spec => []HubIsAssigned
  BY HubCorrect, PTL DEF HubInv

-----------------------------------------------------------------------------
(* The connection layer implements Session: every step is a step of Session *)
(* or leaves its variables alone.                                           *)

\* What the refinement mapping looks at.
LEMMA SessionStutters ==
    ASSUME UNCHANGED <<userConfig, iothubClientHandle, outstandingMessageCount>>,
           iothubClientHandle # NULL \/ Provisioning' = Provisioning
    PROVE  UNCHANGED S!vars
  BY DEF S!vars, sessionPhase

\* A check of the connection resets deviceConnectionState only in a session.
LEMMA CheckStutters ==
    ASSUME TypeOK, SessionInv, NEW base,
           \/ dx_isAzureConnected(authState, deviceConnectionState, base)
           \/ iothubClientHandle # NULL /\ \E a, d : dx_isAzureConnected(a, d, base),
           UNCHANGED <<iothubClientHandle, outstandingMessageCount>>
    PROVE  UNCHANGED S!vars
<1>1. UNCHANGED userConfig
  BY DEF dx_isAzureConnected, loopVars
<1>2. CASE iothubClientHandle # NULL
  BY <1>1, <1>2, SessionStutters
<1>3. CASE iothubClientHandle = NULL
  <2>1. UNCHANGED deviceConnectionState
    BY <1>3 DEF dx_isAzureConnected, LostNetwork, SessionInv, SessionCore, SessionState,
      SessionHasClient, InSession
  <2> QED
    BY <1>1, <2>1, SessionStutters DEF Provisioning
<1> QED
  BY <1>2, <1>3

LEMMA ApplicationSimulation ==
    ASSUME TypeOK, SessionInv, HubInv, Application
    PROVE  [S!Next]_(S!vars)
<1> USE DEF loopVars, netVars, stateVars, provVars, sdkVars, subVars, coreVars
<1>1. CASE dx_azureConnect
  <2>1. /\ ~connection_initialized
        /\ UNCHANGED <<iothubClientHandle, outstandingMessageCount, deviceConnectionState>>
    BY <1>1 DEF dx_azureConnect
  <2>2. ~Provisioning /\ ~Provisioning'
    BY <2>1 DEF SessionInv, ConfigurationIsFixed, Provisioning
  <2>3. iothubClientHandle = NULL
    BY <2>1 DEF HubInv
  <2> QED
    BY <2>1, <2>2, <2>3 DEF S!Next, S!Configure, sessionPhase
<1>2. CASE CheckConnected \/ PublishCheck \/ ReportCheck
  BY <1>2, CheckStutters DEF CheckConnected, PublishCheck, ReportCheck
<1>3. ASSUME NEW accepted \in BOOLEAN, NEW ret \in BOOLEAN, PublishSend(accepted, ret)
      PROVE  [S!Next]_(S!vars)
  <2>1. /\ UNCHANGED <<userConfig, iothubClientHandle, deviceConnectionState>>
        /\ TopIn({"publishCheck"}) /\ Top.arg
        /\ outstandingMessageCount' = IF accepted THEN outstandingMessageCount + 1
                                                  ELSE outstandingMessageCount
    BY <1>3 DEF PublishSend, HandOver
  <2>2. 1 \in 1 .. Len(stack) /\ stack[1] = Top
    BY <2>1 DEF TopIn, Top, TypeOK
  <2>3. authState = "Authenticated"
    BY <2>1, <2>2 DEF SessionInv, SessionCore, SendsWhileAuthenticated, TopIn
  <2>4. iothubClientHandle # NULL
    BY <2>3 DEF SessionInv, SessionCore, SessionState, SessionHasClient, InSession
  <2>5. CASE accepted
    BY <2>1, <2>4, <2>5 DEF S!Next, S!Accept, sessionPhase
  <2>6. CASE ~accepted
    BY <2>1, <2>4, <2>6, SessionStutters
  <2> QED
    BY <2>5, <2>6
<1>4. CASE \/ dx_azureToDeviceStop \/ PublishRefused \/ ReportSend \/ dx_azureRegisterInbound
           \/ \E s \in Subscribers : \/ dx_azureRegisterConnectionChangedNotification(s)
                                     \/ dx_azureUnregisterConnectionChangedNotification(s)
  <2>1. UNCHANGED <<userConfig, iothubClientHandle, outstandingMessageCount,
                    deviceConnectionState>>
    BY <1>4 DEF dx_azureToDeviceStop, PublishRefused, ReportSend, dx_azureRegisterInbound,
      dx_azureRegisterConnectionChangedNotification,
      dx_azureUnregisterConnectionChangedNotification
  <2> QED
    BY <2>1, SessionStutters DEF Provisioning
<1> QED
  BY <1>1, <1>2, <1>3, <1>4
  DEF Application, dx_azurePublish, PublishContinues, dx_deviceTwinReportValue

LEMMA LoopSimulation ==
    ASSUME TypeOK, SessionInv,
           SdkClient \/ network_ready_expired_handler \/ Notifications \/ Environment
    PROVE  [S!Next]_(S!vars)
<1> USE DEF loopVars, netVars, stateVars, provVars, sdkVars, subVars, coreVars
<1>1. CASE HubAuthenticated \/ \E r \in Reasons : HubUnauthenticated(r)
  <2>1. /\ iothubClientHandle # NULL
        /\ UNCHANGED <<userConfig, iothubClientHandle, outstandingMessageCount>>
    BY <1>1 DEF HubAuthenticated, HubUnauthenticated, StatusCallback, dx_isAzureConnected
  <2> QED
    BY <2>1, SessionStutters
<1>2. CASE SendMessageCallback
  <2>1. /\ UNCHANGED <<userConfig, iothubClientHandle, deviceConnectionState>>
        /\ queued > 0
        /\ outstandingMessageCount' = outstandingMessageCount - 1
    BY <1>2 DEF SendMessageCallback
  <2>2. iothubClientHandle # NULL /\ outstandingMessageCount > 0
    BY <2>1 DEF SessionInv, SessionCore, OutstandingIsQueued
  <2> QED
    BY <2>1, <2>2 DEF S!Next, S!Confirm, sessionPhase
<1>3. CASE \/ HubInbound \/ DoWorkReturns \/ network_ready_expired_handler
           \/ Notifications \/ Environment
  <2>1. UNCHANGED <<userConfig, iothubClientHandle, outstandingMessageCount,
                    deviceConnectionState>>
    BY <1>3 DEF HubInbound, DoWorkReturns, network_ready_expired_handler, Notifications,
      NotifyNext, NotifyDone, CallbackReturns, Environment, NetworkChanges, Terminate,
      LoopEnds
  <2> QED
    BY <2>1, SessionStutters DEF Provisioning
<1> QED
  BY <1>1, <1>2, <1>3 DEF SdkClient

\* A set-up ends what there was, with all its messages accounted for, and ends
\* in another phase or in the same one without a client.
LEMMA SetupSimulation ==
    ASSUME TypeOK, SessionInv, AzureConnectionHandler, SetupAzureClient,
           iothubClientHandle' = NULL,
           \/ ~Provisioning'
           \/ Provisioning' /\ userConfig = "DPS"
    PROVE  [S!Next]_(S!vars)
<1>1. UNCHANGED userConfig
  BY HandlerStep
<1>2. outstandingMessageCount' = 0
  <2>1. queued \in Nat /\ outstandingMessageCount = queued
    BY DEF TypeOK, SessionInv, SessionCore, OutstandingIsQueued
  <2>2. outstandingMessageCount' = outstandingMessageCount - queued
    BY DEF SetupAzureClient, SetupHostname, SetUpAzureIoTHubClientWithConnectionString,
       DpsWaits, DpsBegin, DpsPoll, DpsConnect, DpsEntry, SetupEntry, DestroyClient
  <2> QED
    BY <2>1, <2>2
<1>3. iothubClientHandle = NULL => outstandingMessageCount = 0
  BY DEF SessionInv, SessionCore, OutstandingIsQueued
<1>4. CASE sessionPhase' = sessionPhase
  <2>1. iothubClientHandle = NULL
    BY <1>4 DEF sessionPhase
  <2> QED
    BY <1>1, <1>2, <1>3, <1>4, <2>1 DEF S!vars
<1>5. CASE sessionPhase' # sessionPhase /\ Provisioning'
  BY <1>1, <1>2, <1>5 DEF S!Next, S!Register, S!Move, sessionPhase
<1>6. CASE sessionPhase' # sessionPhase /\ ~Provisioning'
  BY <1>1, <1>2, <1>6 DEF S!Next, S!Close, S!Move, sessionPhase
<1> QED
  BY <1>4, <1>5, <1>6

LEMMA HandlerSimulation ==
    ASSUME TypeOK, SessionInv, HubInv, AzureConnectionHandler, SessionInv'
    PROVE  [S!Next]_(S!vars)
<1>0. UNCHANGED userConfig
  BY HandlerStep
<1>1. CASE PollClient \/ ReenableDevice
  <2>1. UNCHANGED <<iothubClientHandle, outstandingMessageCount>>
    BY <1>1 DEF PollClient, ReenableDevice, sdkVars
  <2>2. authState # "NotAuthenticated"
    BY <1>1 DEF PollClient, ReenableDevice, AuthOnEntry, LostNetwork
  <2>3. ~Provisioning
    BY <2>2 DEF SessionInv, SessionCore, SessionState, ProvisioningResources
  <2>4. deviceConnectionState' \in {deviceConnectionState, "NOT_CONNECTED"}
    BY <1>1 DEF PollClient, ReenableDevice, DeviceOnEntry
  <2> QED
    BY <1>0, <2>1, <2>3, <2>4, SessionStutters DEF Provisioning
<1>2. ASSUME SetupAzureClient, iothubClientHandle' = NULL PROVE [S!Next]_(S!vars)
  <2>1. Provisioning' => userConfig = "DPS"
    BY <1>0 DEF SessionInv, ConfigurationIsFixed
  <2> QED
    BY <1>2, <2>1, SetupSimulation
<1>3. ASSUME SetupAzureClient, iothubClientHandle' # NULL PROVE [S!Next]_(S!vars)
  <2>1. outstandingMessageCount' = 0 /\ DeviceOnEntry # "CONNECTED"
    <3>1. AuthOnEntry = "NotAuthenticated"
      BY <1>3 DEF SetupAzureClient, SetupHostname, SetUpAzureIoTHubClientWithConnectionString,
           DpsWaits, DpsBegin, DpsPoll, DpsConnect, DpsEntry, SetupEntry
    <3>2. ~PollClient /\ ~ReenableDevice
      BY <3>1 DEF PollClient, ReenableDevice
    <3> QED
      BY <3>2, HandlerStep
  <2>2. iothubClientHandle' \in Hubs
    BY <1>3, HandlerType DEF TypeOK
  <2>3. userConfig = "DPS" => sessionPhase = "registering"
    <3>1. ASSUME userConfig = "DPS" PROVE DpsConnect /\ DeviceOnEntry = "PROVISION_IOT_CLIENT"
      BY <1>3, <2>1, <3>1 DEF SetupAzureClient, SetupHostname,
        SetUpAzureIoTHubClientWithConnectionString, SetupEntry, DpsWaits, DpsBegin, DpsPoll,
        DpsConnect, DpsEntry, NoClient
    <3>2. ASSUME DeviceOnEntry = "PROVISION_IOT_CLIENT" PROVE Provisioning
      BY <3>2 DEF DeviceOnEntry, Provisioning
    <3> QED
      BY <3>1, <3>2 DEF sessionPhase, SessionInv, SessionCore, SessionState,
        ProvisioningResources
  <2>4. S!Open(iothubClientHandle')
    BY <1>0, <1>3, <2>1, <2>3 DEF S!Open, S!Move, sessionPhase
  <2> QED
    BY <2>2, <2>4 DEF S!Next
<1> QED
  BY <1>1, <1>2, <1>3 DEF AzureConnectionHandler

\* The connection layer keeps the promise of Session: one session at a time,
\* opened with DPS only by a registration, every message that dx_azurePublish
\* hands over counted down exactly once, whatever callbacks nest in whatever
\* calls, whatever fails, and however often the network goes.
THEOREM SessionImplemented == Spec => ImplementsSession
<1>1. Init => S!Init
  BY NullAssumption DEF Init, S!Init, sessionPhase, Provisioning
<1>2. TypeOK /\ SessionInv /\ SessionInv' /\ HubInv /\ [Next]_vars => [S!Next]_(S!vars)
  <2> SUFFICES ASSUME TypeOK, SessionInv, SessionInv', HubInv, [Next]_vars
               PROVE  [S!Next]_(S!vars)
    OBVIOUS
  <2>1. CASE UNCHANGED vars
    BY <2>1, SessionStutters
    DEF vars, coreVars, loopVars, stateVars, sdkVars, Provisioning
  <2>2. CASE Next
    BY <2>2, ApplicationSimulation, LoopSimulation, HandlerSimulation DEF Next
  <2> QED
    BY <2>1, <2>2
<1> QED
  BY <1>1, <1>2, TypeCorrect, SessionCorrect, HubCorrect, PTL
  DEF Spec, ImplementsSession, S!Spec

-----------------------------------------------------------------------------
(* The first subscriber.  While ProcessConnectionStatusCallbacks has not yet *)
(* looked at the first slot, it is at the top of the stack and announces the *)
(* state last recorded: whatever runs below it is past that slot.            *)

Opening(f) == f.pc = "notify" /\ f.i <= 1

\* No announcement in st has the first slot before it.
Past(st) == \A k \in 1 .. Len(st) : ~Opening(st[k])

FirstAgrees ==
    \A s \in Subscribers : SlotsOf(s) = {1} => told[s] \in {NULL, previous_connection_state}

\* The first slot is about to be looked at.
Announcing ==
    /\ stack # <<>>
    /\ Opening(Top)
    /\ Top.arg = previous_connection_state
    /\ Past(Tail(stack))

FirstInv ==
    /\ \A s \in Subscribers : told[s] # NULL => SlotsOf(s) # {}
    /\ (Past(stack) /\ FirstAgrees) \/ Announcing

LEMMA PushHeadTail ==
    ASSUME NEW f, NEW s \in Seq(Frame)
    PROVE  Push(f, s) # <<>> /\ Head(Push(f, s)) = f /\ Tail(Push(f, s)) = s
  BY DEF Push

LEMMA PastPush ==
    ASSUME NEW f \in Frame, ~Opening(f), NEW s \in Seq(Frame), Past(s)
    PROVE  Past(Push(f, s))
  BY PushType DEF Past

LEMMA PastTail ==
    ASSUME NEW s \in Seq(Frame), s # <<>>, Past(s)
    PROVE  Past(Tail(s)) /\ ~Opening(Head(s))
<1>1. /\ Len(Tail(s)) = Len(s) - 1 /\ Len(s) \in Nat \ {0}
      /\ \A k \in 1 .. Len(Tail(s)) : Tail(s)[k] = s[k + 1]
      /\ Head(s) = s[1]
  BY TailType, EmptySeq
<1>2. ASSUME NEW k \in 1 .. Len(Tail(s)) PROVE ~Opening(Tail(s)[k])
  <2>1. k + 1 \in 1 .. Len(s)
    BY <1>1
  <2> QED
    BY <1>1, <2>1 DEF Past
<1>3. 1 \in 1 .. Len(s)
  BY <1>1
<1> QED
  BY <1>1, <1>2, <1>3 DEF Past

LEMMA PastTop ==
    ASSUME FirstInv, stack # <<>> => Top.pc # "notify"
    PROVE  Past(stack) /\ FirstAgrees
  BY DEF FirstInv, Announcing, Opening

LEMMA StaysPast ==
    ASSUME FirstInv, FirstAgrees, Past(stack'),
           UNCHANGED <<previous_connection_state, connectionStatusCallback, told>>
    PROVE  FirstInv'
<1>1. ASSUME NEW s PROVE SlotsOf(s)' = SlotsOf(s)
  BY DEF SlotsOf
<1>2. Past(stack)'
  BY DEF Past
<1>3. FirstAgrees'
  BY <1>1 DEF FirstAgrees
<1> QED
  BY <1>1, <1>2, <1>3 DEF FirstInv

\* A check announces a change, or nothing has changed.
LEMMA CheckAnnounces ==
    ASSUME FirstInv, FirstAgrees, NEW a, NEW d, NEW base \in Seq(Frame), Past(base),
           dx_isAzureConnected(a, d, base)
    PROVE  FirstInv'
<1>1. UNCHANGED <<connectionStatusCallback, told>>
  BY DEF dx_isAzureConnected, subVars
<1>2. ProcessConnectionStatusCallbacks(IsConnected(a), base)
  BY DEF dx_isAzureConnected
<1>3. CASE IsConnected(a) = previous_connection_state
  <2>1. stack' = base /\ UNCHANGED previous_connection_state
    BY <1>2, <1>3 DEF ProcessConnectionStatusCallbacks
  <2> QED
    BY <1>1, <2>1, StaysPast
<1>4. CASE IsConnected(a) # previous_connection_state
  <2> DEFINE f == Fr("notify", IsConnected(a))
  <2>1. stack' = Push(f, base) /\ previous_connection_state' = IsConnected(a)
    BY <1>2, <1>4 DEF ProcessConnectionStatusCallbacks
  <2>2. Opening(f) /\ f.arg = IsConnected(a)
    BY DEF Fr, Opening
  <2>3. Push(f, base) # <<>> /\ Head(Push(f, base)) = f /\ Tail(Push(f, base)) = base
    BY PushHeadTail
  <2> HIDE DEF f
  <2>4. Announcing'
    BY <2>1, <2>2, <2>3 DEF Announcing, Top, Opening, Past
  <2> QED
    BY <1>1, <2>4 DEF FirstInv, SlotsOf
<1> QED
  BY <1>3, <1>4

LEMMA ApplicationAnnounces ==
    ASSUME TypeOK, FirstInv, Application PROVE FirstInv'
<1> USE DEF loopVars, netVars, stateVars, provVars, sdkVars, subVars, coreVars
<1>0. /\ stack \in Seq(Frame)
      /\ told \in [Subscribers -> BOOLEAN \cup {NULL}]
      /\ connectionStatusCallback \in [Slots -> Subscribers \cup {NULL}]
  BY DEF TypeOK
<1>1. ASSUME AppRuns PROVE Past(stack) /\ FirstAgrees
  BY <1>1, PastTop DEF AppRuns, TopIn, AppPoints
<1>2. ASSUME NEW p \in {"publishCheck", "reportCheck"}
      PROVE  LET f == Fr(p, IsConnected(authState)) IN f \in Frame /\ ~Opening(f)
  <2>1. Fr(p, IsConnected(authState)) \in Frame
    BY FrameType DEF IsConnected, Points
  <2> QED
    BY <2>1 DEF Fr, Opening
<1>3. CASE CheckConnected
  BY <1>0, <1>1, <1>3, CheckAnnounces DEF CheckConnected, AppUses
<1>4. CASE PublishCheck
  <2>1. Past(Push(Fr("publishCheck", IsConnected(authState)), stack))
    BY <1>0, <1>1, <1>2, <1>4, PastPush DEF PublishCheck, AppUses
  <2> QED
    BY <1>0, <1>1, <1>2, <1>4, <2>1, CheckAnnounces, PushType DEF PublishCheck, AppUses
<1>5. CASE ReportCheck
  <2>1. Past(Push(Fr("reportCheck", IsConnected(authState)), stack))
    BY <1>0, <1>1, <1>2, <1>5, PastPush DEF ReportCheck, AppUses
  <2> QED
    BY <1>0, <1>1, <1>2, <1>5, <2>1, CheckAnnounces, PushType DEF ReportCheck, AppUses
<1>6. CASE PublishContinues \/ ReportSend
  <2>1. /\ stack # <<>> /\ Top.pc # "notify"
        /\ UNCHANGED <<previous_connection_state, connectionStatusCallback, told>>
    BY <1>6 DEF PublishContinues, PublishRefused, PublishSend, ReportSend, TopIn
  <2>2. Past(stack) /\ FirstAgrees /\ Past(Tail(stack)) /\ Tail(stack) \in Seq(Frame)
    BY <1>0, <2>1, PastTop, PastTail, TailType
  <2>3. ASSUME NEW b \in BOOLEAN, NEW acc \in BOOLEAN
        PROVE  /\ Past(Push([Fr("publishWork", b) EXCEPT !.sent = acc], Tail(stack)))
               /\ Past(Push(Fr("reportWork", b), Tail(stack)))
    <3> DEFINE f == [Fr("publishWork", b) EXCEPT !.sent = acc]
               g == Fr("reportWork", b)
    <3>1. f \in Frame /\ g \in Frame
      BY FrameType DEF Points, WorkPoints
    <3>2. f.pc = "publishWork" /\ g.pc = "reportWork"
      BY DEF Fr
    <3> HIDE DEF f, g
    <3>3. Past(Push(f, Tail(stack))) /\ Past(Push(g, Tail(stack)))
      BY <2>2, <3>1, <3>2, PastPush DEF Opening
    <3> QED
      BY <3>3 DEF f, g
  <2>4. Top.arg \in BOOLEAN
    <3>1. Top \in Frame
      BY <1>0, <2>1, TailType DEF Top
    <3> QED
      BY <3>1 DEF Frame
  <2>5. Past(stack')
    BY <1>6, <2>2, <2>3, <2>4 DEF PublishContinues, PublishRefused, PublishSend, ReportSend
  <2> QED
    BY <2>1, <2>2, <2>5, StaysPast
<1>7. ASSUME NEW s \in Subscribers, dx_azureRegisterConnectionChangedNotification(s)
      PROVE  FirstInv'
  <2>1. Past(stack) /\ FirstAgrees /\ UNCHANGED <<stack, told, previous_connection_state>>
    BY <1>1, <1>7 DEF dx_azureRegisterConnectionChangedNotification
  <2>2. PICK i \in Slots :
            /\ connectionStatusCallback[i] = NULL
            /\ connectionStatusCallback' = [connectionStatusCallback EXCEPT ![i] = s]
    BY <1>7 DEF dx_azureRegisterConnectionChangedNotification
  <2>3. SlotsOf(s)' = SlotsOf(s) \cup {i} /\ i \notin SlotsOf(s)
    BY <1>0, <2>2, NullAssumption DEF SlotsOf
  <2>4. ASSUME NEW u \in Subscribers, u # s PROVE SlotsOf(u)' = SlotsOf(u)
    BY <1>0, <2>2, <2>4, NullAssumption DEF SlotsOf
  <2>5. ASSUME NEW u \in Subscribers, SlotsOf(u)' = {1}
        PROVE  told[u] \in {NULL, previous_connection_state}
    <3>1. CASE u = s
      <4>1. SlotsOf(s) = {}
        BY <2>3, <2>5, <3>1
      <4> QED
        BY <3>1, <4>1 DEF FirstInv
    <3>2. CASE u # s
      BY <2>1, <2>4, <2>5, <3>2 DEF FirstAgrees
    <3> QED
      BY <3>1, <3>2
  <2>6. ASSUME NEW u \in Subscribers, told[u] # NULL PROVE SlotsOf(u)' # {}
    BY <2>3, <2>4, <2>6 DEF FirstInv
  <2>7. FirstAgrees'
    BY <2>1, <2>5 DEF FirstAgrees
  <2>8. Past(stack)'
    BY <2>1 DEF Past
  <2> QED
    BY <2>1, <2>6, <2>7, <2>8 DEF FirstInv
<1>8. ASSUME NEW s \in Subscribers, dx_azureUnregisterConnectionChangedNotification(s)
      PROVE  FirstInv'
  <2>1. /\ told' = [told EXCEPT ![s] = NULL]
        /\ connectionStatusCallback' =
              [i \in Slots |-> IF connectionStatusCallback[i] = s
                               THEN NULL ELSE connectionStatusCallback[i]]
        /\ Past(stack) /\ FirstAgrees /\ UNCHANGED <<stack, previous_connection_state>>
    BY <1>1, <1>8 DEF dx_azureUnregisterConnectionChangedNotification
  <2>2. told'[s] = NULL /\ \A u \in Subscribers : u # s => told'[u] = told[u]
    BY <1>0, <2>1
  <2>3. ASSUME NEW u \in Subscribers, u # s PROVE SlotsOf(u)' = SlotsOf(u)
    <3>1. ASSUME NEW i \in Slots
          PROVE  connectionStatusCallback'[i] = u <=> connectionStatusCallback[i] = u
      BY <2>1, <2>3, NullAssumption
    <3> QED
      BY <3>1 DEF SlotsOf
  <2>4. FirstAgrees'
    BY <2>1, <2>2, <2>3 DEF FirstAgrees
  <2>5. ASSUME NEW u \in Subscribers, told'[u] # NULL PROVE SlotsOf(u)' # {}
    BY <2>2, <2>3, <2>5 DEF FirstInv
  <2>6. Past(stack)'
    BY <2>1 DEF Past
  <2> QED
    BY <2>4, <2>5, <2>6 DEF FirstInv
<1>9. CASE dx_azureConnect \/ dx_azureToDeviceStop \/ dx_azureRegisterInbound
  <2>1. /\ AppRuns
        /\ UNCHANGED <<stack, previous_connection_state, connectionStatusCallback, told>>
    BY <1>9 DEF dx_azureConnect, dx_azureToDeviceStop, dx_azureRegisterInbound
  <2> QED
    BY <1>1, <2>1, StaysPast
<1> QED
  BY <1>3, <1>4, <1>5, <1>6, <1>7, <1>8, <1>9
  DEF Application, dx_azurePublish, dx_deviceTwinReportValue

LEMMA NotificationsAnnounce == TypeOK /\ FirstInv /\ Notifications => FirstInv'
<1> SUFFICES ASSUME TypeOK, FirstInv, Notifications PROVE FirstInv'
  OBVIOUS
<1> USE DEF loopVars, netVars, stateVars, provVars, sdkVars, subVars, coreVars
<1>0. /\ stack \in Seq(Frame)
      /\ told \in [Subscribers -> BOOLEAN \cup {NULL}]
      /\ connectionStatusCallback \in [Slots -> Subscribers \cup {NULL}]
  BY DEF TypeOK
<1>4. ASSUME stack # <<>> PROVE Top \in Frame /\ Tail(stack) \in Seq(Frame) /\ Past(Tail(stack))
  <2>1. Past(Tail(stack))
    BY <1>0, <1>4, PastTail DEF FirstInv, Announcing
  <2> QED
    BY <1>0, <1>4, <2>1, TailType DEF Top
<1>1. CASE NotifyNext
  <2>1. stack # <<>> /\ Top.pc = "notify"
    BY <1>1 DEF NotifyNext, TopIn
  <2>2. PICK i \in SlotsLeft :
            /\ \A j \in SlotsLeft : i <= j
            /\ told' = [told EXCEPT ![connectionStatusCallback[i]] = Top.arg]
            /\ stack' = Push(Fr("subscriber", FALSE),
                             Push([Top EXCEPT !.i = i + 1], Tail(stack)))
    BY <1>1 DEF NotifyNext
  <2>3. UNCHANGED <<previous_connection_state, connectionStatusCallback>>
    BY <1>1 DEF NotifyNext
  <2> DEFINE g == [Top EXCEPT !.i = i + 1]
             t == connectionStatusCallback[i]
  <2>4. /\ i \in Slots /\ i \in Nat \ {0} /\ i >= Top.i /\ t \in Subscribers
        /\ Top.i \in Nat /\ Top \in Frame
    <3>1. i \in Slots /\ i >= Top.i /\ t # NULL
      BY <2>2 DEF SlotsLeft
    <3>2. Top \in Frame /\ Top.i \in Nat
      BY <1>4, <2>1 DEF Frame
    <3> QED
      BY <1>0, <3>1, <3>2, SlotsAssumption DEF Slots
  <2>5. Past(stack')
    <3>1. g \in Frame /\ g.i = i + 1
      BY <2>4 DEF Frame
    <3>2. ~Opening(g)
      BY <2>4, <3>1 DEF Opening
    <3>3. Fr("subscriber", FALSE) \in Frame /\ ~Opening(Fr("subscriber", FALSE))
      <4>1. Fr("subscriber", FALSE) \in Frame
        BY FrameType DEF Points, AppPoints
      <4> QED
        BY <4>1 DEF Fr, Opening
    <3> HIDE DEF g
    <3>4. Past(Push(g, Tail(stack))) /\ Push(g, Tail(stack)) \in Seq(Frame)
      BY <1>4, <2>1, <3>1, <3>2, PastPush, PushType
    <3> QED
      BY <2>2, <3>3, <3>4, PastPush DEF g
  <2>6. told'[t] = Top.arg /\ \A s \in Subscribers : s # t => told'[s] = told[s]
    BY <1>0, <2>2, <2>4
  <2>7. ASSUME NEW s PROVE SlotsOf(s)' = SlotsOf(s)
    BY <2>3 DEF SlotsOf
  <2>8. ASSUME NEW s \in Subscribers, SlotsOf(s) = {1}
        PROVE  told'[s] \in {NULL, previous_connection_state}
    <3>1. 1 \in Slots /\ connectionStatusCallback[1] = s /\ (t = s => i = 1)
      <4>1. 1 \in SlotsOf(s)
        BY <2>8
      <4>2. t = s => i \in SlotsOf(s)
        BY <2>4 DEF SlotsOf
      <4> QED
        BY <2>8, <4>1, <4>2 DEF SlotsOf
    <3>2. CASE Opening(Top)
      <4>1. Top.arg = previous_connection_state
        <5>1. ~Past(stack)
          BY <1>0, <2>1, <3>2, PastTail DEF Top
        <5> QED
          BY <5>1 DEF FirstInv, Announcing
      <4>2. 1 \in SlotsLeft
        BY <2>4, <3>1, <3>2, NullAssumption DEF SlotsLeft, Opening
      <4>3. i = 1
        BY <2>2, <2>4, <4>2
      <4> QED
        BY <2>6, <3>1, <4>1, <4>3
    <3>3. CASE ~Opening(Top)
      <4>1. FirstAgrees
        BY <3>3 DEF FirstInv, Announcing
      <4>2. i # 1
        BY <2>1, <2>4, <3>3 DEF Opening
      <4> QED
        BY <2>6, <2>8, <3>1, <4>1, <4>2 DEF FirstAgrees
    <3> QED
      BY <3>2, <3>3
  <2>9. ASSUME NEW s \in Subscribers, told'[s] # NULL PROVE SlotsOf(s) # {}
    <3>1. CASE s = t
      BY <2>4, <3>1 DEF SlotsOf
    <3>2. CASE s # t
      BY <2>6, <2>9, <3>2 DEF FirstInv
    <3> QED
      BY <3>1, <3>2
  <2>10. FirstAgrees'
    BY <2>3, <2>7, <2>8 DEF FirstAgrees
  <2>11. Past(stack)'
    BY <2>5 DEF Past
  <2> QED
    BY <2>7, <2>9, <2>10, <2>11 DEF FirstInv
<1>2. CASE NotifyDone
  <2>1. stack # <<>> /\ Top.pc = "notify"
    BY <1>2 DEF NotifyDone, TopIn
  <2>2. /\ SlotsLeft = {} /\ stack' = Tail(stack)
        /\ UNCHANGED <<previous_connection_state, connectionStatusCallback, told>>
    BY <1>2 DEF NotifyDone
  <2>3. FirstAgrees
    <3>1. CASE Opening(Top)
      <4>1. ASSUME NEW s \in Subscribers, SlotsOf(s) = {1} PROVE FALSE
        <5>1. 1 \in Slots /\ connectionStatusCallback[1] = s
          <6>1. 1 \in SlotsOf(s)
            BY <4>1
          <6> QED
            BY <6>1 DEF SlotsOf
        <5>2. Top.i \in Nat /\ 1 >= Top.i
          BY <1>4, <2>1, <3>1 DEF Frame, Opening
        <5>3. 1 \in SlotsLeft
          BY <5>1, <5>2, NullAssumption DEF SlotsLeft
        <5> QED
          BY <2>2, <5>3
      <4> QED
        BY <4>1 DEF FirstAgrees
    <3>2. CASE ~Opening(Top)
      BY <3>2 DEF FirstInv, Announcing
    <3> QED
      BY <3>1, <3>2
  <2> QED
    BY <1>4, <2>1, <2>2, <2>3, StaysPast
<1>3. CASE CallbackReturns
  <2>1. /\ stack # <<>> /\ Top.pc # "notify" /\ stack' = Tail(stack)
        /\ UNCHANGED <<previous_connection_state, connectionStatusCallback, told>>
    BY <1>3 DEF CallbackReturns, TopIn, AppPoints
  <2> QED
    BY <1>4, <2>1, PastTop, StaysPast
<1> QED
  BY <1>1, <1>2, <1>3 DEF Notifications

LEMMA OthersAnnounce ==
    ASSUME TypeOK, FirstInv,
           \/ AzureConnectionHandler \/ network_ready_expired_handler
           \/ SdkClient \/ Environment
    PROVE  FirstInv'
<1> USE DEF loopVars, netVars, stateVars, provVars, sdkVars, subVars, coreVars
<1>0. stack \in Seq(Frame)
  BY DEF TypeOK
<1>1. CASE AzureConnectionHandler
  <2>1. HandlerEntry
    BY <1>1 DEF AzureConnectionHandler, PollClient, ReenableDevice, SetupAzureClient,
         SetupHostname, SetUpAzureIoTHubClientWithConnectionString, DpsWaits, DpsBegin,
         DpsPoll, DpsConnect, DpsEntry, SetupEntry
  <2>2. HandlerReturns \/ HandlerWorks
    BY <1>1 DEF AzureConnectionHandler, PollClient, ReenableDevice, SetupAzureClient,
         SetupHostname, SetUpAzureIoTHubClientWithConnectionString, DpsWaits, DpsBegin,
         DpsPoll, DpsConnect, NoClient, OpenClient
  <2>3. Past(stack')
    BY <2>2 DEF HandlerReturns, HandlerWorks, Past, Fr, Opening
  <2>4. FirstAgrees
    BY <2>1, PastTop DEF HandlerEntry
  <2> QED
    BY <2>1, <2>3, <2>4, StaysPast DEF HandlerEntry
<1>2. CASE HubAuthenticated \/ \E r \in Reasons : HubUnauthenticated(r)
  <2>1. Past(stack) /\ FirstAgrees
    BY <1>2, PastTop DEF HubAuthenticated, HubUnauthenticated, StatusCallback, InDoWork,
      TopIn, WorkPoints
  <2> QED
    BY <1>0, <1>2, <2>1, CheckAnnounces
    DEF HubAuthenticated, HubUnauthenticated, StatusCallback
<1>3. CASE HubInbound \/ DoWorkReturns
  <2>1. /\ stack # <<>> /\ Top.pc # "notify"
        /\ stack' \in {Push(Fr("inbound", FALSE), stack), Tail(stack)}
        /\ UNCHANGED <<previous_connection_state, connectionStatusCallback, told>>
    BY <1>3 DEF HubInbound, DoWorkReturns, InDoWork, TopIn, WorkPoints
  <2>2. Past(stack) /\ FirstAgrees
    BY <2>1, PastTop
  <2>3. Fr("inbound", FALSE) \in Frame /\ ~Opening(Fr("inbound", FALSE))
    <3>1. Fr("inbound", FALSE) \in Frame
      BY FrameType DEF Points, AppPoints
    <3> QED
      BY <3>1 DEF Fr, Opening
  <2>4. Past(Push(Fr("inbound", FALSE), stack)) /\ Past(Tail(stack))
    BY <1>0, <2>1, <2>2, <2>3, PastPush, PastTail
  <2> QED
    BY <2>1, <2>2, <2>4, StaysPast
<1>4. CASE SendMessageCallback \/ network_ready_expired_handler \/ Environment
  <2>1. UNCHANGED <<stack, previous_connection_state, connectionStatusCallback, told>>
    BY <1>4 DEF SendMessageCallback, network_ready_expired_handler, Environment,
      NetworkChanges, Terminate, LoopEnds
  <2> QED
    BY <2>1 DEF FirstInv, Announcing, FirstAgrees, SlotsOf, Past, Top
<1> QED
  BY <1>1, <1>2, <1>3, <1>4 DEF SdkClient

\* However deep application callbacks nest, and whatever calls of the library they
\* make, the subscriber in the first slot was last told the state last announced,
\* for any number of subscribers and slots and any depth of the stack.  (The ones in
\* later slots may not have been: an announcement that a callback interrupts goes
\* on with the old state.)
THEOREM FirstSubscriberCorrect == Spec => []FirstSubscriberAgrees
<1>1. Init => FirstInv
  <2> SUFFICES ASSUME Init PROVE FirstInv
    OBVIOUS
  <2>1. Past(stack)
    BY DEF Init, Past
  <2>2. FirstAgrees /\ \A s \in Subscribers : told[s] = NULL
    BY DEF Init, FirstAgrees
  <2> QED
    BY <2>1, <2>2 DEF FirstInv
<1>2. TypeOK /\ FirstInv /\ [Next]_vars => FirstInv'
  <2> SUFFICES ASSUME TypeOK, FirstInv, [Next]_vars PROVE FirstInv'
    OBVIOUS
  <2>1. CASE UNCHANGED vars
    BY <2>1 DEF vars, coreVars, stateVars, subVars, FirstInv, Announcing, FirstAgrees,
      SlotsOf, Past, Top
  <2>2. CASE Next
    BY <2>2, ApplicationAnnounces, NotificationsAnnounce, OthersAnnounce DEF Next
  <2> QED
    BY <2>1, <2>2
<1>3. FirstInv => FirstSubscriberAgrees
  BY DEF FirstInv, Announcing, Opening, FirstAgrees, FirstSubscriberAgrees, TopIn
<1> QED
  BY <1>1, <1>2, <1>3, TypeCorrect, PTL DEF Spec
=============================================================================
