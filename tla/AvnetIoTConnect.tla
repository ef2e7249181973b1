-------------------------- MODULE AvnetIoTConnect --------------------------
(***************************************************************************)
(* dx_avnet_iot_connect.c: the hello handshake with the IoTConnect         *)
(* platform and the upkeep of the list of gateway children.                *)
(*                                                                         *)
(* The device publishes requests (up) and the platform answers with        *)
(* cloud-to-device messages (c2d).  The connection layer below (AzureIoT)  *)
(* appears by what it does to this one: it has an authenticated session or *)
(* not, and it announces changes of that to AvnetReconnectCallback.  Every *)
(* routine publishes last, so the callbacks that run inside the publish    *)
(* act as if they ran after it.                                            *)
(***************************************************************************)
EXTENDS Integers, Sequences, FiniteSets, SequencesExt, DxTimer

CONSTANTS
    Ids, Tags,      \* of gateway children
    Dtgs,           \* the platform's "meta.dtg": "valid", "empty" or "absent"
    Sids,           \* does it send a "sid"?
    HasDForms,      \* how it writes "has.d": "boolean" or "number"
    Faults,         \* what may go wrong: see Fault below
    MaxFaults,      \* bound on their number; each happens once at most
    MaxInFlight     \* bound on the messages under way

ASSUME AvnetAssumption ==
    /\ IsFiniteSet(Ids)
    /\ Dtgs \subseteq {"valid", "empty", "absent"}
    /\ Sids \subseteq BOOLEAN
    /\ HasDForms \subseteq {"boolean", "number"}
    /\ Faults \subseteq {"loss", "redelivery", "silent", "restart", "edit", "other"}
    /\ MaxFaults \in Nat /\ MaxInFlight \in Nat

VARIABLES
    avnetConnected,
    sidString,      \* has a hello response filled it in?
    dtgGUID,        \* "valid" (36 characters) or "empty"
    lacks,          \* history: what the last hello response of this session
                    \* lacked, of "sid" and "dtg" (a valid one)
    children,       \* the list of gwChildrenListHead: a sequence of [id, tg]
    monitorAvnetConnectionTimer,
    session,        \* would dx_isAzureConnected return true?
    previous_connection_state,
    up,             \* published and not yet handled by the platform
    c2d,            \* sent by the platform and not yet settled
    registered,     \* the platform's record: a function from ids to tags
    faults          \* the faults that have happened

deviceVars   == <<avnetConnected, sidString, dtgGUID, lacks, children,
                  monitorAvnetConnectionTimer, session, previous_connection_state>>
platformVars == <<c2d, registered>>
vars         == <<deviceVars, up, platformVars, faults>>

Kids == INSTANCE Children

Requests ==
    [mt : {200, 204}] \cup [mt : {221}, id : Ids, tg : Tags] \cup [mt : {222}, id : Ids]

-----------------------------------------------------------------------------
(* Publishing.  dx_azurePublish asks dx_isAzureConnected, which announces a *)
(* change before the message is sent.                                       *)

Hello == <<[mt |-> 200]>>

Changed(s) == s # previous_connection_state

\* AvnetReconnectCallback, told of a change to s, resets the flag,
AfterAnnounce(s, connected) == IF Changed(s) THEN FALSE ELSE connected

\* Mutant: the hello is sent when the session is lost.
BugAnnounced(s) == IF ~s /\ Changed(s) THEN Hello ELSE <<>>

\* asks the platform for a new hello response if it can,
Announced(s) == IF s /\ Changed(s) THEN Hello ELSE <<>>

\* and changes the period of the monitor timer.
TimerAfterAnnounce(s) ==
    IF Changed(s) THEN dx_timerChange(monitorAvnetConnectionTimer)
    ELSE monitorAvnetConnectionTimer

\* ProcessConnectionStatusCallbacks(s), then messages sent in state s.
Announce(s, sent, connected, msgs) ==
    /\ previous_connection_state' = s
    /\ avnetConnected' = AfterAnnounce(s, connected)
    /\ monitorAvnetConnectionTimer' = TimerAfterAnnounce(s)
    /\ up' = sent \o Announced(s) \o (IF s THEN msgs ELSE <<>>)

dx_azurePublish(msgs) == Announce(session, up, avnetConnected, msgs)

Room == Len(up) + Len(c2d) < MaxInFlight

-----------------------------------------------------------------------------
(* The application.                                                         *)

dx_avnetConnect ==
    /\ ~monitorAvnetConnectionTimer.initialized
    /\ monitorAvnetConnectionTimer' = dx_timerStart(monitorAvnetConnectionTimer, FALSE, FALSE)
    /\ UNCHANGED <<avnetConnected, sidString, dtgGUID, lacks, children, session,
                   previous_connection_state, up, platformVars, faults>>

Started == monitorAvnetConnectionTimer.initialized

dx_avnetCreateChildOnIoTConnect(i, t) ==
    /\ Started /\ Room
    /\ dx_azurePublish(<<[mt |-> 221, id |-> i, tg |-> t]>>)
    /\ UNCHANGED <<sidString, dtgGUID, lacks, children, session, platformVars, faults>>

\* Only a child on the list is deleted.
dx_avnetDeleteChildOnIoTConnect(i) ==
    /\ Started /\ Room
    /\ \E k \in DOMAIN children : children[k].id = i
    /\ dx_azurePublish(<<[mt |-> 222, id |-> i]>>)
    /\ UNCHANGED <<sidString, dtgGUID, lacks, children, session, platformVars, faults>>

\* Any other call that asks for the state of the connection.
dx_isAzureConnected ==
    /\ Started
    /\ Changed(session)
    /\ dx_azurePublish(<<>>)
    /\ UNCHANGED <<sidString, dtgGUID, lacks, children, session, platformVars, faults>>

\* The handler of the monitor timer.
MonitorAvnetConnectionHandler ==
    /\ monitorAvnetConnectionTimer.active
    /\ Room
    /\ IF avnetConnected
       THEN /\ monitorAvnetConnectionTimer' = Expired(monitorAvnetConnectionTimer)
            /\ UNCHANGED <<avnetConnected, previous_connection_state, up>>
       ELSE /\ previous_connection_state' = session
            /\ avnetConnected' = FALSE
            /\ monitorAvnetConnectionTimer' =
                   IF Changed(session) THEN dx_timerChange(Expired(monitorAvnetConnectionTimer))
                   ELSE Expired(monitorAvnetConnectionTimer)
            /\ up' = up \o Announced(session) \o (IF session THEN Hello ELSE <<>>)
    /\ UNCHANGED <<sidString, dtgGUID, lacks, children, session, platformVars, faults>>

-----------------------------------------------------------------------------
(* ReceiveMessageCallback: one case per response.  Whatever the message, it *)
(* is accepted.                                                             *)

\* json_object_dotget_boolean gives -1 for anything but a boolean, and the cast
\* to uint8_t makes that 255.
HasDValue(d) == d \notin {"absent", "false"}

\* Mutant: a device without children is left to the 204 response.
BugHelloConnects(m) == IF m.dtg = "absent" THEN FALSE ELSE avnetConnected

\* The flag after a hello response.
HelloConnects(m) ==
    CASE m.dtg = "absent" -> FALSE
      [] m.dtg = "valid"  -> avnetConnected \/ ~HasDValue(m.hasD)
      [] OTHER            -> avnetConnected

DtgAfter(m) == IF m.dtg = "absent" THEN dtgGUID ELSE m.dtg

Lacks(m) == (IF m.sid THEN {} ELSE {"sid"}) \cup (IF m.dtg = "valid" THEN {} ELSE {"dtg"})

IoTCProcessHelloResponse(m) ==
    /\ m.ct = 200
    /\ sidString' = (sidString \/ m.sid)
    /\ dtgGUID' = DtgAfter(m)
    /\ lacks' = Lacks(m)
    /\ IF m.dtg = "valid" /\ ~avnetConnected /\ HasDValue(m.hasD)
       THEN dx_azurePublish(<<[mt |-> 204]>>)
       ELSE /\ avnetConnected' = HelloConnects(m)
            /\ UNCHANGED <<monitorAvnetConnectionTimer, previous_connection_state, up>>
    /\ UNCHANGED children

\* Mutant: a child already on the list is added again.
BugReplaced(list, c) == Append(list, c)

\* A child that is on the list already is taken out first, in case its tag
\* changed.
Replaced(list, c) == Append(Kids!Without(list, c.id), c)

\* The children of a 204 response, one after the other.
AllReplaced(list, d) ==
    LET after[n \in 0 .. Len(d)] == IF n = 0 THEN list ELSE Replaced(after[n - 1], d[n])
    IN  after[Len(d)]

IoTCProcess204Response(m) ==
    /\ m.ct = 204
    /\ children' = AllReplaced(children, m.d)
    /\ avnetConnected' = TRUE
    /\ UNCHANGED <<sidString, dtgGUID, lacks, monitorAvnetConnectionTimer,
                   previous_connection_state, up>>

\* Mutant: the response code is not looked at.
BugIoTCProcess221Response(m) ==
    /\ m.ct = 221
    /\ children' = Append(children, m.d)
    /\ UNCHANGED <<avnetConnected, sidString, dtgGUID, lacks, monitorAvnetConnectionTimer,
                   previous_connection_state, up>>

IoTCProcess221Response(m) ==
    /\ m.ct = 221
    /\ children' = IF m.s = 0 THEN Append(children, m.d) ELSE children
    /\ UNCHANGED <<avnetConnected, sidString, dtgGUID, lacks, monitorAvnetConnectionTimer,
                   previous_connection_state, up>>

IoTCProcess222Response(m) ==
    /\ m.ct = 222
    /\ children' = IF m.s = 0 THEN Kids!Without(children, m.d.id) ELSE children
    /\ UNCHANGED <<avnetConnected, sidString, dtgGUID, lacks, monitorAvnetConnectionTimer,
                   previous_connection_state, up>>

\* No JSON, no "d", another "ct", a field that is missing.
Ignore(m) ==
    /\ m.ct \notin {200, 204, 221, 222}
    /\ UNCHANGED <<avnetConnected, sidString, dtgGUID, lacks, children,
                   monitorAvnetConnectionTimer, previous_connection_state, up>>

Process(m) ==
    /\ \/ Ignore(m)
       \/ IoTCProcessHelloResponse(m)
       \/ IoTCProcess204Response(m)
       \/ IoTCProcess221Response(m)
       \/ IoTCProcess222Response(m)
    /\ UNCHANGED <<session, registered>>

ReceiveMessageCallback ==
    /\ session
    /\ c2d # <<>>
    /\ Process(Head(c2d))
    /\ c2d' = Tail(c2d)
    /\ UNCHANGED faults

-----------------------------------------------------------------------------
(* The connection layer.                                                    *)

\* An authenticated session is announced at once.
SessionUp ==
    /\ Started
    /\ ~session
    /\ session' = TRUE
    /\ Announce(TRUE, up, avnetConnected, <<>>)
    /\ UNCHANGED <<sidString, dtgGUID, lacks, children, platformVars, faults>>

\* What the SDK has not sent when the session ends is lost.
Sent == {SubSeq(up, 1, k) : k \in 0 .. Len(up)}

\* A session refused or closed by the hub is announced,
SessionDown ==
    /\ session
    /\ Room
    /\ session' = FALSE
    /\ lacks' = {}
    /\ \E sent \in Sent : Announce(FALSE, sent, avnetConnected, <<>>)
    /\ UNCHANGED <<sidString, dtgGUID, children, platformVars, faults>>

Fault(k) ==
    /\ k \in Faults \ faults
    /\ Cardinality(faults) < MaxFaults
    /\ faults' = faults \cup {k}

\* one that AzureConnectionHandler drops is not.
SilentDrop ==
    /\ Fault("silent")
    /\ session
    /\ Room
    /\ session' = FALSE
    /\ lacks' = {}
    /\ up' \in Sent
    /\ UNCHANGED <<avnetConnected, sidString, dtgGUID, children, monitorAvnetConnectionTimer,
                   previous_connection_state, platformVars>>

\* A request is lost on its way, or the platform does not answer it.
Lose ==
    /\ Fault("loss")
    /\ up # <<>>
    /\ up' = Tail(up)
    /\ UNCHANGED <<deviceVars, platformVars>>

\* A message is delivered and its settlement is lost: it comes again.
Redelivery ==
    /\ Fault("redelivery")
    /\ session
    /\ Room
    /\ c2d # <<>>
    /\ Process(Head(c2d))
    /\ UNCHANGED c2d

\* The process starts anew; the platform and its messages stay.
Restart ==
    /\ Fault("restart")
    /\ Room
    /\ avnetConnected' = FALSE
    /\ sidString' = FALSE
    /\ dtgGUID' = "empty"
    /\ lacks' = {}
    /\ children' = <<>>
    /\ monitorAvnetConnectionTimer' = NewTimer
    /\ session' = FALSE
    /\ previous_connection_state' = FALSE
    /\ up' \in Sent
    /\ UNCHANGED platformVars

-----------------------------------------------------------------------------
(* The IoTConnect platform, as the comments of the code describe it.        *)

HasD(form) ==
    CASE form = "boolean" -> IF registered = <<>> THEN "false" ELSE "true"
      [] OTHER            -> IF registered = <<>> THEN "zero" ELSE "one"

\* The record, as an array, in any order.
Listings == {[k \in DOMAIN ids |-> [id |-> ids[k], tg |-> registered[ids[k]]]] :
                ids \in SetToSeqs(DOMAIN registered)}

Answer(m) == up # <<>> /\ up' = Tail(up) /\ c2d' = Append(c2d, m)

AnswerHello ==
    /\ up # <<>> /\ Head(up).mt = 200
    /\ \E sid \in Sids, dtg \in Dtgs, form \in HasDForms :
        Answer([ct |-> 200, sid |-> sid, dtg |-> dtg, hasD |-> HasD(form)])
    /\ UNCHANGED registered

AnswerChildInfo ==
    /\ up # <<>> /\ Head(up).mt = 204
    /\ \E d \in Listings : Answer([ct |-> 204, d |-> d])
    /\ UNCHANGED registered

\* 0: added, 8: AVT_RESPONSE_CODE_UID_ALREADY_EXISTS.
AnswerAdd ==
    /\ up # <<>> /\ Head(up).mt = 221
    /\ LET q == Head(up)
           isNew == q.id \notin DOMAIN registered
       IN  /\ Answer([ct |-> 221, s |-> IF isNew THEN 0 ELSE 8,
                      d |-> [id |-> q.id, tg |-> q.tg]])
           /\ registered' = IF isNew
                            THEN [i \in DOMAIN registered \cup {q.id} |->
                                     IF i = q.id THEN q.tg ELSE registered[i]]
                            ELSE registered

\* 0: deleted, 1: not found.
AnswerDelete ==
    /\ up # <<>> /\ Head(up).mt = 222
    /\ LET q == Head(up)
           known == q.id \in DOMAIN registered
       IN  /\ Answer([ct |-> 222, s |-> IF known THEN 0 ELSE 1,
                      d |-> [id |-> q.id]])
           /\ registered' = [i \in DOMAIN registered \ {q.id} |-> registered[i]]

Platform ==
    /\ AnswerHello \/ AnswerChildInfo \/ AnswerAdd \/ AnswerDelete
    /\ UNCHANGED <<deviceVars, faults>>

\* It also sends messages of other kinds.
OtherMessage ==
    /\ Fault("other")
    /\ session
    /\ Room
    /\ c2d' = Append(c2d, [ct |-> 0])
    /\ UNCHANGED <<deviceVars, up, registered>>

\* A child's tag is changed on the platform while the device is away.
Edit ==
    /\ Fault("edit")
    /\ ~session
    /\ \E i \in DOMAIN registered, t \in Tags : registered' = [registered EXCEPT ![i] = t]
    /\ UNCHANGED <<deviceVars, up, c2d>>

-----------------------------------------------------------------------------
Init ==
    /\ avnetConnected = FALSE
    /\ sidString = FALSE
    /\ dtgGUID = "empty"
    /\ lacks = {}
    /\ children = <<>>
    /\ monitorAvnetConnectionTimer = NewTimer
    /\ session = FALSE
    /\ previous_connection_state = FALSE
    /\ up = <<>>
    /\ c2d = <<>>
    /\ \E known \in SUBSET Ids : registered \in [known -> Tags]
    /\ faults = {}

Next ==
    \/ dx_avnetConnect
    \/ \E i \in Ids, t \in Tags : dx_avnetCreateChildOnIoTConnect(i, t)
    \/ \E i \in Ids : dx_avnetDeleteChildOnIoTConnect(i)
    \/ dx_isAzureConnected
    \/ ReceiveMessageCallback
    \/ SessionUp
    \/ SessionDown
    \/ Platform
    \/ SilentDrop
    \/ Lose
    \/ Redelivery
    \/ Restart
    \/ OtherMessage
    \/ Edit

Spec == Init /\ [][Next]_vars

Fairness == WF_vars(ReceiveMessageCallback) /\ WF_vars(Platform)

\* The event loop dispatches messages, and the platform answers requests.
LiveSpec == Spec /\ Fairness

\* dx_avnetConnect starts the monitor timer with neither delay nor repeat, and
\* dx_timerChange starts no timer: it never expires, and Next leaves its handler
\* out.  Here it is, with the event loop's promise to run an expired timer.
MonitoredSpec ==
    /\ Init
    /\ [][Next \/ MonitorAvnetConnectionHandler]_vars
    /\ Fairness
    /\ WF_vars(MonitorAvnetConnectionHandler)

-----------------------------------------------------------------------------

\* The handshake never stops half-way: a device with a session that is not connected
\* to the platform has a hello or a 204 request under way, or the response to one,
\* through reconnects, restarts and late responses of earlier sessions; unless the
\* platform's last hello response had no valid dtg (nothing asks for another), a
\* message was lost or a session was dropped without notice.
HandshakeGoesOn ==
    session /\ ~avnetConnected /\ "dtg" \notin lacks /\ faults \cap {"loss", "silent"} = {} =>
        \/ \E k \in DOMAIN up : up[k].mt \in {200, 204}
        \/ \E k \in DOMAIN c2d : c2d[k].ct \in {200, 204}

\* No id is on the list twice (dx_avnetFindChild and the 222 response only see
\* the first), unless a 221 response was delivered twice.
ChildrenDistinct ==
    "redelivery" \notin faults =>
        \A j, k \in DOMAIN children : children[j].id = children[k].id => j = k

\* Once nothing is under way, a connected device knows the children that the
\* platform has on record, with their tags, if the record was changed only at
\* the device's request and every response was delivered once.
ListAgrees ==
    avnetConnected /\ up = <<>> /\ c2d = <<>> /\ faults \cap {"edit", "redelivery"} = {} =>
        ToSet(children) = {[id |-> i, tg |-> registered[i]] : i \in DOMAIN registered}

\* A session that stays up, and in which the platform sends a sid and a valid dtg,
\* ends in a connection with the platform, with the sid and the dtg that every
\* telemetry document starts with: for gateways too, through reconnects and restarts
\* at any point of the handshake (a 204 response to a request made before a restart
\* may connect a device that has neither yet), if no message is lost and no session
\* is dropped without notice.
StableSessionConnects ==
    <>[](session /\ lacks = {} /\ faults \cap {"loss", "silent"} = {}) =>
        <>[](avnetConnected /\ sidString /\ dtgGUID = "valid")

\* The same with no thought for lost messages: a hello message that is not
\* answered is sent again until it is.
ResendsHello == <>[]session => <>[]avnetConnected
=============================================================================
