---------------------------- MODULE DeviceTwins ----------------------------
(***************************************************************************)
(* dx_device_twins.c: the bindings of device twin properties.              *)
(*                                                                         *)
(* The storage of an INT, FLOAT, DOUBLE or BOOL binding ("scalar") is      *)
(* allocated by the library; the value of a STRING or JSON_OBJECT binding  *)
(* ("borrowed") points into the JSON document of the update for as long as *)
(* its handler runs.  A value stands for the version of the update it came *)
(* with, or is Own: one the application reported itself.                   *)
(*                                                                         *)
(* Updates arrive inside IoTHubDeviceClient_LL_DoWork, which the event     *)
(* loop calls and dx_deviceTwinReportValue too: a handler that reports a   *)
(* value may be interrupted by the next update.  stack holds the updates   *)
(* being handled, the innermost first.                                     *)
(***************************************************************************)
EXTENDS Integers, Sequences, FiniteSets

CONSTANTS
    deviceTwins,    \* the array given to dx_deviceTwinSubscribe
    twinType,       \* of each binding: "scalar" or "borrowed"
    MaxVersion,     \* bound on the versions of the desired properties
    MaxDepth,       \* bound on the nesting of updates
    Own, NULL

Twins == {deviceTwins[k] : k \in DOMAIN deviceTwins}

ASSUME TwinsAssumption ==
    /\ deviceTwins \in Seq(Twins)
    /\ twinType \in [Twins -> {"scalar", "borrowed"}]
    /\ MaxVersion \in Nat /\ MaxDepth \in Nat
    /\ Own \notin Int /\ NULL \notin Int /\ Own # NULL

VARIABLES
    subscribed,         \* is DeviceTwinCallbackHandler registered?
    opened,             \* are _deviceTwins and _iothubClientHandle set?
    propertyValue,
    propertyVersion,
    stack,              \* the updates being handled
    hubVersion,         \* the hub: the version of the last update it sent
    latest,             \* the hub: the last version that set each property
                        \* to a value of its type
    wrong,              \* the hub: the properties that now have another type
    stale,              \* history: see Overtaken
    touched,            \* history: bindings that no update has set since they
                        \* were opened, closed or reported with another value
    badFree,            \* the process freed memory it had not allocated
    nullUse             \* the process used a NULL pointer

hub == <<hubVersion, latest, wrong, stale>>
memory == <<badFree, nullUse>>
vars == <<subscribed, opened, propertyValue, propertyVersion, stack, hub, touched, memory>>

Update == [version : 1 .. MaxVersion,
           value : [Twins -> 0 .. MaxVersion],  \* properties with a value of
                                        \* their type: the version that set it
           bad : SUBSET Twins,          \* properties with a value of another type
           todo : 0 .. Len(deviceTwins),    \* bindings not yet looked at
           pc : {"loop", "handler", "work"}]

-----------------------------------------------------------------------------
Busy     == stack # <<>>
Top      == stack[1]
Current  == deviceTwins[Len(deviceTwins) - Top.todo + 1]
InHandler == Busy /\ Top.pc = "handler"
Alive    == ~badFree /\ ~nullUse

\* Application code runs between callbacks or in a handler.
Calls == Alive /\ (~Busy \/ InHandler)

SetPc(p) == stack' = [stack EXCEPT ![1].pc = p]

-----------------------------------------------------------------------------
(* Subscriptions.                                                           *)

\* Mutant: no storage for the scalars.
BugOpened(t, v) == v

\* deviceTwinOpen: storage for a scalar, none for a borrowed value.
Opened(t, v) == IF twinType[t] = "scalar" THEN 0 ELSE v

\* Storage that a binding already had is leaked.
dx_deviceTwinSubscribe ==
    /\ Calls
    /\ subscribed' = TRUE /\ opened' = TRUE
    /\ propertyValue' = [t \in Twins |-> Opened(t, propertyValue[t])]
    /\ touched' = Twins
    /\ UNCHANGED <<propertyVersion, stack, hub, memory>>

\* deviceTwinClose frees whatever the value points to.
dx_deviceTwinUnsubscribe ==
    /\ Calls /\ opened
    /\ subscribed' = FALSE
    /\ badFree' = (\E t \in Twins : twinType[t] = "borrowed" /\ propertyValue[t] # NULL)
    /\ propertyValue' = [t \in Twins |-> NULL]
    /\ touched' = Twins
    /\ UNCHANGED <<opened, propertyVersion, stack, hub, nullUse>>

-----------------------------------------------------------------------------
(* Desired properties.                                                      *)

\* The desired properties are changed: the twins in good get a value of their
\* type, those in bad another one.
HubSets(good, bad) ==
    /\ hubVersion < MaxVersion
    /\ good \cap bad = {}
    /\ hubVersion' = hubVersion + 1
    /\ latest' = [t \in Twins |-> IF t \in good THEN hubVersion + 1 ELSE latest[t]]
    /\ wrong' = (wrong \ good) \cup bad

\* No session, or no callback registered.
HubMissed(good, bad) ==
    /\ Alive /\ good \cup bad # {}
    /\ HubSets(good, bad)
    /\ stale' = stale \cup good
    /\ UNCHANGED <<subscribed, opened, propertyValue, propertyVersion, stack, touched, memory>>

\* Mutant: an update that interrupts a handler is not looked at.
BugBindings == IF Busy THEN 0 ELSE Len(deviceTwins)

\* The bindings that the loop of DeviceTwinCallbackHandler goes through.
BindingsToLookAt == Len(deviceTwins)

\* The loop has yet to look at a binding of t.
Ahead(u, t) ==
    \E j \in DOMAIN deviceTwins :
        /\ deviceTwins[j] = t
        /\ j > Len(deviceTwins) - u.todo + (IF u.pc = "loop" THEN 0 ELSE 1)

\* A binding whose new value will be overwritten: the update arrives inside the
\* handling of an older one that has another value for it and has yet to store it.
\* A binding that is not in the update stays as it is.
Overtaken(value) ==
    {t \in Twins : IF value[t] > 0
                   THEN \E k \in DOMAIN stack :
                            Ahead(stack[k], t) /\ stack[k].value[t] \notin {0, latest'[t]}
                   ELSE t \in stale}

\* DeviceTwinCallbackHandler is entered between callbacks or in the DoWork of a
\* report, with the document it will walk through.
DeviceTwinCallbackHandler(version, value, bad) ==
    /\ Alive /\ subscribed
    /\ Busy => Top.pc = "work" /\ Len(stack) < MaxDepth
    /\ stack' = <<[version |-> version, value |-> value, bad |-> bad,
                   todo |-> BindingsToLookAt, pc |-> "loop"]>> \o stack
    /\ stale' = Overtaken(value)
    /\ UNCHANGED <<subscribed, opened, propertyValue, propertyVersion, touched, memory>>

\* A patch has the properties that were changed.
ReceivePatch(good, bad) ==
    /\ HubSets(good, bad)
    /\ DeviceTwinCallbackHandler(hubVersion + 1,
            [t \in Twins |-> IF t \in good THEN hubVersion + 1 ELSE 0], bad)

\* A new session begins with the whole twin, its "desired" part.
ReceiveTwin ==
    /\ hubVersion > 0
    /\ UNCHANGED <<hubVersion, latest, wrong>>
    /\ DeviceTwinCallbackHandler(hubVersion,
            [t \in Twins |-> IF t \in wrong THEN 0 ELSE latest[t]], wrong)

Looping == Alive /\ Busy /\ Top.pc = "loop"

Stores(t) == Top.value[t] > 0

SetVersion(t) == propertyVersion' = [propertyVersion EXCEPT ![t] = Top.version]

\* SetDesiredState with a value of the right type: the handler is called.
SetDesiredState ==
    /\ Looping /\ Top.todo > 0
    /\ Stores(Current)
    /\ SetVersion(Current)
    /\ nullUse' = (twinType[Current] = "scalar" /\ propertyValue[Current] = NULL)
    /\ propertyValue' = [propertyValue EXCEPT ![Current] = Top.value[Current]]
    /\ touched' = touched \ {Current}
    /\ SetPc("handler")
    /\ UNCHANGED <<subscribed, opened, hub, badFree>>

\* With a value of another type only the version is taken.
SetVersionOnly ==
    /\ Looping /\ Top.todo > 0
    /\ Current \in Top.bad /\ ~Stores(Current)
    /\ SetVersion(Current)
    /\ stack' = [stack EXCEPT ![1].todo = @ - 1]
    /\ UNCHANGED <<subscribed, opened, propertyValue, hub, touched, memory>>

\* The update does not have the property.
SkipProperty ==
    /\ Looping /\ Top.todo > 0
    /\ Top.value[Current] = 0 /\ Current \notin Top.bad
    /\ stack' = [stack EXCEPT ![1].todo = @ - 1]
    /\ UNCHANGED <<subscribed, opened, propertyValue, propertyVersion, hub, touched, memory>>

\* Mutant: a borrowed value outlives its handler.
BugReleased(t) == propertyValue

Released(t) ==
    IF twinType[t] = "borrowed" THEN [propertyValue EXCEPT ![t] = NULL] ELSE propertyValue

HandlerReturns ==
    /\ Alive /\ InHandler
    /\ propertyValue' = Released(Current)
    /\ stack' = [stack EXCEPT ![1].pc = "loop", ![1].todo = @ - 1]
    /\ UNCHANGED <<subscribed, opened, propertyVersion, hub, touched, memory>>

\* The document is freed.
CallbackReturns ==
    /\ Looping /\ Top.todo = 0
    /\ stack' = Tail(stack)
    /\ UNCHANGED <<subscribed, opened, propertyValue, propertyVersion, hub, touched, memory>>

-----------------------------------------------------------------------------
(* Reported properties.                                                     *)

\* What the application reports: the value the binding has, or one of its own.
Values(t) == {propertyValue[t], Own} \ {NULL}

\* deviceTwinReportState: if the hub is not connected nothing happens.  Else a
\* scalar is set to what is reported, a borrowed value is dropped, and the report
\* is sent through _iothubClientHandle.
deviceTwinReportState(t, v) ==
    \/ UNCHANGED <<propertyValue, touched, nullUse>>
    \/ /\ nullUse' = (~opened \/ (twinType[t] = "scalar" /\ propertyValue[t] = NULL))
       /\ propertyValue' = [propertyValue EXCEPT ![t] = IF twinType[t] = "scalar"
                                                        THEN v ELSE NULL]
       /\ touched' = IF v = propertyValue[t] THEN touched ELSE touched \cup {t}

dx_deviceTwinAckDesiredValue(t, v) ==
    /\ Calls
    /\ deviceTwinReportState(t, v)
    /\ UNCHANGED <<subscribed, opened, propertyVersion, stack, hub, badFree>>

\* A report also calls DoWork ...
dx_deviceTwinReportValue(t, v) ==
    /\ Calls /\ opened
    /\ deviceTwinReportState(t, v)
    /\ IF Busy THEN SetPc("work") ELSE UNCHANGED stack
    /\ UNCHANGED <<subscribed, opened, propertyVersion, hub, badFree>>

\* ... through _iothubClientHandle, which the first dx_deviceTwinSubscribe sets.
ReportsBeforeSubscribe ==
    /\ Calls /\ ~opened
    /\ nullUse' = TRUE
    /\ UNCHANGED <<subscribed, opened, propertyValue, propertyVersion, stack, hub, touched,
                   badFree>>

DoWorkReturns ==
    /\ Alive /\ Busy /\ Top.pc = "work"
    /\ SetPc("handler")
    /\ UNCHANGED <<subscribed, opened, propertyValue, propertyVersion, hub, touched, memory>>

-----------------------------------------------------------------------------
Init ==
    /\ subscribed = FALSE /\ opened = FALSE
    /\ propertyValue = [t \in Twins |-> NULL]
    /\ propertyVersion = [t \in Twins |-> 0]
    /\ stack = <<>>
    /\ hubVersion = 0
    /\ latest = [t \in Twins |-> 0]
    /\ wrong = {}
    /\ stale = {} /\ touched = Twins
    /\ badFree = FALSE
    /\ nullUse = FALSE

Next ==
    \/ dx_deviceTwinSubscribe
    \/ dx_deviceTwinUnsubscribe
    \/ \E good, bad \in SUBSET Twins : HubMissed(good, bad) \/ ReceivePatch(good, bad)
    \/ ReceiveTwin
    \/ SetDesiredState
    \/ SetVersionOnly
    \/ SkipProperty
    \/ HandlerReturns
    \/ CallbackReturns
    \/ \E t \in Twins : \E v \in Values(t) : \/ dx_deviceTwinAckDesiredValue(t, v)
                                             \/ dx_deviceTwinReportValue(t, v)
    \/ ReportsBeforeSubscribe
    \/ DoWorkReturns

Spec == Init /\ [][Next]_vars

-----------------------------------------------------------------------------
\* Whatever the application calls between callbacks and in handlers: no update and
\* no report goes through a NULL pointer while the bindings are subscribed, and
\* deviceTwinClose frees only what deviceTwinOpen allocated, unless a handler is
\* running.  (Reports without a subscription, updates that go on after a handler
\* has unsubscribed, and unsubscribing in the handler of a borrowed value are the
\* uses that the code does not survive.)
MemoryIsSafe ==
    /\ nullUse => ~subscribed
    /\ badFree => Busy

\* A STRING or JSON_OBJECT value is never kept beyond the handler it was set
\* for: afterwards DeviceTwinCallbackHandler frees the document it points into.
BorrowedIsLive ==
    \A t \in Twins : twinType[t] = "borrowed" /\ propertyValue[t] # NULL =>
        \E k \in DOMAIN stack :
            /\ stack[k].pc \in {"handler", "work"}
            /\ deviceTwins[Len(deviceTwins) - stack[k].todo + 1] = t
            /\ stack[k].value[t] = propertyValue[t]

\* Between updates, a scalar that an update has set since it was opened, and that
\* the application has not set otherwise, has the last value of its type the hub was
\* given, unless the property now has another type, the last value was missed, or
\* it was overtaken: it arrived inside the handling of an older update that had yet
\* to store its own.  No other interruption, patch, whole twin or value of the
\* wrong type loses a value or brings back an older one.
LatestWins ==
    ~Busy /\ subscribed =>
        \A t \in Twins : twinType[t] = "scalar" /\ t \notin wrong \cup stale \cup touched =>
                            propertyValue[t] = latest[t]
=============================================================================
