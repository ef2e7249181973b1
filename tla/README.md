# A verification project for EdgeDevX

EdgeDevX is a C library for Linux edge devices: an application declares
*bindings* (timers, async calls, GPIO lines, device twins, direct methods), the
library opens them, runs a libuv event loop and keeps a connection to Azure IoT
Hub, directly or through the Device Provisioning Service (DPS), and on top of it
optionally to Avnet IoTConnect. This directory holds TLA+ models of the library's
own code (`src/src/dx_*.c`) and of the two clients of the vendored Azure IoT SDK it
runs on, TLC configurations that check them on small instances, and proofs for TLAPS
of what matters most.

Paths and line numbers below are those of the repository at the commit modelled;
`PROJECT.json` has the complete map from definitions to lines.

## 1. Inventory

| component | state it keeps | operations | hard behaviour |
|---|---|---|---|
| **Azure connection** `dx_azure_iot.c` | authentication state, device connection state, provisioning handle and security flag, hub URI, client handle, count of unconfirmed messages, table of status callbacks, last state announced, cached network answer, two timers | `dx_azureConnect`, `dx_azureToDeviceStop`, `dx_azurePublish`, `dx_isAzureConnected`, register/unregister of callbacks; the one-shot handler `AzureConnectionHandler` with `SetupAzureClient` and DPS; callbacks of the SDK | re-entrancy: `DoWork` calls callbacks, callbacks call the library, the library calls `DoWork`; several state variables written from different places; one-shot timer; retries; a client destroyed with messages in it |
| **Timers** `dx_timer.c` | per binding: initialised; in libuv: active, repeat | start, stop, one-shot set, change, loop run and stop | the operations do nothing at all on a timer in the wrong state |
| **Event loop, async, termination** `dx_async.c`, `dx_terminate.c`, `dx_timer.c` | async data, libuv's pending marks and stop flag, exit code | `dx_asyncInit`, `dx_asyncSend` (from any thread), `dx_terminate`, the SIGTERM handler, `dx_eventLoopRun/Stop` | threads, merged wake-ups, a signal between any two steps |
| **Network checks** `dx_utilities.c`, `dx_azure_iot.c` | two caches, each with a timer | `dx_isNetworkConnected`, `isNetworkReady`, two expiry handlers | a cache on top of a cache |
| **Device twins** `dx_device_twins.c` | the bindings' value pointer and version | subscribe, unsubscribe, update callback, report, acknowledge | values owned or borrowed from a JSON document; updates nested in handlers |
| **IoTConnect protocol** `dx_avnet_iot_connect.c` | connected flag, sid, dtg, list of children, monitor timer | connect, create/delete child, handling of 200/204/221/222 responses, reconnect callback | lost and redelivered messages, sessions that come and go, restarts |
| **Child list** same file | a doubly linked list on the heap | insert, find, delete one, delete all | pointers |
| **GPIO** `dx_gpio.c` | per binding a line handle, per chip a handle and a count | open, close, set open, set close | a shared resource that is counted; a request that fails half way |
| **OpenAI functions** `dx_openai_functions.c` | the JSON conversation | init, post request, free | requests nested in handlers; messages removed by index |
| **Hub client** `iothub_client_core_ll.c`, `iothubtransport_mqtt_common.c`, retry control, `umqtt` | connection status, packet state, topics, four queues of messages and reports, twin requests, ages | send, report, DoWork, destroy; CONNACK, SUBACK, PUBACK, twin responses, errors | two state variables that must agree; resends, timeouts and acknowledgements competing for an entry; callbacks that call DoWork; deferred disconnects |
| **Provisioning client** `prov_device_ll_client.c`, `prov_transport_mqtt_common.c` | three state machines (client, transport, connection), operation id, time of the last request | register, DoWork, destroy; replies, transient errors | layers that drive each other; retries after a delay; an error reason set in some places only |
| Configuration `dx_config.c` | the parsed options | parse once | sequential |
| Direct methods `dx_direct_methods.c` | table of bindings | dispatch | ownership of the response |
| JSON serializer, logging, remaining utilities | none | formatting | none |
| PWM, I2C, `rx_gpio` | | | not part of the build (`CMakeLists.txt`) |

How they interact. Everything but `dx_asyncSend` and the signal handler runs on
the one thread of the event loop, so interleaving comes from three other sources:
the order in which timers expire and messages arrive; *nesting*, because
`IoTHubDeviceClient_LL_DoWork` is called by the connection timer, by
`dx_azurePublish` and by `dx_deviceTwinReportValue` and runs callbacks, which may
call these again; and the outside, that is the hub, DPS, the IoTConnect platform
and the network. The status callbacks of the Azure connection drive the IoTConnect
handshake (`AvnetReconnectCallback`); network caches and connection share a timer;
twins, methods and messages reach the application through callbacks registered
with the connection. Below, the provisioning client runs until it has a hub, then the
hub client takes its place; both work only when `dx_azure_iot.c` calls their DoWork.

What makes each part correct is listed, hazard by hazard, in `PROJECT.json`
("hazards") and stated by the properties in section 4.

## 2. Modules

| module | models | composition |
|---|---|---|
| `DxTimer` | `dx_timer.c` as operators on a record `[initialized, active, repeat]` | used by `AzureIoT` and `AvnetIoTConnect` |
| `AzureIoT` | the connection layer, whole | extends `DxTimer`; implements `Session` |
| `Session` | abstract: one session at a time, opened with DPS only after a registration, each message counted down once | |
| `EventLoop` | async calls, termination, loop | |
| `Network` | the two caches over discrete time | |
| `DeviceTwins` | twins with ownership of values and nested updates | |
| `AvnetIoTConnect` | the handshake and the child protocol, with the platform, the queues and faults | extends `DxTimer`; uses `Children` |
| `ChildList` | the linked list on a heap | implements `Children` |
| `Children` | abstract: a sequence of children | |
| `Gpio` | bindings, chips and their counts | |
| `OpenAI` | the conversation | |
| `HubClient` | the SDK's hub client over MQTT, with umqtt and the hub | implements `Confirmations` |
| `Confirmations` | abstract: an accepted item is confirmed once, at the latest when the client is destroyed | |
| `ProvClient` | the SDK's provisioning client over MQTT, with the service | instantiated by `DeviceClients` |
| `DeviceClients` | registration, then hub client, as `SetUpAzureIoTHubClientWithDpsPnP` composes them | extends `HubClient` |
| `*Proofs` | theorems | extend the module they are about; `DeviceClientsProofs` is about `HubClient` and `ProvClient`, too, and `HttpProofs` about `Network` and `OpenAI`, the two parts that use libcurl (so that both can be extended, the specification of `OpenAI` is called `ConversationSpec`) |
| `MC*` | values of constants for TLC, symmetry | extend the module they instantiate |

### How the models correspond to the code

*Atomicity.* An action is what the code does between two points at which anything
else can run. On the loop's thread these are calls of `DoWork` and of application
callbacks; `AzureIoT` and `DeviceTwins` have a variable `stack` with one frame per
function that is waiting for such a call. `AzureConnectionHandler` with
`SetupAzureClient` is therefore one step up to its `DoWork`; the loop over the
subscribers is one step per subscriber; `dx_azurePublish` is a check, a send and a
`DoWork`. `HubClient` has such a stack, too: a DoWork is one frame whose `pc` says how
far it is, a callback is a frame on top of it, and the code that follows a callback is
an action of its own (`RefusedReturns`, `ErrorReturns`, `TwinReturns`, `SasReturns`,
`ClosingReturns`). In `ProvClient`, whose callbacks call nothing back, `at` is enough. In `EventLoop` the threads' steps are the store to `async.data`, libuv's
test-and-set of the pending mark and the write that wakes the loop. The store is
taken to be visible before the test. This is an assumption: the C code stores it without
synchronisation, and where the mark is already set libuv returns after a relaxed read
of it. `dx_terminate` and the signal handler are two steps each, the exit code and then
the stop flag, since a signal may come between the statements and may be
handled by another thread than the loop's.

*Atomic all the same.* `DestroyClient` of `AzureIoT` is one step and calls only the
confirmations. The SDK's destruction runs the transport a last time
(`iothubtransport_mqtt_common.c:2236-2241`, in `HubClient`), where other callbacks may
come, too; the model has them just before the destruction and not during it.

*Data.* Hubs, children, tags and subscribers are model values; a twin's value is the
version of the update that brought it; a JSON document is the set of properties it
has, each with a value of the right or of a wrong type; a response of IoTConnect is
its `ct` and the fields the code reads; a `dtg` is "valid", "empty" or "absent".
Conversions that decide something are modelled by what they do: has.d read as a
boolean from a number (`HasDValue`), a copy of the hub's name that may fail
(`Assign`), the uninitialised result of `dx_azurePublish` on the path where a
property cannot be set (`PublishSend`, either value).

In `HubClient` a packet is its message or report; the age of an entry counts up to the
limit it is compared with, and time passes between outermost calls; the retry control
may say now or later at any time. A twin request on a connection that is gone is left
out at once, since nothing answers it. Memory used after it was freed ends the program
(`client = "crashed"`). The confirmation callbacks only count, as those of
`dx_azure_iot.c` and `dx_device_twins.c` do. In `ProvClient` a unit of time is a poll.

*Environment*, marked external in the map. libuv: an active timer may expire at any
moment and is deactivated before its handler runs; pending marks, the wake-up file
descriptor, the stop flag. The Azure SDK as `AzureIoT` and `DeviceTwins` see it:
callbacks come only from `DoWork`; destroying a client confirms the messages in it
(`HubClient` has the code behind both). `uv_async_send` does not fail (the
`dx_terminate` at `dx_async.c:22-26` is not reached). DPS sends a reply once: a QoS 1
reply that is delivered again is not modelled. libgpiod: closing a chip frees its
lines; a line is requested at most once. The hub delivers cloud-to-device messages
at least once. The platform answers the requests it gets.

*History variables*: `assignedHub`, `told` (AzureIoT), `seen`, `last`, `stopped`
(EventLoop), `lastInterface`, `lastInternet`, `askedWhileStarted` (Network), `latest`,
`wrong`, `stale`, `touched`, `badFree`, `nullUse` (DeviceTwins), `failed` (Gpio), `sent`,
`posts` (OpenAI), `faults`, `lacks` (AvnetIoTConnect), `told`, `confirms` (HubClient), `answers` (ProvClient).

## 3. Bounds

| run | constants | why they suffice |
|---|---|---|
| `azure_nested` | 4 connection types, 2 hubs, 2 subscribers in 2 slots, `MaxRetry` 0, `MaxQueue` 1, calls from application code up to stack depth 4, early calls allowed | two hubs show a stale assignment; depth 4 nests publish, check, status callback and publish again inside the connection handler; two subscribers, one of which is told after the callback of the other has used the connection; the retry limit is passed at the second poll of an attempt, so that a registration arrives before, at or after it; one message in the client is enough to lose or double a confirmation |
| `azure_live` | DPS and STRING, 1 hub, 1 subscriber, calls from the loop only, none before the start | liveness needs no second hub or queued message |
| `child_list` | 4 nodes, 3 ids, 2 tags | see `MCChildList` |
| `avnet_faults` | 2 ids, 2 tags, one fault of any of six kinds, hello responses with and without a sid and with a valid, an empty or no dtg, 2 messages under way | reconnects are not faults and happen at any time, so a fault meets any number of them; a request and a late response under way together |
| `avnet_monitor` | 1 child, one loss | |
| `gpio_shared` | 6 bindings (3 on one chip, two of them on the same line, one on another chip, two invalid), 2 chips, sets of 2 | sharing of a chip and conflict on a line |
| `twins` | a scalar behind a borrowed twin, 3 versions, up to 3 updates in each other | an update missed, one interrupted and one after; one that interrupts the handler of the first binding finds the second still ahead, one that interrupts the handler of the second does not |
| `event_loop` | 2 bindings, 2 threads, 3 sends, with and without a repeating timer | two sends merge into one wake-up while the third comes after it was taken |
| `network_cache` | caches of 6 and 1 ticks (3 minutes and 30 seconds), 20 ticks, with and without a named interface, before, between and after connect and stop | both caches fill, overlap and expire more than twice |
| `hub_nested` | 2 messages, the twin's topic, resend after 1, timeout after 2 units, one callback deep | two entries in the queue, one of them removed while the other is looked at; a callback that calls DoWork, which disconnects or destroys the connection below it |
| `device_live` | a registration given up at most once, retry times of 1 and 2, then 1 message and 1 report with all topics | a retry after a longer and a shorter delay, a second registration after the first; message and report timing out in either order |
| `openai` | no, two, three and six messages in the file, 4 requests, depth 2 | files with none, one and several messages of a role |

`MaxDepth`, `MaxQueue`, `MaxSends`, `MaxTime`, `MaxPosts`, `MaxVersion`,
`MaxInFlight`, `MaxFaults`, `MaxSet`, `MaxNest` and `MaxGiveUps` exist for TLC only; they appear in guards.
Each kind of fault happens at most once in a behaviour, and at most `MaxFaults`
kinds do; the theorems of `AvnetIoTConnectProofs` are for every number of them.

Deadlock is checked in every run but `hub_nested` and `device_live`, where a client
that is destroyed does nothing any more, and `twins`, where a program that has used
NULL or freed memory it did not allocate is at its end. The other models do not stop: the network, the
services or the application always have a step.

## 4. Runs and what they show

**azure_nested.** With any connection type, callbacks that call back in, and calls
before the start and after the stop: provisioning resources exist exactly while
provisioning is under way (`ProvisioningResources`); the way to connect does not
change under a connection (`ConfigurationIsFixed`); the handler never waits for a
client that does not exist (`SessionHasClient`, `ConnectedMeansSession`); an
authenticated client has been announced (`AuthenticatedIsAnnounced`); a message is
handed over only in the state the check saw (`SendsWhileAuthenticated`); the count
of unconfirmed messages is right across the destruction of clients
(`OutstandingIsQueued`); the one-shot connection timer is never lost
(`TimerNeverLost`); a client is for the hub assigned last (`HubIsAssigned`);
the subscriber in the first slot was last told what was last announced, although
callbacks use the connection (`FirstSubscriberAgrees`; for the later slots see section
6); and the layer implements `Session`.

**azure_live.** If the network stays up, the device is authenticated
again and again (`ComesOnline`), for an application that uses the connection only once
it is started.

**child_list.** `DoublyLinked`, `NoLeak`, and refinement of `Children`.

**avnet_faults.** A device that has a session and is not connected has a hello or list
request, or the response to one, under way (`HandshakeGoesOn`), unless a message was lost,
a session dropped without notice, or the last hello response had no valid dtg: then
nothing in the code asks again. Its children are listed once (`ChildrenDistinct`,
except after redelivery) and are those on the platform's record (`ListAgrees`, except
after edits and redelivery). A session that stays up, in which the last hello response
had a sid and a valid dtg, ends in a connection that has both
(`StableSessionConnects`), also if a late 204 response had connected the device
without them. The monitor timer never
runs (see `avnet_monitor`), which is why `Next` has no action for its handler.

**avnet_monitor** (a violation). With the handler of the monitor timer and fairness
for it, `ResendsHello` fails after one lost message: `dx_avnetConnect` starts the
timer with neither delay nor repeat and `dx_timerChange` only sets a period.

**gpio_shared.** `CountIsOpen` and `OpenHoldsLine`, if a binding whose request
failed is not used again (section 6 says what happens otherwise).

**twins.** The application may subscribe, unsubscribe, report and acknowledge whenever
it runs, in handlers too. The code does not survive all of it: `MemoryIsSafe` says
that NULL is used only without a subscription and that memory is wrongly freed only
in a handler. A borrowed value does not outlive its document
(`BorrowedIsLive`). Between updates a scalar that an update has set has the last value
of its type (`LatestWins`), whatever was interrupted by what, unless that value was missed,
the application has set another since, or it was *overtaken*: it came inside a
handler of an older update that had yet to store its own.

**event_loop.** No data sent last is lost (`NoLostSend`). If the loop ends with
something to wait for, and the application has not stopped it without a code
(`dx_eventLoopStop`, or `dx_terminate(0)`), the exit code is set (`EndsForAReason`): the
order of the two statements of the handler matters, because the loop may run
between them. Under fairness the handler sees the last data unless the loop
ends first (`LastSendIsSeen`), and `dx_terminate`, `dx_eventLoopStop` and SIGTERM end the
loop, unless it stays asleep: without a timer, a SIGTERM that finds it polling is
seen only at the next `dx_asyncSend` (`TerminateEnds`).

**network_cache.** `AnswerIsRecent`: between `dx_azureConnect` and
`dx_azureToDeviceStop`, a yes found in that time is at most as old as the two periods
together. A yes remembered before the one or kept by the other has no timer and is not
covered; the run has them.

**openai.** `ConversationIsBounded` and `OnlyItsOwn`.

**hub_nested.** With callbacks that call DoWork again: every message handed over is
confirmed exactly once, by whichever of PUBACK, failed publish, timeout and destruction
comes first (`ImplementsConfirmations`); a client that is back on a session has said so
(`ConnectedIsTold`); and no topic is asked for that has no name (part of `TypeOK`).

**device_live.** A registration and then the hub client. Provisioning: at most one
request is unanswered (`OneRequest`), so that a reply, which is matched by the
transport's state alone, is the one to the last request; the answer comes once, and says
OK exactly if there is a hub (`AnswerIsSound`); and it comes (`Registers`). Hub client:
nothing is sent before the CONNACK if callbacks do not call DoWork (`SessionFirst`); what was
sent is confirmed, by a timeout at the latest (`SentIsSettled`); a lost connection is
opened again unless the credentials were refused (`Reconnects`).

Every property of a passing run has a mutant in `PROJECT.json`: a definition (`Bug...`
in the modules) that changes the code the way a plausible mistake would, and with
which TLC finds the property violated.

### Fairness

*Program* (`AzureIoT!ProgramFairness`, `EventLoop!FairSpec`): libuv runs the handler
of an expired timer, a signal handler that has begun ends, a `DoWork` handles finitely many events and returns, application
callbacks return, a function goes on after a call. Strong fairness where other work
of the same thread can come in between any number of times: an active timer's
handler waits only while the stack is not empty.

*Services* (`AzureIoT!ServiceFairness`): if the program keeps trying, a client can be
created, the hub accepts a session and DPS answers within an attempt. The code does
not guarantee this; `ComesOnline` is the statement that nothing else is needed.

*IoTConnect* (`AvnetIoTConnect!Fairness`): the loop dispatches messages and the
platform answers.

*SDK clients* (`HubClient!Fairness`, `ProvClient!Fairness`): the connection timer calls
DoWork again and again; a DoWork goes on; one that listens returns, strongly fair
because events may come in between; callbacks return; time passes between calls. Of the
outside, strong fairness says that a connection can be opened and is accepted now and
then, and that DPS decides in the end if it is asked again and again. Nothing is said
about PUBACKs, SUBACKs and responses of the hub: `SentIsSettled` holds without them.

## 5. Proofs

| module | theorems | inductive invariant |
|---|---|---|
| `AzureIoTProofs` | `TypeCorrect`; `SessionCorrect` and from it `ProvisioningCorrect`, `SessionClientCorrect`, `ConnectedCorrect`, `AnnouncedCorrect`, `ConfigurationCorrect`, `PublishCorrect`, `OutstandingCorrect`; `TimerCorrect`; `HubCorrect` and from it `HubIsAssignedCorrect`; `SessionImplemented`; `FirstSubscriberCorrect` | `TypeOK`; `SessionInv`; `TimerNeverLost`; `HubInv`; `FirstInv` |
| `DeviceClientsProofs` | hub client: `TypeCorrect`, `ConfirmationsImplemented`, `ConnectedIsToldAlways`, `SessionFirstAlways`; provisioning client: `OneRequestAlways`, `AnswerIsSoundAlways`; the composition: `HubClientComposed` | `TypeInv`; `QueuesInv` and `IdleInv`; `ToldInv`; `SessionInv`; `ProvInv` |
| `DeviceTwinsProofs` | `BorrowedCorrect`, `MemoryCorrect`, `LatestCorrect` | `TypeInv`; `StorageInv`, `SafeInv`; `LatestInv` |
| `AvnetIoTConnectProofs` | `HandshakeCorrect`, `ChildrenDistinctCorrect`, `ListAgreesCorrect` | `TypeInv`; `HandshakeInv`; `DistinctInv`; `ListInv` |
| `ChildListProofs` | `LinksCorrect`, `NoLeakCorrect`, `ChildrenImplemented` | `ListInv`; there is a sequence with `IsList` |
| `GpioProofs` | `CountCorrect`, `LinesCorrect` | `GpioInv` |
| `EventLoopProofs` | `AsyncCorrect`, `ReasonCorrect` | `DataIsLast` and `NoLostSend`; `StopHasCode` |
| `HttpProofs` | `AnswerCorrect`; `BoundedCorrect`, `OnlyItsOwnCorrect` | `Inv`; `ConversationInv` |

Every safety property and every refinement that a passing run checks is a theorem. They hold
for every value of the constants under the named assumptions of the modules, which say
that numbers are numbers, that `NULL` differs from the values it stands beside, that the
bindings of `Gpio` and the ids of `AvnetIoTConnect` are finitely many.

Three theorems have an assumption of their own, where the code keeps the property only
under a condition; section 6 tells what happens otherwise.

| theorem | assumes | because |
|---|---|---|
| `CountCorrect`, `LinesCorrect` | `Retries = FALSE` | a binding whose request failed keeps a freed handle |
| `SessionFirstAlways` | `MaxNest = 0`: callbacks do not call DoWork | the packet state is overwritten after the callback |

The runs that check these properties give the constants values that satisfy the assumptions.

*AzureIoT.* The conjuncts of `SessionInv` hold one another up, and none is inductive
alone. Four places reset `deviceConnectionState` without releasing the provisioning
handle; two of them are callbacks of a client, and `ProvisioningResources` says that
a client excludes provisioning. A set-up that started from CONNECTED would go on with
the handle it has just destroyed, so `SessionHasClient` needs
`ConnectedMeansSession`, and since the type of connection decides which set-up runs,
both need `ConfigurationIsFixed`. A check keeps `AuthenticatedIsAnnounced` because an
authenticated client exists (`SessionHasClient`). A frame on the stack that will send
is always the top one (`SendsWhileAuthenticated`), because a check that answers yes
in an authenticated session announces nothing (`AuthenticatedIsAnnounced`), and so
the message goes to a live client and is counted (`OutstandingIsQueued`).
`TimerNeverLost` is a statement about the bottom frame of the stack, with lemmas for
what pushing and popping do to it. `HubInv` adds that the address kept is the assigned one
or none, and that a client exists only once the type is fixed. With `SessionInv`, also of the
next state, and `HubInv` each action is a step of `Session` or a stutter: the phase,
the message count and the assignment of the abstract session are functions of the variables.
`FirstInv` is about the announcements on the stack: at most one has the first slot still
before it, it is on top and announces the state last recorded (`Announcing`); all
others are `Past` that slot, and then its subscriber agrees. It holds since the code
records a state before it starts the loop, and starts the loop with the first slot.

*The hub client.* `TypeInv` adds to `TypeOK` which continuation a frame may have
(`Proper`); lemmas say once how each kind of step moves the stack (`Replaced`,
`CalledFrom`). For the refinement of `Confirmations` an item must be in one queue at most
(`QueuesInv`), and code runs only while a client exists (`IdleInv`); the queues are
cut with `Keep`, for which the lemmas at the head of the module say which
elements stay and that none is doubled. `ConnectedIsTold` is about an idle
client. Inside a callback it fails: a lost connection has been told and the session is
still marked as connected. `ToldInv` says that then some `processErrorCallback` on the stack
is about to end it (`Failing`). `SessionFirst` rests on `OpeningInv`: while a
connection is being opened, no DoWork on the stack is about to publish, which holds since
application code is only on top (`Flat`).

*The provisioning client.* Three layers drive each other, and `ProvInv` is what they must
agree on: a request is under way only on a subscribed connection, the transport's state
fixes the client's (`RequestInv`), an error has a reason before it is answered, and
after the answer the client rests (`AnswerInv`).

*DeviceTwins.* A borrowed value is that of a frame whose handler for the binding runs, and
such a frame stays until the handler returns, which resets the value. `MemoryIsSafe`
needs `StorageInv`, a scalar of a subscribed binding has its storage, and that a
subscription has set the handle (`SafeInv`); a borrowed value outside of handlers is
NULL by `BorrowedIsLive`, so that closing frees nothing of it. `LatestInv`: a
scalar that is neither excepted nor up to date will still be set by an update on the
stack that has the latest value, and no update on the stack will set it to another.

*AvnetIoTConnect.* `HandshakeInv` adds that the device knows the state of its session
unless messages or sessions were lost: each session that begins then sends a hello
message, and a response that does not connect asks for the children. The other two are about messages in flight: `Present(list, q, x, t, n)` says, without running the
handlers, whether a child is on the list once *n* responses of the queue *q* have been handled.
`DistinctInv` has the property for the list at hand and `AddsAreNew` for every response
under way; `ListInv` says that what will be present is on the platform's record and, if
the device is connected or will be through a response (`Connects`), conversely
(`Complete`). A step of the platform appends to *q*, one of the device
takes the first response off, and in both cases `Present` changes as the record does. What a
204 response does to the list is a recursive function (`AllReplaced`), about which the
needed fact is shown for the least stage at which it would fail.

*ChildList.* Reachability is said without recursion: the listed nodes are those in
every set closed under `head` and `next`, and `NoLeak` says that no proper subset of
the heap is closed. A closed set after an insertion or removal gives one before it.
For the refinement, `IsList(s)` describes the list as a sequence of nodes. There is at
most one such sequence, the walk along `next` is it, insertion appends to it, and
unlinking drops one element; the operations of `Children` follow. That a search stops at the
first node with the id is again shown for the least step at which it would not.

*Gpio.* A chip's count is the cardinality of its open bindings; opening or closing
changes it by one, and a chip is closed exactly when no binding of it is open, so
that freeing its lines touches none.

*EventLoop.* Once `data = last`, a binding with unseen data is pending, is being
handled before the read, or has a thread between the store and the test. `StopHasCode`:
where the stop flag is set, the second statement is due or the loop has ended,
the exit code is set or the application has stopped the loop itself.

*Network.* Each cache is tied to the due time of its timer, which bounds its age; the
timer of the outer one is set while it holds an answer found in a started connection,
and the connection is started once, so that the name of the interface does not change.

*OpenAI.* The messages of a role are counted by the indices that hold them. Removing
a message maps the indices after it one down, an injection, so the count of the
role removed falls by one and that of others stays. With at most one message of a role in the
file the bound is one, so that `del_existing_msgs`, which removes the first, removes all.

Induction over data is done in set form: a least counterexample exists
because `<` on the natural numbers is well founded (`LeastNatural`).

### Only model-checked

Liveness, and with it everything about fairness: `ComesOnline`,
`StableSessionConnects`, `LastSendIsSeen`, `TerminateEnds`, `SentIsSettled`,
`Reconnects`, `Registers`. The proof system installed has no rules for fairness and
`ENABLED`.

## 6. Where the code deviates

The violation of section 4 has a run. These were met while modelling and are described
here. Where a property would fail because of one, its condition names the circumstance.

The library:

* `dx_azure_iot.c:217-224` sets `previous_connection_state` before the loop over the
  subscribers. If the first subscriber publishes, its check may find that the connection
  has changed again and announce that to all; the outer loop then goes on to tell the
  second subscriber the old state, last (`include/dx_azure_iot.h:75` promises to notify
  of changes). The repository's own subscriber, `AvnetReconnectCallback`
  (`dx_avnet_iot_connect.c:75-86`), publishes in its callback. `FirstSubscriberAgrees` is
  therefore about the first slot only.
* `dx_gpio.c:67-79`: a failed line request closes the chip, which frees the line, and
  leaves `__line_handle` set; the next open succeeds and the next close releases freed
  memory and makes the count negative. `Retries`. An application of sets cannot avoid
  this: `dx_gpioSetOpen` returns nothing (`:132`), `dx_gpioSetClose` closes all bindings.
* `dx_azure_iot.c:283` drops the authenticated state when the network is gone without
  notifying the subscribers (the comment at 209 says they are called when the
  connection has changed). They learn of it at the next check of the connection.
* `dx_azure_iot.c:138`: after `dx_azureToDeviceStop` the client and its session
  remain, and a publish or report still runs `DoWork` and delivers twins, methods and
  messages (`dx_azure_iot.h:63` says they will not be received).
* `dx_azure_iot.c:615`: a registration that completes in the poll in which the retry
  limit is passed is discarded.
* `dx_azure_iot.c:241-243`: `dx_timerOneShotSet` does nothing to a timer that is not
  initialised (`dx_timer.c:109`), which this one is only from `dx_azureConnect` to
  `dx_azureToDeviceStop` (`:142`). An answer remembered before or after that never
  expires, nor does one whose timer the stop removed. `EarlyCalls` in `AzureIoT`,
  `askedWhileStarted` in `Network`.
* `dx_terminate.c:17`: `uv_stop` in a signal handler does not wake the loop. A program
  with async bindings and no timer that gets SIGTERM while it polls goes on sleeping.
  `Asleep` in `TerminateEnds`.
* `dx_azure_iot.c:380`: the result is uninitialised if a property cannot be set.
* `dx_avnet_iot_connect.c:666`: after a restart a late 204 response sets
  `avnetConnected` with empty sid and dtg, until the hello response comes.
* `:516-600`: a hello response connects without a look at the sid, and one with an empty
  dtg, which the comment at `:577` expects, overwrites a valid one while the flag stays
  set. A device that is not connected and gets a response without a valid dtg does not
  ask again. `lacks` records both.
* `:842`: a redelivered 221 response lists a child twice, and a deletion removes one
  of the two. `ChildrenDistinct` excepts redelivery.
* `:580`: a 204 response of the session before sets the flag, so the hello response of
  the new session does not refresh the children. `ListAgrees` excepts edits.
* `:532`: has.d written as a number is read with a boolean accessor, gives -1, then
  255, then true: a device without children asks for them.
* `:279`: `dx_avnetJsonSerializePayload` builds a document before the hello response
  (`dx_avnet_iot_connect.h:74` says it returns false).
* `dx_device_twins.c:263`: an update nested in a handler's report overwrites the
  binding's version, and the handler then acknowledges the later one.
* `:136-142`: the loop over the bindings goes on with its own document after a handler.
  If that handler's report has let a newer update in, a binding further on is set to the
  newer value and then to the older one, where it stays. `Overtaken` in `LatestWins`.
* `:94`: unsubscribing inside the handler of a STRING or JSON_OBJECT twin frees a
  pointer into the JSON document. `:310`: a report after unsubscribing, and an update
  that goes on after its handler has unsubscribed, store through NULL, although
  `include/dx_device_twins.h:67-71` says that inbound and outbound updates stop; a report
  before the first subscription uses a handle that is not set. The
  application of `DeviceTwins` does all of these, and `MemoryIsSafe` says it is no more.
* `:28-37`: subscribing twice without unsubscribing leaks the storage of every scalar.
* `dx_openai_functions.c:161`: only the first message of a role is deleted, so a file
  with several keeps old ones. `OnlyItsOwn` is about files with at most one.
* `dx_config.c:77`: a DPS command line is accepted without device id and key.

The hub client (`iothubtransport_mqtt_common.c` unless named):

* `:2477`, `:2517`: the loop over unacknowledged messages saves the next entry, and then
  disconnects, which handles PUBACKs, and calls back; either may free that entry
  (`PendingDangles`). A DoWork inside a callback may destroy the connection in whose
  dowork the callback runs (`Crash`). `dx_azurePublish` and `dx_deviceTwinReportValue`
  call DoWork from callbacks, so both are within reach of an application.
* `:3636-3639` say that messages are sent in the order of their packet ids on a
  reconnect. A SUBACK that arrives in the same DoWork as its SUBSCRIBE was sent skips the
  reset of the publish times at `:2404-2407`; and in a client's first minute a publish
  time of 0 is not old enough to resend. New messages then overtake the old ones.
* `:2871`: after the callback for an expired token the packet state becomes UNKNOWN even if
  a DoWork in that callback has begun to connect again, and a report turns it into
  SUBSCRIBE before the CONNACK. `SessionFirst` needs callbacks that do not call DoWork.
* `:2392`: every report and every twin response leads through SUBSCRIBE, and with it all
  unacknowledged messages are sent again on a healthy connection.
* `:3635-3642`: after a timeout has disconnected, the same DoWork still tries to publish,
  and all waiting messages are confirmed as failed.
* `iothub_client_core_ll.c:2105-2109`: a report whose PUBLISH fails is dropped without its
  callback. `Lossy` in `Confirmations`.
* `:2125`: a refusal because of the protocol version ends reconnecting and is reported to
  nobody.
* `:450`: packet ids wrap without a look at those in use.

The provisioning client:

* `prov_device_ll_client.c:931-933`: "Ensure that we are passed the throttling time and
  send on the first send" sets the time into the future; the first request goes out only
  because the unsigned difference wraps (`Due`).
* `prov_transport_mqtt_common.c:363`: replies are not compared with the request id.
* `prov_device_ll_client.c:1183`: a lost reply is waited for without end (no timeout is
  set); `dx_azure_iot.c:615` gives up after 60 polls.

## 7. Not modelled

* Time, except in `Network`: a timer may expire at any moment.
* Memory exhaustion, except where the code goes on after it (`Assign`).
* Configuration, direct methods, the JSON serializer, logging, string and time
  helpers, parson. `PROJECT.json` says why for each.
* Of the vendored Azure SDK everything that EdgeDevX does not run: AMQP and HTTP, the
  serializer, the multi-threaded client, the service client, modules, uploads, TPM and
  X509, TLS adapters, test tools. These are far the most of the repository's lines; a
  model of them would say nothing about this program. Of `umqtt` only what the transports
  see: connections that open, fail and deliver packets.
* Failures of the tick counter, and user-supplied options of the SDK clients.
* The text of reports and telemetry.

## 8. Plan

Done: the connection layer with its timers and the abstract session first, then the
parts it drives (IoTConnect with its list) or that hang on it (twins, network), then
the parts beside it (loop, GPIO, OpenAI); then the two SDK clients below the connection
layer, the contract of confirmations and their composition; theorems for every safety
property of the runs and for the three refinements.

Next, in this order:

1. Action properties worth a theorem that follow from the invariants proved, such as what
   may take a message out of the client's queues, and the order of messages after a
   reconnect for a client that is older than a minute.
2. A composition of `AzureIoT` and `AvnetIoTConnect` through the status callback, in
   place of the `session` variable of the latter.
3. `DirectMethods`: dispatch by name, response codes, who frees the response; the option
   table of `dx_config.c`.

## 9. Running

    tlc -workers 2 -config AzureIoT_nested.cfg MCAzureIoT
    tlapm AzureIoTProofs.tla

The configuration, module and expected outcome of every run are in `PROJECT.json`.
