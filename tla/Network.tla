------------------------------ MODULE Network ------------------------------
(***************************************************************************)
(* Is the network there?  dx_isNetworkConnected of dx_utilities.c looks at *)
(* the interfaces and, if it was given the name of one, fetches a web page *)
(* and remembers a success for three minutes; isNetworkReady of            *)
(* dx_azure_iot.c remembers its answer, yes or no, for thirty seconds      *)
(* more.  Both forget when a timer of the event loop expires.  The first   *)
(* call of dx_isNetworkConnected starts its timer.  The timer of           *)
(* isNetworkReady exists from dx_azureConnect to dx_azureToDeviceStop      *)
(* only: what isNetworkReady remembers outside of that never expires.      *)
(*                                                                         *)
(* Time is counted in ticks.  The loop calls the timers that are due       *)
(* before time goes on: what it runs takes less than a tick.               *)
(***************************************************************************)
EXTENDS Integers

CONSTANTS
    CONNECTED_CACHE,    \* three minutes, in ticks
    READY_CACHE,        \* thirty seconds, in ticks
    MaxTime             \* bound on the clock

ASSUME NetworkAssumption ==
    /\ CONNECTED_CACHE \in Nat \ {0} /\ READY_CACHE \in Nat \ {0}
    /\ MaxTime \in Nat

VARIABLES
    now,
    interface, internet,            \* the network: has it an address, does the
                                    \* page answer?
    lastInterface, lastInternet,    \* when each was last there
    network_connected_cached,
    tmr_network_connected_cached,   \* when it is due, 0 when it is not active
    network_ready_cached,
    connection_state,               \* what isNetworkReady remembers
    tmr_network_ready_cached,
    initialized,                    \* tmr_network_ready_cached.initialized, and
                                    \* azureConnectionTimer.initialized with it
    connection_initialized,
    _networkInterface,              \* has dx_azureConnect been given a name?
    askedWhileStarted               \* history: was the timer there when
                                    \* isNetworkReady last looked?

network == <<interface, internet>>
times   == <<now, lastInterface, lastInternet>>
connectedCache == <<network_connected_cached, tmr_network_connected_cached>>
readyCache     == <<network_ready_cached, connection_state, tmr_network_ready_cached>>
connection     == <<initialized, connection_initialized, _networkInterface>>
vars == <<times, network, connectedCache, readyCache, connection, askedWhileStarted>>

-----------------------------------------------------------------------------
(* dx_utilities.c                                                           *)

dx_isNetworkReady == interface

\* dx_getHttpData returns something.
Tested == internet

\* The page is fetched.
Tests(named) == dx_isNetworkReady /\ named /\ ~network_connected_cached

dx_isNetworkConnected(named) ==
    dx_isNetworkReady /\ (Tests(named) => Tested)

\* Mutant: the cache has no timer.
BugCacheConnected ==
    /\ network_connected_cached' = TRUE
    /\ UNCHANGED tmr_network_connected_cached

CacheConnected ==
    /\ network_connected_cached' = TRUE
    /\ tmr_network_connected_cached' = now + CONNECTED_CACHE

\* What a call of dx_isNetworkConnected remembers.
Remembers(named) ==
    IF Tests(named) /\ Tested THEN CacheConnected ELSE UNCHANGED connectedCache

\* The application may call dx_isNetworkConnected itself.
ApplicationAsks(named) ==
    /\ Remembers(named)
    /\ UNCHANGED <<times, network, readyCache, connection, askedWhileStarted>>

network_connected_expired_handler ==
    /\ tmr_network_connected_cached \in 1 .. now
    /\ tmr_network_connected_cached' = 0
    /\ network_connected_cached' = FALSE
    /\ UNCHANGED <<times, network, readyCache, connection, askedWhileStarted>>

-----------------------------------------------------------------------------
(* dx_azure_iot.c                                                           *)

\* There is no memory for the model id, and only the name is kept; IoTHub_Init
\* fails and the timers are not started; or they are.  A call that comes after
\* finds connection_initialized.
dx_azureConnect(named) ==
    /\ ~connection_initialized
    /\ _networkInterface' = named
    /\ \/ UNCHANGED <<initialized, connection_initialized>>
       \/ connection_initialized' = TRUE /\ initialized' \in BOOLEAN
    /\ UNCHANGED <<times, network, connectedCache, readyCache, askedWhileStarted>>

\* dx_timerStop; what isNetworkReady remembers stays.
dx_azureToDeviceStop ==
    /\ initialized
    /\ initialized' = FALSE
    /\ tmr_network_ready_cached' = 0
    /\ UNCHANGED <<times, network, connectedCache, network_ready_cached,
                   connection_state, connection_initialized, _networkInterface,
                   askedWhileStarted>>

\* dx_timerOneShotSet does nothing to a timer that is not initialised.
dx_timerOneShotSet ==
    tmr_network_ready_cached' = IF initialized THEN now + READY_CACHE ELSE 0

\* A question that the cache answers changes nothing.
isNetworkReady ==
    /\ ~network_ready_cached
    /\ connection_state' = dx_isNetworkConnected(_networkInterface)
    /\ network_ready_cached' = TRUE
    /\ dx_timerOneShotSet
    /\ Remembers(_networkInterface)
    /\ askedWhileStarted' = initialized
    /\ UNCHANGED <<times, network, connection>>

network_ready_expired_handler ==
    /\ tmr_network_ready_cached \in 1 .. now
    /\ tmr_network_ready_cached' = 0
    /\ network_ready_cached' = FALSE
    /\ UNCHANGED <<times, network, connectedCache, connection_state, connection,
                   askedWhileStarted>>

-----------------------------------------------------------------------------
(* The environment.                                                         *)

NetworkChanges ==
    /\ interface' \in BOOLEAN /\ internet' \in BOOLEAN
    /\ internet' => interface'
    /\ lastInterface' = IF interface' THEN now ELSE lastInterface
    /\ lastInternet' = IF internet' THEN now ELSE lastInternet
    /\ UNCHANGED <<now, connectedCache, readyCache, connection, askedWhileStarted>>

NothingDue ==
    /\ tmr_network_connected_cached \notin 1 .. now
    /\ tmr_network_ready_cached \notin 1 .. now

Tick ==
    /\ NothingDue /\ now < MaxTime
    /\ now' = now + 1
    /\ lastInterface' = IF interface THEN now' ELSE lastInterface
    /\ lastInternet' = IF internet THEN now' ELSE lastInternet
    /\ UNCHANGED <<network, connectedCache, readyCache, connection, askedWhileStarted>>

Init ==
    /\ now = 1
    /\ interface = FALSE /\ internet = FALSE
    /\ lastInterface = 0 /\ lastInternet = 0
    /\ network_connected_cached = FALSE /\ tmr_network_connected_cached = 0
    /\ network_ready_cached = FALSE /\ tmr_network_ready_cached = 0
    /\ connection_state = FALSE
    /\ initialized = FALSE /\ connection_initialized = FALSE
    /\ _networkInterface = FALSE /\ askedWhileStarted = FALSE

Next ==
    \/ \E named \in BOOLEAN : ApplicationAsks(named) \/ dx_azureConnect(named)
    \/ dx_azureToDeviceStop
    \/ isNetworkReady
    \/ network_connected_expired_handler \/ network_ready_expired_handler
    \/ NetworkChanges \/ Tick

Spec == Init /\ [][Next]_vars

-----------------------------------------------------------------------------
Time == 0 .. MaxTime + CONNECTED_CACHE + READY_CACHE

\* Every variable has its type: no timer is due later than its cache lasts.
TypeOK ==
    /\ now \in Time /\ lastInterface \in Time /\ lastInternet \in Time
    /\ interface \in BOOLEAN /\ internet \in BOOLEAN
    /\ network_connected_cached \in BOOLEAN /\ tmr_network_connected_cached \in Time
    /\ network_ready_cached \in BOOLEAN /\ tmr_network_ready_cached \in Time
    /\ connection_state \in BOOLEAN /\ askedWhileStarted \in BOOLEAN
    /\ initialized \in BOOLEAN /\ connection_initialized \in BOOLEAN
    /\ _networkInterface \in BOOLEAN

Answer == network_ready_cached /\ connection_state

\* Between dx_azureConnect and dx_azureToDeviceStop, a yes that isNetworkReady
\* found in that time is never old: an interface had an address at most
\* READY_CACHE ago and, if one was named, the network had been reached end to end
\* at most CONNECTED_CACHE + READY_CACHE ago, whoever made that test.  An answer
\* remembered before dx_azureConnect, or kept by dx_azureToDeviceStop, has no
\* timer and may be of any age.
AnswerIsRecent ==
    Answer /\ initialized /\ askedWhileStarted =>
        /\ now - lastInterface <= READY_CACHE
        /\ _networkInterface => now - lastInternet <= CONNECTED_CACHE + READY_CACHE
=============================================================================
