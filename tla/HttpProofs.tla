----------------------------- MODULE HttpProofs -----------------------------
(***************************************************************************)
(* The two components that fetch pages with libcurl.                       *)
(*                                                                         *)
(* The age of a "yes" of isNetworkReady, for any length of the two caches: *)
(* an answer is as old as the timers that will make the library forget it  *)
(* allow, and the invariant ties each cache to the due time of its timer,  *)
(* while that timer exists.                                                *)
(*                                                                         *)
(* The conversation of an OpenAI context, for any file and any number of   *)
(* requests, nested or not.                                                *)
(***************************************************************************)
EXTENDS Network, OpenAI, SequenceTheorems, FiniteSetTheorems, FunctionTheorems,
        WellFoundedInduction, TLAPS

-----------------------------------------------------------------------------
(* isNetworkReady.                                                          *)

Types ==
    /\ now \in Nat /\ lastInterface \in Nat /\ lastInternet \in Nat
    /\ tmr_network_connected_cached \in Nat /\ tmr_network_ready_cached \in Nat

\* The network's last sightings.
Sightings ==
    /\ lastInterface <= now /\ lastInternet <= now
    /\ interface => lastInterface = now
    /\ internet => lastInternet = now

ConnectedCacheInv ==
    network_connected_cached =>
        /\ tmr_network_connected_cached > 0 /\ tmr_network_connected_cached >= now
        /\ lastInternet >= tmr_network_connected_cached - CONNECTED_CACHE

\* The timer is there for an answer found since dx_azureConnect, until
\* dx_azureToDeviceStop.
ReadyCacheInv ==
    network_ready_cached /\ initialized /\ askedWhileStarted =>
        /\ tmr_network_ready_cached > 0 /\ tmr_network_ready_cached >= now
        /\ connection_state =>
              /\ lastInterface >= tmr_network_ready_cached - READY_CACHE
              /\ _networkInterface =>
                    lastInternet >= tmr_network_ready_cached - READY_CACHE - CONNECTED_CACHE

\* dx_azureConnect starts the timers once, with the last name it was given.
ConnectionInv ==
    /\ initialized \in BOOLEAN /\ connection_initialized \in BOOLEAN
    /\ _networkInterface \in BOOLEAN
    /\ initialized => connection_initialized
    /\ askedWhileStarted => connection_initialized

Inv == Types /\ Sightings /\ ConnectedCacheInv /\ ReadyCacheInv /\ ConnectionInv

\* Nothing is remembered at first.
LEMMA InvInit == Init => Inv
  <1> SUFFICES ASSUME Init PROVE Inv
    OBVIOUS
  <1>1. Types /\ Sightings
    BY DEF Init, Types, Sightings
  <1>2. ConnectedCacheInv
    BY DEF Init, ConnectedCacheInv
  <1>3. ReadyCacheInv
    BY DEF Init, ReadyCacheInv
  <1>4. ConnectionInv
    BY Zenon DEF Init, ConnectionInv
  <1> QED
    BY <1>1, <1>2, <1>3, <1>4 DEF Inv

\* A test sets a cache and its timer together, while the timer is there; time does
\* not pass a due timer.
LEMMA InvNext == Inv /\ [Next]_vars => Inv'
  <1> SUFFICES ASSUME Inv, [Next]_vars PROVE Inv'
    OBVIOUS
  <1> USE NetworkAssumption DEF Inv, Types, Sightings, ConnectedCacheInv, ReadyCacheInv,
      ConnectionInv
  <1>1. ASSUME NEW named \in BOOLEAN, Remembers(named), UNCHANGED <<times, network>>
        PROVE  ConnectedCacheInv' /\ Sightings' /\ tmr_network_connected_cached' \in Nat
    <2>1. CASE Tests(named) /\ Tested
      <3>1. internet /\ CacheConnected
        BY <1>1, <2>1 DEF Remembers, Tested
      <3> QED
        BY <1>1, <3>1 DEF CacheConnected, times, network
    <2>2. CASE ~(Tests(named) /\ Tested)
      <3>1. UNCHANGED connectedCache
        BY <1>1, <2>2 DEF Remembers
      <3> QED
        BY <1>1, <3>1 DEF connectedCache, times, network
    <2> QED
      BY <2>1, <2>2
  <1>2. CASE isNetworkReady
    <2>1. UNCHANGED <<times, network, connection>> /\ Remembers(_networkInterface)
      BY <1>2 DEF isNetworkReady
    <2>2. tmr_network_ready_cached' = IF initialized THEN now + READY_CACHE ELSE 0
      BY <1>2 DEF isNetworkReady, dx_timerOneShotSet
    <2>3. _networkInterface \in BOOLEAN
      OBVIOUS
    <2>4. ConnectedCacheInv' /\ Types' /\ Sightings'
      BY <1>1, <2>1, <2>2, <2>3 DEF times
    <2>5. connection_state' = dx_isNetworkConnected(_networkInterface)
      BY <1>2 DEF isNetworkReady
    <2>6. dx_isNetworkConnected(_networkInterface) => lastInterface = now
      BY DEF dx_isNetworkConnected, dx_isNetworkReady
    <2>7. dx_isNetworkConnected(_networkInterface) /\ _networkInterface
             => lastInternet >= now - CONNECTED_CACHE
      BY DEF dx_isNetworkConnected, Tests, Tested
    <2>8. ReadyCacheInv'
      BY <2>1, <2>2, <2>5, <2>6, <2>7 DEF times, connection
    <2>9. ConnectionInv'
      BY <1>2, <2>1 DEF isNetworkReady, connection
    <2> QED
      BY <2>4, <2>8, <2>9
  <1>3. ASSUME NEW named \in BOOLEAN, ApplicationAsks(named) PROVE Inv'
    <2>1. Remembers(named) /\ UNCHANGED <<times, network, readyCache, connection, askedWhileStarted>>
      BY <1>3 DEF ApplicationAsks
    <2>2. ConnectedCacheInv' /\ Types' /\ Sightings'
      BY <1>1, <2>1 DEF readyCache, times
    <2>3. ReadyCacheInv' /\ ConnectionInv'
      BY <2>1 DEF readyCache, connection, times
    <2> QED
      BY <2>2, <2>3
  <1>4. ASSUME NEW named \in BOOLEAN, dx_azureConnect(named) PROVE Inv'
    <2>1. /\ ~askedWhileStarted /\ _networkInterface' = named
          /\ UNCHANGED <<times, network, connectedCache, readyCache, askedWhileStarted>>
      BY <1>4 DEF dx_azureConnect
    <2>2. Types' /\ Sightings' /\ ConnectedCacheInv' /\ ReadyCacheInv'
      BY <2>1 DEF times, network, connectedCache, readyCache
    <2>3. ConnectionInv'
      <3>1. initialized' \in BOOLEAN /\ connection_initialized' \in BOOLEAN
        BY <1>4 DEF dx_azureConnect
      <3>2. initialized' => connection_initialized'
        BY <1>4 DEF dx_azureConnect
      <3>3. _networkInterface' \in BOOLEAN /\ ~askedWhileStarted'
        BY <2>1, <1>4
      <3> QED
        BY <3>1, <3>2, <3>3
    <2> QED
      BY <2>2, <2>3
  <1>5. CASE dx_azureToDeviceStop
    BY <1>5 DEF dx_azureToDeviceStop, times, network, connectedCache
  <1>6. CASE network_connected_expired_handler
    BY <1>6 DEF network_connected_expired_handler, times, network, readyCache, connection
  <1>7. CASE network_ready_expired_handler
    BY <1>7 DEF network_ready_expired_handler, times, network, connectedCache, connection
  <1>8. CASE NetworkChanges
    BY <1>8 DEF NetworkChanges, connectedCache, readyCache, connection
  <1>9. CASE Tick
    BY <1>9 DEF Tick, NothingDue, network, connectedCache, readyCache, connection
  <1>10. CASE UNCHANGED vars
    BY <1>10 DEF vars, times, network, connectedCache, readyCache, connection
  <1> QED
    BY <1>2, <1>3, <1>4, <1>5, <1>6, <1>7, <1>8, <1>9, <1>10 DEF Next

\* From dx_azureConnect to dx_azureToDeviceStop, a "yes" that isNetworkReady found
\* in that time is never based on a network seen longer ago than the caches are meant
\* to last: for every length of the caches, with or without the end-to-end test, and
\* whatever the application asks of dx_isNetworkConnected itself.
THEOREM AnswerCorrect == Spec => []AnswerIsRecent
  <1>1. Inv => AnswerIsRecent
    BY NetworkAssumption DEF Inv, Types, ReadyCacheInv, AnswerIsRecent, Answer
  <1> QED
    BY <1>1, InvInit, InvNext, PTL DEF Spec

-----------------------------------------------------------------------------
(* The conversation.                                                        *)

Written == [role : Roles, post : Nat]

Indices(a, role) == {k \in 1 .. Len(a) : a[k].role = role}

Bounded(a, role) == Count(a, role) <= AtLeastOne(CountInFile(role))

ConversationInv ==
    /\ json_root \in BOOLEAN /\ headers \in BOOLEAN /\ posts \in Nat
    /\ message_array # NULL =>
          /\ message_array \in Seq(Written) /\ file \in Seq(Roles)
          /\ \A role \in {"user", "assistant"} : Bounded(message_array, role)
    /\ ~json_root => message_array = NULL /\ sent = <<>>
    /\ OnlyItsOwn

\* The number of messages of a role is a number.
LEMMA CountIs ==
    ASSUME NEW a \in Seq(Written), NEW role
    PROVE  /\ Count(a, role) = Cardinality(Indices(a, role))
           /\ Count(a, role) \in Nat
           /\ IsFiniteSet(Indices(a, role))
           /\ Count(a, role) = 0 <=> Indices(a, role) = {}
<1>1. DOMAIN a = 1 .. Len(a) /\ Len(a) \in Nat
  OBVIOUS
<1>2. Count(a, role) = Cardinality(Indices(a, role))
  BY <1>1 DEF Count, Indices
<1>3. IsFiniteSet(Indices(a, role))
  <2>1. IsFiniteSet(1 .. Len(a))
    BY <1>1, FS_Interval
  <2>2. Indices(a, role) \in SUBSET (1 .. Len(a))
    BY DEF Indices
  <2> QED
    BY <2>1, <2>2, FS_Subset
<1> QED
  BY <1>2, <1>3, FS_CardinalityType, FS_EmptySet

\* A set of natural numbers has a least one.
LEMMA LeastNatural ==
    ASSUME NEW T \in SUBSET Nat, T # {}
    PROVE  \E m \in T : \A k \in T : m <= k
<1> DEFINE R == {p \in Nat \X Nat : p[1] < p[2]}
<1>1. IsWellFoundedOn(R, Nat)
  BY NatLessThanWellFounded DEF OpToRel
<1>2. \A k, m \in Nat : k < m => <<k, m>> \in R
  OBVIOUS
<1> HIDE DEF R
<1>3. PICK m \in T : \A k \in T : ~ (<<k, m>> \in R)
  BY <1>1, WFMin, Zenon
<1>4. ASSUME NEW k \in T PROVE m <= k
  <2>1. k \in Nat /\ m \in Nat /\ ~(k < m)
    BY <1>2, <1>3
  <2> QED
    BY <2>1
<1> QED
  BY <1>4

\* RemoveAt takes out one message.
LEMMA RemoveAtIs ==
    ASSUME NEW a \in Seq(Written), NEW m \in 1 .. Len(a)
    PROVE  /\ RemoveAt(a, m) \in Seq(Written)
           /\ Len(RemoveAt(a, m)) = Len(a) - 1
           /\ \A k \in 1 .. Len(a) - 1 :
                 RemoveAt(a, m)[k] = IF k < m THEN a[k] ELSE a[k + 1]
<1> DEFINE p == SubSeq(a, 1, m - 1)
           q == SubSeq(a, m + 1, Len(a))
<1>1. m \in Nat /\ Len(a) \in Nat /\ m <= Len(a) /\ \A k \in 1 .. Len(a) : a[k] \in Written
  OBVIOUS
<1>2. RemoveAt(a, m) = p \o q
  BY DEF RemoveAt
<1>3. p \in Seq(Written) /\ Len(p) = m - 1 /\ \A k \in 1 .. m - 1 : p[k] = a[k]
  BY <1>1, SubSeqProperties
<1>4. q \in Seq(Written) /\ Len(q) = Len(a) - m /\ \A k \in 1 .. Len(a) - m : q[k] = a[m + k]
  <2>1. m + 1 \in Int /\ Len(a) \in Int /\ \A k \in m + 1 .. Len(a) : a[k] \in Written
    BY <1>1
  <2>2. /\ q \in Seq(Written)
        /\ Len(q) = IF m + 1 <= Len(a) THEN Len(a) - (m + 1) + 1 ELSE 0
        /\ \A k \in 1 .. Len(a) - (m + 1) + 1 : q[k] = a[m + 1 + k - 1]
    BY <2>1, SubSeqProperties
  <2>3. /\ Len(a) - (m + 1) + 1 = Len(a) - m
        /\ ~(m + 1 <= Len(a)) => Len(a) - m = 0
        /\ \A k \in Nat : m + 1 + k - 1 = m + k
    BY <1>1, Z3
  <2>4. \A k \in 1 .. Len(a) - m : k \in Nat
    BY <1>1
  <2> HIDE DEF q
  <2> QED
    BY <2>2, <2>3, <2>4
<1> HIDE DEF p, q
<1>5. /\ p \o q \in Seq(Written) /\ Len(p \o q) = Len(p) + Len(q)
      /\ \A k \in 1 .. Len(p) + Len(q) :
            (p \o q)[k] = IF k <= Len(p) THEN p[k] ELSE q[k - Len(p)]
  BY <1>3, <1>4, ConcatProperties
<1>6. Len(p) + Len(q) = Len(a) - 1
  BY <1>1, <1>3, <1>4
<1>7. ASSUME NEW k \in 1 .. Len(a) - 1
      PROVE  (p \o q)[k] = IF k < m THEN a[k] ELSE a[k + 1]
  <2>1. CASE k < m
    <3>1. k \in 1 .. m - 1 /\ k <= Len(p)
      BY <1>1, <1>3, <2>1
    <3> QED
      BY <1>3, <1>5, <1>6, <2>1, <3>1
  <2>2. CASE ~(k < m)
    <3>1. /\ k - (m - 1) \in 1 .. Len(a) - m /\ ~(k <= Len(p)) /\ Len(p) = m - 1
          /\ m + (k - (m - 1)) = k + 1
      BY <1>1, <1>3, <2>2
    <3> QED
      BY <1>4, <1>5, <1>6, <2>2, <3>1
  <2> QED
    BY <2>1, <2>2
<1> QED
  BY <1>2, <1>5, <1>6, <1>7

\* What is left of a role are messages that were there, without the one removed.
LEMMA RemoveAtCounts ==
    ASSUME NEW a \in Seq(Written), NEW m \in 1 .. Len(a), NEW role
    PROVE  Count(RemoveAt(a, m), role)
              <= IF a[m].role = role THEN Count(a, role) - 1 ELSE Count(a, role)
<1> DEFINE d == RemoveAt(a, m)
           S == Indices(d, role)
           T == Indices(a, role) \ {m}
           f == [k \in S |-> IF k < m THEN k ELSE k + 1]
<1>1. /\ d \in Seq(Written) /\ Len(d) = Len(a) - 1
      /\ \A k \in 1 .. Len(a) - 1 : d[k] = IF k < m THEN a[k] ELSE a[k + 1]
  BY RemoveAtIs
<1>2. Len(a) \in Nat /\ m \in Nat
  OBVIOUS
<1> HIDE DEF d
<1>3. ASSUME NEW k \in S PROVE k \in Nat /\ (IF k < m THEN k ELSE k + 1) \in T
  <2>1. k \in 1 .. Len(a) - 1 /\ d[k].role = role
    BY <1>1 DEF Indices
  <2>2. k \in 1 .. Len(a) /\ k + 1 \in 1 .. Len(a) /\ k \in Nat
    BY <1>2, <2>1
  <2>3. CASE k < m
    <3>1. a[k].role = role /\ k # m
      BY <1>1, <1>2, <2>1, <2>2, <2>3
    <3> QED
      BY <2>2, <2>3, <3>1 DEF Indices
  <2>4. CASE ~(k < m)
    <3>1. a[k + 1].role = role /\ k + 1 # m
      BY <1>1, <1>2, <2>1, <2>2, <2>4
    <3> QED
      BY <2>2, <2>4, <3>1 DEF Indices
  <2> QED
    BY <2>2, <2>3, <2>4
<1>4. f \in [S -> T]
  BY <1>3
<1>5. ASSUME NEW j \in S, NEW k \in S, f[j] = f[k] PROVE j = k
  BY <1>2, <1>3, <1>5
<1>6. f \in Injection(S, T)
  <2> HIDE DEF f, S, T
  <2>1. \A j, k \in S : f[j] = f[k] => j = k
    BY <1>5
  <2> QED
    BY <1>4, <2>1 DEF Injection, IsInjective
<1>7. /\ IsFiniteSet(Indices(a, role)) /\ Count(a, role) = Cardinality(Indices(a, role))
      /\ Count(d, role) = Cardinality(S) /\ Count(a, role) \in Nat
  BY <1>1, CountIs
<1>8. /\ IsFiniteSet(T)
      /\ Cardinality(T) = IF m \in Indices(a, role) THEN Count(a, role) - 1 ELSE Count(a, role)
  BY <1>7, FS_RemoveElement
<1>9. Cardinality(S) <= Cardinality(T)
  <2> HIDE DEF f, S, T
  <2> QED
    BY <1>6, <1>8, FS_Injection
<1>10. m \in Indices(a, role) <=> a[m].role = role
  BY DEF Indices
<1> QED
  BY <1>7, <1>8, <1>9, <1>10 DEF d

\* del_existing_msgs removes a message of the role if there is one, and adds none.
LEMMA DelIs ==
    ASSUME NEW a \in Seq(Written), NEW key
    PROVE  LET d == del_existing_msgs(a, key) IN
           /\ d \in Seq(Written)
           /\ \A role : Count(d, role) <= Count(a, role)
           /\ Count(a, key) # 0 => Count(d, key) <= Count(a, key) - 1
<1> DEFINE at == {k \in DOMAIN a : a[k].role = key}
           d == del_existing_msgs(a, key)
<1>1. DOMAIN a = 1 .. Len(a) /\ Len(a) \in Nat
  OBVIOUS
<1>2. at = Indices(a, key)
  BY <1>1 DEF Indices
<1>3. \A role : Count(a, role) \in Nat
  BY CountIs
<1>4. CASE at = {}
  <2>1. d = a
    BY <1>4 DEF del_existing_msgs
  <2>2. Count(a, key) = 0
    BY <1>2, <1>4, CountIs
  <2> QED
    BY <1>3, <2>1, <2>2
<1>5. CASE at # {}
  <2> DEFINE m == CHOOSE k \in at : \A j \in at : k <= j
  <2>1. d = RemoveAt(a, m)
    BY <1>5 DEF del_existing_msgs
  <2>2. at \in SUBSET Nat
    BY <1>1
  <2>3. m \in at
    <3> HIDE DEF at
    <3>1. \E k \in at : \A j \in at : k <= j
      BY <1>5, <2>2, LeastNatural
    <3> QED
      BY <3>1
  <2>4. m \in 1 .. Len(a) /\ a[m].role = key
    BY <1>1, <2>3
  <2> HIDE DEF m, d
  <2>5. d \in Seq(Written)
    BY <2>1, <2>4, RemoveAtIs
  <2>6. ASSUME NEW role
        PROVE  Count(d, role) <= IF key = role THEN Count(a, role) - 1 ELSE Count(a, role)
    BY <2>1, <2>4, RemoveAtCounts
  <2>7. \A role : Count(d, role) \in Nat
    BY <2>5, CountIs
  <2>8. ASSUME NEW role PROVE Count(d, role) <= Count(a, role)
    <3>1. Count(d, role) \in Nat /\ Count(a, role) \in Nat
      BY <1>3, <2>7
    <3> QED
      BY <2>6, <3>1
  <2> QED
    BY <2>5, <2>6, <2>8 DEF d
<1> QED
  BY <1>4, <1>5

\* The messages that a request keeps.
LEMMA ClearedIs ==
    ASSUME NEW a \in Seq(Written)
    PROVE  /\ Cleared(a) \in Seq(Written)
           /\ \A role \in {"user", "assistant"} :
                 Count(Cleared(a), role) <= IF Count(a, role) = 0 THEN 0 ELSE Count(a, role) - 1
<1> DEFINE b == del_existing_msgs(a, "user")
           c == del_existing_msgs(b, "assistant")
<1>1. Cleared(a) = c
  BY DEF Cleared
<1>2. /\ b \in Seq(Written)
      /\ \A role : Count(b, role) <= Count(a, role)
      /\ Count(a, "user") # 0 => Count(b, "user") <= Count(a, "user") - 1
  BY DelIs
<1> HIDE DEF b
<1>3. /\ c \in Seq(Written)
      /\ \A role : Count(c, role) <= Count(b, role)
      /\ Count(b, "assistant") # 0 => Count(c, "assistant") <= Count(b, "assistant") - 1
  BY <1>2, DelIs
<1> HIDE DEF c
<1>4. \A role : Count(a, role) \in Nat /\ Count(b, role) \in Nat /\ Count(c, role) \in Nat
  BY <1>2, <1>3, CountIs
<1>5. Count(c, "user") <= IF Count(a, "user") = 0 THEN 0 ELSE Count(a, "user") - 1
  <2>1. /\ Count(a, "user") \in Nat /\ Count(b, "user") \in Nat /\ Count(c, "user") \in Nat
        /\ Count(b, "user") <= Count(a, "user") /\ Count(c, "user") <= Count(b, "user")
    BY <1>2, <1>3, <1>4
  <2> QED
    BY <1>2, <2>1
<1>6. Count(c, "assistant") <= IF Count(a, "assistant") = 0 THEN 0 ELSE Count(a, "assistant") - 1
  <2>1. /\ Count(a, "assistant") \in Nat /\ Count(b, "assistant") \in Nat
        /\ Count(c, "assistant") \in Nat
        /\ Count(b, "assistant") <= Count(a, "assistant")
        /\ Count(c, "assistant") <= Count(b, "assistant")
    BY <1>2, <1>3, <1>4
  <2> QED
    BY <1>3, <2>1
<1> QED
  BY <1>1, <1>3, <1>5, <1>6

\* The messages of a request: one of a role at most.
LEMMA NewIs ==
    ASSUME posts \in Nat, NEW user \in BOOLEAN, NEW assistant \in BOOLEAN
    PROVE  LET b == New(user, assistant) IN
           /\ b \in Seq(Written)
           /\ \A k \in 1 .. Len(b) : b[k].post = posts + 1
           /\ \A j, k \in 1 .. Len(b) : b[j].role = b[k].role => j = k
<1> DEFINE b == New(user, assistant)
           u == [role |-> "user", post |-> posts + 1]
           v == [role |-> "assistant", post |-> posts + 1]
           Good(q) == /\ q \in Seq(Written)
                      /\ \A k \in 1 .. Len(q) : q[k].post = posts + 1
                      /\ \A j, k \in 1 .. Len(q) : q[j].role = q[k].role => j = k
<1>1. /\ u \in Written /\ v \in Written
      /\ u.post = posts + 1 /\ v.post = posts + 1 /\ u.role # v.role
  BY DEF Written, Roles
<1>2. b = (IF user THEN <<u>> ELSE <<>>) \o (IF assistant THEN <<v>> ELSE <<>>)
  BY DEF New
<1> HIDE DEF b, u, v
<1>3. Good(<<>>)
  OBVIOUS
<1>4. ASSUME NEW x \in Written, x.post = posts + 1 PROVE Good(<<x>>)
  <2> DEFINE q == <<x>>
  <2>1. Len(q) = 1 /\ q[1] = x /\ q \in Seq(Written)
    OBVIOUS
  <2> HIDE DEF q
  <2>2. \A k \in 1 .. Len(q) : k = 1
    BY <2>1
  <2>3. Good(q)
    BY <1>4, <2>1, <2>2
  <2> QED
    BY <2>3 DEF q
<1>5. Good(<<u, v>>)
  <2> DEFINE q == <<u, v>>
  <2>1. Len(q) = 2 /\ q[1] = u /\ q[2] = v /\ q \in Seq(Written)
    BY <1>1
  <2> HIDE DEF q
  <2>2. \A k \in 1 .. Len(q) : k = 1 \/ k = 2
    BY <2>1
  <2>3. Good(q)
    BY <1>1, <2>1, <2>2
  <2> QED
    BY <2>3 DEF q
<1>6. /\ <<>> \o <<>> = <<>> /\ <<u>> \o <<>> = <<u>> /\ <<>> \o <<v>> = <<v>>
      /\ <<u>> \o <<v>> = <<u, v>>
  <2> DEFINE p == <<u>>
             q == <<v>>
             w == <<u, v>>
  <2>1. /\ p \in Seq(Written) /\ Len(p) = 1 /\ p[1] = u
        /\ q \in Seq(Written) /\ Len(q) = 1 /\ q[1] = v
        /\ w \in Seq(Written) /\ Len(w) = 2 /\ w[1] = u /\ w[2] = v
        /\ <<>> \in Seq(Written)
    BY <1>1
  <2> HIDE DEF p, q, w
  <2>2. <<>> \o <<>> = <<>> /\ p \o <<>> = p /\ <<>> \o q = q
    BY <2>1, ConcatEmptySeq
  <2>3. /\ p \o q \in Seq(Written) /\ Len(p \o q) = Len(p) + Len(q)
        /\ \A i \in 1 .. Len(p) + Len(q) : (p \o q)[i] = IF i <= Len(p) THEN p[i] ELSE q[i - Len(p)]
    BY <2>1, ConcatProperties
  <2>4. ASSUME NEW i \in 1 .. Len(p \o q) PROVE (p \o q)[i] = w[i]
    BY <2>1, <2>3
  <2>5. p \o q = w
    BY <2>1, <2>3, <2>4, SeqEqual
  <2> QED
    BY <2>2, <2>5 DEF p, q, w
<1>7. b \in {<<>>, <<u>>, <<v>>, <<u, v>>}
  BY <1>2, <1>6
<1>8. Good(b)
  <2> HIDE DEF Good
  <2> QED
    BY <1>1, <1>3, <1>4, <1>5, <1>7
<1> QED
  BY <1>8 DEF b

\* One more message of each role at most.
LEMMA ConcatCounts ==
    ASSUME NEW a \in Seq(Written), NEW b \in Seq(Written), NEW role,
           \A j, k \in 1 .. Len(b) : b[j].role = b[k].role => j = k
    PROVE  /\ a \o b \in Seq(Written)
           /\ Count(a \o b, role) <= Count(a, role) + 1
<1> DEFINE e == a \o b
           at == {j \in 1 .. Len(b) : b[j].role = role}
           last == Len(a) + (CHOOSE j \in at : TRUE)
           S == Indices(a, role)
<1>1. Len(a) \in Nat /\ Len(b) \in Nat
  OBVIOUS
<1>2. /\ e \in Seq(Written) /\ Len(e) = Len(a) + Len(b)
      /\ \A k \in 1 .. Len(a) + Len(b) : e[k] = IF k <= Len(a) THEN a[k] ELSE b[k - Len(a)]
  BY ConcatProperties
<1> HIDE DEF e
<1>3. ASSUME NEW k \in Indices(e, role) PROVE k \in S \cup {last}
  <2>1. k \in 1 .. Len(a) + Len(b) /\ e[k].role = role
    BY <1>2 DEF Indices
  <2>2. CASE k <= Len(a)
    <3>1. k \in 1 .. Len(a) /\ a[k].role = role
      BY <1>1, <1>2, <2>1, <2>2
    <3> QED
      BY <3>1 DEF Indices
  <2>3. CASE ~(k <= Len(a))
    <3>1. k - Len(a) \in 1 .. Len(b) /\ Len(a) + (k - Len(a)) = k
      BY <1>1, <2>1, <2>3
    <3>2. b[k - Len(a)].role = role
      BY <1>2, <2>1, <2>3
    <3>3. k - Len(a) \in at
      BY <3>1, <3>2
    <3>4. (CHOOSE j \in at : TRUE) \in at
      <4> HIDE DEF at
      <4> QED
        BY <3>3
    <3>5. (CHOOSE j \in at : TRUE) = k - Len(a)
      BY <3>3, <3>4
    <3> QED
      BY <3>1, <3>5
  <2> QED
    BY <2>2, <2>3
<1>4. /\ IsFiniteSet(S) /\ Count(a, role) = Cardinality(S) /\ Count(a, role) \in Nat
      /\ Count(e, role) = Cardinality(Indices(e, role)) /\ Count(e, role) \in Nat
  BY <1>2, CountIs
<1> HIDE DEF S, last
<1>5. /\ IsFiniteSet(S \cup {last})
      /\ Cardinality(S \cup {last}) = IF last \in S THEN Cardinality(S) ELSE Cardinality(S) + 1
  BY <1>4, FS_AddElement
<1>6. Indices(e, role) \in SUBSET (S \cup {last})
  BY <1>3
<1>7. Cardinality(Indices(e, role)) <= Cardinality(S \cup {last})
  BY <1>5, <1>6, FS_Subset
<1> QED
  BY <1>2, <1>4, <1>5, <1>7 DEF e

\* A request keeps the conversation bounded, and its messages are its own.
LEMMA PostInv ==
    ASSUME ConversationInv, NEW user \in BOOLEAN, NEW assistant \in BOOLEAN,
           dx_openai_function_post_request(user, assistant)
    PROVE  ConversationInv'
<1> DEFINE a == message_array
           c == Cleared(a)
           b == New(user, assistant)
<1>1. /\ posts' = posts + 1 /\ UNCHANGED <<json_root, file, headers>>
      /\ json_root /\ posts \in Nat /\ json_root \in BOOLEAN /\ headers \in BOOLEAN
      /\ posts + 1 \in Nat
  BY DEF dx_openai_function_post_request, ConversationInv
<1>2. CASE a = NULL
  <2>1. message_array' = NULL /\ sent' = <<>>
    BY <1>2 DEF dx_openai_function_post_request
  <2> QED
    BY <1>1, <2>1 DEF ConversationInv, OnlyItsOwn
<1>3. CASE a # NULL
  <2>1. /\ a \in Seq(Written) /\ file \in Seq(Roles)
        /\ \A role \in {"user", "assistant"} : Bounded(a, role)
    BY <1>3 DEF ConversationInv
  <2>2. message_array' = c \o b /\ sent' = c \o b
    BY <1>3 DEF dx_openai_function_post_request
  <2>3. /\ c \in Seq(Written)
        /\ \A role \in {"user", "assistant"} :
              Count(c, role) <= IF Count(a, role) = 0 THEN 0 ELSE Count(a, role) - 1
    BY <2>1, ClearedIs
  <2>4. /\ b \in Seq(Written)
        /\ \A k \in 1 .. Len(b) : b[k].post = posts + 1
        /\ \A j, k \in 1 .. Len(b) : b[j].role = b[k].role => j = k
    BY <1>1, NewIs
  <2> HIDE DEF a, b, c
  <2>5. c \o b \in Seq(Written) /\ \A role : Count(c \o b, role) <= Count(c, role) + 1
    BY <2>3, <2>4, ConcatCounts
  <2>6. ASSUME NEW role \in {"user", "assistant"}
        PROVE  /\ Count(a, role) \in Nat /\ Count(c, role) \in Nat
               /\ Count(c \o b, role) \in Nat /\ CountInFile(role) \in Nat
    <3>1. CountInFile(role) \in Nat
      <4>1. IsFiniteSet(DOMAIN file)
        BY <2>1, FS_Interval
      <4>2. {k \in DOMAIN file : file[k] = role} \in SUBSET DOMAIN file
        OBVIOUS
      <4>3. IsFiniteSet({k \in DOMAIN file : file[k] = role})
        BY <4>1, <4>2, FS_Subset
      <4> QED
        BY <4>3, FS_CardinalityType DEF CountInFile
    <3> QED
      BY <2>1, <2>3, <2>5, <3>1, CountIs
  <2>7. ASSUME NEW role \in {"user", "assistant"}
        PROVE  Count(c \o b, role) <= AtLeastOne(CountInFile(role))
    <3>1. /\ Count(a, role) <= AtLeastOne(CountInFile(role))
          /\ Count(c, role) <= IF Count(a, role) = 0 THEN 0 ELSE Count(a, role) - 1
          /\ Count(c \o b, role) <= Count(c, role) + 1
      BY <2>1, <2>3, <2>5 DEF Bounded
    <3> QED
      BY <2>6, <3>1 DEF AtLeastOne
  <2>8. ASSUME NEW k \in DOMAIN (c \o b), (c \o b)[k].role # "system",
               CountInFile((c \o b)[k].role) <= 1
        PROVE  (c \o b)[k].post = posts + 1
    <3> DEFINE role == (c \o b)[k].role
    <3>1. /\ Len(c \o b) = Len(c) + Len(b) /\ Len(c) \in Nat /\ Len(b) \in Nat
          /\ \A j \in 1 .. Len(c) + Len(b) :
                (c \o b)[j] = IF j <= Len(c) THEN c[j] ELSE b[j - Len(c)]
      BY <2>3, <2>4, ConcatProperties
    <3>2. k \in 1 .. Len(c) + Len(b)
      BY <2>5, <3>1
    <3>3. (c \o b)[k] \in Written
      BY <2>5, <2>8
    <3>4. role \in {"user", "assistant"}
      BY <2>8, <3>3 DEF Written, Roles
    <3>5. Count(c, role) = 0
      <4>1. /\ Count(a, role) <= AtLeastOne(CountInFile(role))
            /\ Count(c, role) <= IF Count(a, role) = 0 THEN 0 ELSE Count(a, role) - 1
        BY <2>1, <2>3, <3>4 DEF Bounded
      <4>2. /\ Count(a, role) \in Nat /\ Count(c, role) \in Nat /\ CountInFile(role) \in Nat
        BY <2>6, <3>4
      <4>3. CountInFile(role) <= 1
        BY <2>8
      <4> HIDE DEF role
      <4> QED
        BY <4>1, <4>2, <4>3 DEF AtLeastOne
    <3>6. Indices(c, role) = {}
      BY <2>3, <3>5, CountIs
    <3>7. ~(k <= Len(c))
      <4> SUFFICES ASSUME k <= Len(c) PROVE FALSE
        OBVIOUS
      <4>1. k \in 1 .. Len(c) /\ c[k].role = role
        BY <3>1, <3>2
      <4> HIDE DEF role
      <4> QED
        BY <3>6, <4>1 DEF Indices
    <3>8. k - Len(c) \in 1 .. Len(b) /\ (c \o b)[k] = b[k - Len(c)]
      BY <3>1, <3>2, <3>7
    <3> QED
      BY <2>4, <3>8
  <2>9. OnlyItsOwn'
    <3>1. \A role : CountInFile(role)' = CountInFile(role)
      BY <1>1 DEF CountInFile
    <3> QED
      BY <1>1, <2>2, <2>8, <3>1 DEF OnlyItsOwn
  <2>10. ASSUME NEW role \in {"user", "assistant"} PROVE Bounded(message_array, role)'
    BY <1>1, <2>2, <2>7 DEF Bounded, CountInFile, Count
  <2> QED
    BY <1>1, <2>1, <2>2, <2>5, <2>9, <2>10 DEF ConversationInv
<1> QED
  BY <1>2, <1>3

\* A conversation starts as the file's.
LEMMA InitialBounded ==
    ASSUME NEW f \in Seq(Roles), NEW role
    PROVE  LET a == FromFile(f)
               n == Cardinality({k \in DOMAIN f : f[k] = role})
           IN  f # NULL => a \in Seq(Written) /\ Count(a, role) <= AtLeastOne(n)
<1> SUFFICES ASSUME f # NULL
             PROVE  /\ FromFile(f) \in Seq(Written)
                    /\ Count(FromFile(f), role)
                          <= AtLeastOne(Cardinality({k \in DOMAIN f : f[k] = role}))
  OBVIOUS
<1> DEFINE a == [k \in DOMAIN f |-> [role |-> f[k], post |-> 0]]
           T == {k \in DOMAIN f : f[k] = role}
<1>1. FromFile(f) = a
  BY DEF FromFile
<1>2. DOMAIN f = 1 .. Len(f) /\ Len(f) \in Nat /\ \A k \in 1 .. Len(f) : f[k] \in Roles
  OBVIOUS
<1>3. a \in Seq(Written)
  <2>1. \A k \in 1 .. Len(f) : [role |-> f[k], post |-> 0] \in Written
    BY <1>2 DEF Written
  <2>2. a \in [1 .. Len(f) -> Written]
    BY <1>2, <2>1
  <2> HIDE DEF a
  <2> QED
    BY <1>2, <2>2, SeqDef
<1>4. Count(a, role) = Cardinality(T)
  <2>1. \A k \in DOMAIN f : a[k].role = f[k]
    OBVIOUS
  <2>2. DOMAIN a = DOMAIN f
    OBVIOUS
  <2> HIDE DEF a
  <2>3. {k \in DOMAIN a : a[k].role = role} = T
    BY <2>1, <2>2
  <2> QED
    BY <2>3 DEF Count
<1>5. Count(a, role) \in Nat
  <2> HIDE DEF a
  <2> QED
    BY <1>3, CountIs
<1> HIDE DEF a, T
<1>6. Count(a, role) <= AtLeastOne(Cardinality(T))
  BY <1>4, <1>5 DEF AtLeastOne
<1> QED
  BY <1>1, <1>3, <1>6 DEF T

LEMMA ConversationCorrect == ConversationSpec => []ConversationInv
<1>1. ConversationInit => ConversationInv
  <2> SUFFICES ASSUME ConversationInit PROVE ConversationInv
    OBVIOUS
  <2>1. OnlyItsOwn
    BY DEF ConversationInit, OnlyItsOwn
  <2>2. /\ json_root \in BOOLEAN /\ headers \in BOOLEAN /\ posts \in Nat
        /\ message_array = NULL /\ sent = <<>>
    BY DEF ConversationInit
  <2> QED
    BY <2>1, <2>2 DEF ConversationInv
<1>2. ConversationInv /\ [ConversationNext]_conversation => ConversationInv'
  <2> SUFFICES ASSUME ConversationInv, [ConversationNext]_conversation PROVE ConversationInv'
    OBVIOUS
  <2>1. ASSUME NEW f \in Files, NEW key \in BOOLEAN, dx_openai_function_init(f, key)
        PROVE  ConversationInv'
    <3>1. /\ json_root' = TRUE /\ headers' \in BOOLEAN /\ UNCHANGED <<posts, stack, sent>>
          /\ posts \in Nat
      BY <2>1 DEF dx_openai_function_init, ConversationInv
    <3>2. CASE json_root
      <4>1. UNCHANGED <<file, message_array>>
        BY <2>1, <3>2 DEF dx_openai_function_init
      <4> QED
        BY <3>1, <4>1 DEF ConversationInv, OnlyItsOwn, Bounded, CountInFile, Count
    <3>3. CASE ~json_root
      <4>1. file' = f /\ message_array' = FromFile(f) /\ sent' = <<>>
        BY <2>1, <3>1, <3>3 DEF dx_openai_function_init, ConversationInv
      <4>2. OnlyItsOwn'
        BY <4>1 DEF OnlyItsOwn
      <4>3. CASE f = NULL
        BY <3>1, <4>1, <4>2, <4>3 DEF ConversationInv, FromFile
      <4>4. CASE f # NULL
        <5>1. f \in Seq(Roles)
          BY <4>4, OpenAIAssumption
        <5>2. /\ FromFile(f) \in Seq(Written)
              /\ \A role : Count(FromFile(f), role)
                               <= AtLeastOne(Cardinality({k \in DOMAIN f : f[k] = role}))
          BY <4>4, <5>1, InitialBounded
        <5>3. ASSUME NEW role PROVE Bounded(message_array, role)'
          BY <4>1, <5>2 DEF Bounded, Count, CountInFile
        <5> QED
          BY <3>1, <4>1, <4>2, <5>1, <5>2, <5>3 DEF ConversationInv
      <4> QED
        BY <4>3, <4>4
    <3> QED
      BY <3>2, <3>3
  <2>2. ASSUME NEW key \in BOOLEAN, InitFails(key) PROVE ConversationInv'
    BY <2>2 DEF InitFails, ConversationInv, OnlyItsOwn, Bounded, CountInFile, Count
  <2>3. CASE HandlerReturns
    BY <2>3 DEF HandlerReturns, ConversationInv, OnlyItsOwn, Bounded, CountInFile, Count
  <2>4. CASE dx_openai_function_free
    <3>1. OnlyItsOwn'
      BY <2>4 DEF dx_openai_function_free, OnlyItsOwn
    <3> QED
      BY <2>4, <3>1 DEF dx_openai_function_free, ConversationInv
  <2>5. CASE UNCHANGED conversation
    BY <2>5 DEF conversation, ConversationInv, OnlyItsOwn, Bounded, CountInFile, Count
  <2> QED
    BY <2>1, <2>2, <2>3, <2>4, <2>5, PostInv DEF ConversationNext
<1> QED
  BY <1>1, <1>2, PTL DEF ConversationSpec

\* However many requests dx_openai_function_post_request has made, with or without
\* messages of the user and the assistant, nested in handlers or not, and whatever
\* the file: of each role the conversation has no more messages than the file, or
\* one.
THEOREM BoundedCorrect == ConversationSpec => []ConversationIsBounded
<1>1. ConversationInv => ConversationIsBounded
  BY DEF ConversationInv, Bounded, ConversationIsBounded
<1> QED
  BY <1>1, ConversationCorrect, PTL

\* A request sends no message of an earlier one, of a role of which the file has at
\* most one message: del_existing_msgs, which removes the first message it finds,
\* removes all there are.
THEOREM OnlyItsOwnCorrect == ConversationSpec => []OnlyItsOwn
<1>1. ConversationInv => OnlyItsOwn
  BY DEF ConversationInv
<1> QED
  BY <1>1, ConversationCorrect, PTL
=============================================================================
