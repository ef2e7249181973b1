------------------------- MODULE DeviceClientsProofs -------------------------
(***************************************************************************)
(* What the two SDK clients promise each other and the application, for    *)
(* any messages, reports, topics, limits and bounds: the provisioning      *)
(* client has one request under way and answers once; the hub client tells *)
(* the application of its connection and publishes on a session only.      *)
(***************************************************************************)
EXTENDS DeviceClients, FiniteSetTheorems, SequenceTheorems, TLAPS

-----------------------------------------------------------------------------
(* Keep and the other operators on sequences.                               *)

\* The places of I are ranked without gaps, so that every rank has its place.
LEMMA Ranks ==
    ASSUME NEW n \in Nat, NEW I \in SUBSET (1 .. n)
    PROVE  /\ Cardinality(I) \in Nat
           /\ \A i \in I : Cardinality({j \in I : j <= i}) \in 1 .. Cardinality(I)
           /\ \A i, k \in I : Cardinality({j \in I : j <= i}) = Cardinality({j \in I : j <= k})
                                => i = k
           /\ \A k \in 1 .. Cardinality(I) :
                \E i \in I : Cardinality({j \in I : j <= i}) = k
<1> DEFINE upTo(i) == {j \in I : j <= i}
           rank == [i \in I |-> Cardinality(upTo(i))]
<1>1. IsFiniteSet(I) /\ Cardinality(I) \in Nat
  <2>1. IsFiniteSet(1 .. n)
    BY FS_Interval
  <2>2. IsFiniteSet(I)
    BY <2>1, FS_Subset
  <2> QED
    BY <2>2, FS_CardinalityType
<1>2. \A i \in I : /\ IsFiniteSet(upTo(i))
                   /\ Cardinality(upTo(i)) \in 1 .. Cardinality(I)
  <2> TAKE i \in I
  <2>1. upTo(i) \in SUBSET I /\ upTo(i) # {}
    OBVIOUS
  <2>2. IsFiniteSet(upTo(i)) /\ Cardinality(upTo(i)) <= Cardinality(I)
    BY <1>1, <2>1, FS_Subset
  <2>3. Cardinality(upTo(i)) \in Nat /\ Cardinality(upTo(i)) # 0
    BY <2>1, <2>2, FS_CardinalityType, FS_EmptySet
  <2> QED
    BY <1>1, <2>2, <2>3
<1>3. \A i, j \in I : i < j => Cardinality(upTo(i)) # Cardinality(upTo(j))
  <2> SUFFICES ASSUME NEW i \in I, NEW j \in I, i < j
               PROVE  Cardinality(upTo(i)) # Cardinality(upTo(j))
    OBVIOUS
  <2>0. i \in Int /\ j \in Int /\ \A k \in I : k \in Int
    OBVIOUS
  <2>1. upTo(i) \in SUBSET upTo(j)
    <3>1. \A k \in Int : k <= i => k <= j
      BY <2>0
    <3> QED
      BY <2>0, <3>1
  <2>2. j \in upTo(j) /\ j \notin upTo(i)
    BY <2>0
  <2>3. upTo(i) # upTo(j)
    BY <2>2
  <2> HIDE DEF upTo
  <2> QED
    BY <1>2, <2>1, <2>3, FS_Subset
<1>3a. \A i, j \in I : Cardinality(upTo(i)) = Cardinality(upTo(j)) => i = j
  <2>1. \A i, j \in I : i < j \/ j < i \/ i = j
    OBVIOUS
  <2> HIDE DEF upTo
  <2> QED
    BY <1>3, <2>1
<1>4. rank \in Injection(I, 1 .. Cardinality(I))
  BY <1>2, <1>3a DEF Injection, IsInjective
<1>5. IsFiniteSet(1 .. Cardinality(I)) /\ Cardinality(1 .. Cardinality(I)) = Cardinality(I)
  BY <1>1, FS_Interval
<1>6. rank \in Surjection(I, 1 .. Cardinality(I))
  <2> HIDE DEF rank
  <2> QED
    BY <1>4, <1>5, FS_Injection
<1> QED
  BY <1>1, <1>2, <1>3a, <1>6 DEF Surjection

LEMMA KeepProperties ==
    ASSUME NEW S, NEW q \in Seq(S), NEW I \in SUBSET (DOMAIN q)
    PROVE  /\ Keep(q, I) \in Seq(S)
           /\ Range(Keep(q, I)) = {q[i] : i \in I}
           /\ \A k \in DOMAIN Keep(q, I) : \E i \in I : Keep(q, I)[k] = q[i]
           /\ \A i \in I : \E k \in DOMAIN Keep(q, I) : Keep(q, I)[k] = q[i]
<1> DEFINE N == Cardinality(I)
           rank(i) == Cardinality({j \in I : j <= i})
           place(k) == CHOOSE i \in I : rank(i) = k
<1>1. /\ N \in Nat
      /\ \A i \in I : rank(i) \in 1 .. N
      /\ \A i, k \in I : rank(i) = rank(k) => i = k
      /\ \A k \in 1 .. N : \E i \in I : rank(i) = k
  <2>1. Len(q) \in Nat /\ I \in SUBSET (1 .. Len(q))
    BY LenProperties
  <2> QED
    BY <2>1, Ranks
<1>2. Keep(q, I) = [k \in 1 .. N |-> q[place(k)]]
  BY DEF Keep
<1>3. \A k \in 1 .. N : place(k) \in I /\ rank(place(k)) = k
  BY <1>1
<1>4. \A i \in I : q[i] \in S
  BY LenProperties, ElementOfSeq
<1> HIDE DEF N, place, rank
<1>5. Keep(q, I) \in Seq(S)
  <2>1. \A k \in 1 .. N : q[place(k)] \in S
    BY <1>3, <1>4
  <2> QED
    BY <1>1, <1>2, <2>1
<1>6. \A i \in I : place(rank(i)) = i
  <2> SUFFICES ASSUME NEW i \in I, NEW k, k = rank(i)
               PROVE  place(k) = i
    OBVIOUS
  <2>1. place(k) \in I /\ rank(place(k)) = rank(i)
    BY <1>1, <1>3
  <2> QED
    BY <1>1, <2>1
<1>7. DOMAIN Keep(q, I) = 1 .. N /\ \A k \in 1 .. N : Keep(q, I)[k] = q[place(k)]
  BY <1>2
<1>8. \A k \in 1 .. N : \E i \in I : Keep(q, I)[k] = q[i]
  BY <1>3, <1>7
<1>9. \A i \in I : \E k \in 1 .. N : Keep(q, I)[k] = q[i]
  BY <1>1, <1>6, <1>7
<1>10. Range(Keep(q, I)) = {q[i] : i \in I}
  <2>1. Range(Keep(q, I)) = {Keep(q, I)[k] : k \in 1 .. N}
    BY <1>7 DEF Range
  <2> QED
    BY <1>8, <1>9, <2>1
<1> QED
  BY <1>5, <1>7, <1>8, <1>9, <1>10

LEMMA Push ==
    ASSUME NEW S, NEW s \in Seq(S), NEW f \in S
    PROVE  /\ <<f>> \o s \in Seq(S) /\ <<f>> \o s # <<>>
           /\ Head(<<f>> \o s) = f
           /\ Tail(<<f>> \o s) = s
           /\ Range(<<f>> \o s) = {f} \cup Range(s)
<1>1. <<f>> \o s \in Seq(S) /\ <<f>> \o s # <<>> /\ Head(<<f>> \o s) = f
  OBVIOUS
<1>2. Tail(<<f>> \o s) = s
  OBVIOUS
<1>3. Range(<<f>> \o s) = Range(<<f>>) \cup Range(s)
  <2>1. <<f>> \in Seq(S)
    OBVIOUS
  <2> QED
    BY <2>1, RangeConcatenation
<1>4. Range(<<f>>) = {f}
  BY DEF Range
<1> QED
  BY <1>1, <1>2, <1>3, <1>4

LEMMA Pop ==
    ASSUME NEW S, NEW s \in Seq(S), s # <<>>
    PROVE  /\ Head(s) \in S
           /\ Tail(s) \in Seq(S)
           /\ Range(s) = {Head(s)} \cup Range(Tail(s))
<1>1. Head(s) \in S /\ Tail(s) \in Seq(S)
  OBVIOUS
<1>2. s = <<Head(s)>> \o Tail(s)
  OBVIOUS
<1> QED
  BY <1>1, <1>2, Push

LEMMA RangeOfAppend ==
    ASSUME NEW S, NEW s \in Seq(S), NEW e \in S
    PROVE  Range(Append(s, e)) = Range(s) \cup {e}
<1>1. Append(s, e) = s \o <<e>> /\ <<e>> \in Seq(S)
  BY AppendIsConcat
<1>2. Range(s \o <<e>>) = Range(s) \cup Range(<<e>>)
  BY <1>1, RangeConcatenation
<1>3. Range(<<e>>) = {e}
  BY DEF Range
<1> QED
  BY <1>1, <1>2, <1>3

\* A request for a report stays a request when its connection is gone.
LEMMA UnaskedType == ASSUME NEW q \in Seq(Request) PROVE Unasked(q) \in Seq(Request)
<1> DEFINE reports == Keep(q, {i \in DOMAIN q : q[i].id # NULL})
<1>1. reports \in Seq(Request)
  BY KeepProperties
<1>2. Unasked(q) = [i \in DOMAIN reports |-> [reports[i] EXCEPT !.asked = FALSE]]
  BY DEF Unasked
<1> HIDE DEF reports
<1>3. \A i \in DOMAIN reports : [reports[i] EXCEPT !.asked = FALSE] \in Request
  <2>1. \A i \in DOMAIN reports : reports[i] \in Request
    BY <1>1, LenProperties, ElementOfSeq
  <2>2. \A r \in Request : [r EXCEPT !.asked = FALSE] \in Request
    BY DEF Request
  <2> QED
    BY <2>1, <2>2
<1> QED
  BY <1>1, <1>2, <1>3

-----------------------------------------------------------------------------
(* Types.                                                                   *)

\* A walk through the pending messages knows where DoWork goes on.
Proper == {f \in Frame : f.pc = "pending" => f.then \in {"publish", "expire"}}

TypeInv == TypeOK /\ stack \in Seq(Proper)

LEMMA PendingFrames ==
    ASSUME TypeInv, NEW t \in {"publish", "expire"} PROVE PendingFrame(t) \in Proper
<1>1. telemetry_waitingForAck # <<>> => Head(telemetry_waitingForAck) \in Detail
  BY DEF TypeInv, TypeOK
<1>2. telemetry_waitingForAck # <<>> => Head(telemetry_waitingForAck).msg \in Msgs
  BY <1>1 DEF Detail
<1> QED
  BY <1>2 DEF Proper, Frame, PendingFrame

\* The walk goes on with the entry behind the one it examines.
LEMMA Walks ==
    ASSUME TypeInv, Examines
    PROVE  /\ stack # <<>> /\ Top \in Proper /\ Top.pc = "pending"
           /\ EntryAt \in DOMAIN telemetry_waitingForAck
           /\ telemetry_waitingForAck[EntryAt].msg = Top.next
           /\ Top.next \in Msgs
           /\ [Top EXCEPT !.next = Behind] \in Proper
           /\ [Top EXCEPT !.next = Behind].pc = "pending"
           /\ [Top EXCEPT !.next = Behind].then = Top.then
           /\ Goto([Top EXCEPT !.next = Behind]) \in Seq(Proper)
           /\ <<Fr("closing", "pending")>> \o Goto([Top EXCEPT !.next = Behind]) \in Seq(Proper)
           /\ <<Fr("app", "")>> \o Goto([Top EXCEPT !.next = Behind]) \in Seq(Proper)
<1>1. stack # <<>> /\ Top.pc = "pending" /\ Top \in Proper /\ Tail(stack) \in Seq(Proper)
  BY Pop DEF Examines, TopIn, Top, TypeInv
<1>2. \A i \in DOMAIN telemetry_waitingForAck : telemetry_waitingForAck[i] \in Detail
  BY LenProperties, ElementOfSeq DEF TypeInv, TypeOK
<1>3. \E i \in DOMAIN telemetry_waitingForAck : telemetry_waitingForAck[i].msg = Top.next
  BY DEF Examines, MsgsIn
<1>4. EntryAt \in DOMAIN telemetry_waitingForAck /\ telemetry_waitingForAck[EntryAt].msg = Top.next
  BY <1>3 DEF EntryAt
<1>5. Behind \in Msgs \cup {NULL}
  <2>1. EntryAt \in 1 .. Len(telemetry_waitingForAck)
    BY <1>4, LenProperties DEF TypeInv, TypeOK
  <2>2. EntryAt # Len(telemetry_waitingForAck) => EntryAt + 1 \in DOMAIN telemetry_waitingForAck
    BY <2>1, LenProperties DEF TypeInv, TypeOK
  <2>3. EntryAt # Len(telemetry_waitingForAck) => telemetry_waitingForAck[EntryAt + 1].msg \in Msgs
    BY <1>2, <2>2 DEF Detail
  <2> QED
    BY <2>3 DEF Behind
<1>6. /\ [Top EXCEPT !.next = Behind] \in Proper
      /\ [Top EXCEPT !.next = Behind].pc = "pending"
      /\ [Top EXCEPT !.next = Behind].then = Top.then
  BY <1>1, <1>5 DEF Proper, Frame
<1>7. Goto([Top EXCEPT !.next = Behind]) \in Seq(Proper)
  BY <1>1, <1>6, Push DEF Goto
<1>8. Top.next \in Msgs
  BY <1>2, <1>4 DEF Detail
<1>9. Fr("closing", "pending") \in Proper /\ Fr("app", "") \in Proper
  BY DEF Proper, Frame, Fr
<1> QED
  BY <1>1, <1>4, <1>6, <1>7, <1>8, <1>9, Push

LEMMA ConfirmType ==
    ASSUME confirms \in [Items -> Nat], NEW S, Confirm(S)
    PROVE  confirms' \in [Items -> Nat]
  BY DEF Confirm

LEMMA DropLinkTypes ==
    ASSUME TypeInv, DropLink
    PROVE  /\ link' = "none" /\ puback' = {} /\ suback' = <<>> /\ suback' \in Seq(BOOLEAN)
           /\ ack_waiting_queue' \in Seq(Request)
  BY UnaskedType DEF TypeInv, TypeOK, DropLink

LEMMA DisconnectedTypes ==
    ASSUME TypeInv, NEW p \in Packets, Disconnected(p)
    PROVE  /\ link' \in {"none", "opening", "open"} /\ puback' \subseteq Msgs
           /\ suback' \in Seq(BOOLEAN)
           /\ ack_waiting_queue' \in Seq(Request)
           /\ device_twin_get_sent' \in BOOLEAN
           /\ mqttClientStatus' \in Statuses
           /\ currPacketState' \in Packets
  BY DropLinkTypes DEF TypeInv, TypeOK, Disconnected, wireVars, Statuses, Packets

LEMMA TypeInitially == ASSUME Init PROVE TypeInv
<1>1. AppTopics \subseteq Topics
  BY TopicsAssumption DEF Topics
<1>2. confirms \in [Items -> Nat]
  BY DEF Init
<1>3. currPacketState \in Packets
  BY DEF Init, Packets
<1>4. uptime \in 0 .. RESEND_TIMEOUT_VALUE_MIN + 1
  BY LimitsAssumption DEF Init
<1>5. \A S : <<>> \in Seq(S)
  OBVIOUS
<1> QED
  BY <1>1, <1>2, <1>3, <1>4, <1>5 DEF Init, TypeInv, TypeOK, Statuses

\* The moves of the call stack.  A frame that leads to ProcessPublishStateDoWork
\* comes from the packet state or from such a frame.
Publishing(f) == f.pc = "publish" \/ f.then = "publish"
Renewing(f) == f.pc = "app" /\ f.then = "sas"
Stayed      == /\ stack' = stack
               /\ stack # <<>> /\ Top.pc = "app" => UNCHANGED link
Called(f)   == /\ stack' = <<f>> \o stack
               /\ ~Publishing(f) /\ ~Renewing(f)
               /\ DoWork \/ stack = <<>> \/ (Top.pc \in {"work", "closing"} /\ f.pc # "update")
Replaced(f) == /\ stack # <<>> /\ Top.pc # "app" /\ stack' = Goto(f)
               /\ f.pc # "update"
               /\ Publishing(f) => Publishing(Top) \/ currPacketState = "PUBLISH"
               /\ Renewing(f) => link' = "none"
CalledFrom(f, g) ==
               /\ stack # <<>> /\ Top.pc # "app" /\ stack' = <<g>> \o Goto(f)
               /\ f.pc \notin {"app", "update"} /\ g.pc # "update"
               /\ ~Publishing(g) /\ (Publishing(f) => Publishing(Top)) /\ ~Renewing(g)
Returned    == /\ stack # <<>> /\ stack' = Tail(stack)
               /\ ErrorReturns \/ Top.pc # "app" \/ Top.then # "error"

\* The frames that are neither.
Plain(f) == f \in Proper /\ f.pc # "update" /\ ~Publishing(f) /\ ~Renewing(f)

LEMMA PlainFrames ==
    /\ Plain(Fr("state", "")) /\ Plain(Fr("work", "")) /\ Plain(Fr("expire", ""))
    /\ Plain(Fr("closing", "sas")) /\ Plain(Fr("closing", "pending"))
    /\ Plain(Fr("closing", "destroy"))
    /\ Plain(Fr("app", "")) /\ Plain(Fr("app", "refused")) /\ Plain(Fr("app", "error"))
    /\ Plain(Fr("app", "twin"))
    /\ Fr("state", "").pc = "state"
  BY DEF Plain, Publishing, Renewing, Proper, Frame, Fr

\* How the actions change the stack.  Application code in a callback only calls
\* and returns.
LEMMA StackMoves ==
    ASSUME TypeInv, Next
    PROVE  \/ Stayed
           \/ stack' = <<>> /\ client' \in {"destroyed", "crashed"}
           \/ \E f \in Proper : Called(f)
           \/ \E f \in Proper : Replaced(f)
           \/ \E f, g \in Proper : CalledFrom(f, g)
           \/ Returned
<1> DEFINE Moved == \/ Stayed
                    \/ stack' = <<>> /\ client' \in {"destroyed", "crashed"}
                    \/ \E f \in Proper : Called(f)
                    \/ \E f \in Proper : Replaced(f)
                    \/ \E f, g \in Proper : CalledFrom(f, g)
                    \/ Returned
<1>a. ASSUME NEW f, Plain(f), stack # <<>>, Top.pc # "app", stack' = Goto(f) PROVE Moved
  BY <1>a DEF Plain, Replaced
<1>b. ASSUME NEW f, Plain(f), stack = <<>> \/ Top.pc \in {"work", "closing"},
             stack' = <<f>> \o stack
      PROVE  Moved
  BY <1>b DEF Plain, Called
<1>c. ASSUME Crash PROVE Moved
  BY <1>c DEF Crash
<1>d. Plain(PendingFrame("expire"))
  BY PendingFrames DEF Plain, Publishing, Renewing, PendingFrame
<1> HIDE DEF Moved
<1> SUFFICES Moved
  BY DEF Moved
<1>1. CASE Create \/ Tick
  <2>1. Stayed
    BY <1>1 DEF Create, Tick, Stayed, wireVars
  <2> QED
    BY <2>1 DEF Moved
<1>2. CASE Application
  <2>1. CASE Destroy
    <3>1. stack = <<>> /\ (stack' = <<Fr("closing", "destroy")>> \/ stack' = stack)
      BY <2>1 DEF Destroy
    <3>2. <<Fr("closing", "destroy")>> = <<Fr("closing", "destroy")>> \o stack
      BY <3>1
    <3> QED
      BY <1>b, <3>1, <3>2, PlainFrames DEF Moved, Stayed
  <2>2. CASE DoWork
    <3>1. /\ Fr("update", "") \in Proper
          /\ ~Publishing(Fr("update", "")) /\ ~Renewing(Fr("update", ""))
      BY DEF Proper, Frame, Fr, Publishing, Renewing
    <3>2. Called(Fr("update", ""))
      BY <2>2, <3>1 DEF DoWork, Called
    <3> QED
      BY <3>1, <3>2 DEF Moved
  <2>3. CASE Stayed
    BY <2>3 DEF Moved
  <2>4. ASSUME NEW m \in Msgs, SendEventAsync(m) PROVE Stayed
    BY <2>4 DEF SendEventAsync, Stayed, wireVars
  <2>5. ASSUME NEW m \in Reports, SendReportedState(m) PROVE Stayed
    BY <2>5 DEF SendReportedState, Stayed, wireVars
  <2> QED
    BY <1>2, <2>1, <2>2, <2>3, <2>4, <2>5 DEF Application
<1>3. CASE UpdateMqttConnectionStateIfNeeded
  <2>1. \/ Crash
        \/ /\ stack # <<>> /\ Top.pc = "update"
           /\ \/ stack' = Goto(Fr("state", ""))
              \/ stack' = Goto(PendingFrame("expire"))
              \/ stack' = <<Fr("closing", "sas")>> \o Goto(Fr("state", ""))
    BY <1>3 DEF UpdateMqttConnectionStateIfNeeded, UpdateNothing, RetryLater, Connect, TopIn,
                DeferredDisconnect, NestedDisconnect, SasExpires, Updating, Proceed, GiveUp
  <2>2. stack' = <<Fr("closing", "sas")>> \o Goto(Fr("state", "")) /\ stack # <<>>
          /\ Top.pc = "update" => Moved
    BY PlainFrames DEF Moved, CalledFrom, Plain
  <2> QED
    BY <1>a, <1>c, <1>d, <2>1, <2>2, PlainFrames
<1>4. CASE ProcessPendingTelemetryMessages
  <2>1. CASE PendingDone
    <3>1. /\ Fr(Top.then, "") \in Proper /\ Fr(Top.then, "").pc = Top.then
          /\ Fr(Top.then, "").then = "" /\ Top.then \in {"publish", "expire"}
      <4>1. Top \in Proper /\ Top.pc = "pending"
        BY <2>1, Pop DEF PendingDone, TopIn, Top, TypeInv
      <4> QED
        BY <4>1 DEF Proper, Frame, Fr
    <3>2. Replaced(Fr(Top.then, ""))
      BY <2>1, <3>1 DEF PendingDone, TopIn, Replaced, Publishing, Renewing
    <3> QED
      BY <3>1, <3>2 DEF Moved
  <2>2. CASE PendingDangles \/ PendingExpiresNested
    BY <1>c, <2>2 DEF PendingDangles, PendingExpiresNested
  <2>3. CASE PendingWaits \/ PendingExpires \/ PendingResends
    <3> DEFINE loop == [Top EXCEPT !.next = Behind]
    <3>1. /\ loop \in Proper /\ loop.pc = "pending" /\ loop.then = Top.then
          /\ stack # <<>> /\ Top.pc = "pending"
      BY <2>3, Walks DEF PendingWaits, PendingExpires, PendingResends
    <3>2. \/ stack' = Goto(loop)
          \/ stack' = <<Fr("closing", "pending")>> \o Goto(loop)
          \/ stack' = <<Fr("app", "")>> \o Goto(loop)
      BY <2>3 DEF PendingWaits, PendingExpires, PendingResends, LoopOn
    <3> HIDE DEF loop
    <3>3. CASE stack' = Goto(loop)
      BY <3>1, <3>3 DEF Moved, Replaced, Publishing, Renewing
    <3>4. ASSUME NEW g, Plain(g), stack' = <<g>> \o Goto(loop) PROVE Moved
      BY <3>1, <3>4 DEF Moved, CalledFrom, Plain, Publishing
    <3> QED
      BY <3>2, <3>3, <3>4, PlainFrames
  <2> QED
    BY <1>4, <2>1, <2>2, <2>3 DEF ProcessPendingTelemetryMessages
<1>5. CASE DoPendingClose \/ DoSubscribe \/ DoSuback \/ DoOtherState \/ DoPublishState
           \/ ProcessPublishStateDoWork \/ ExpireTwinRequests
  <2>2. \/ stack # <<>> /\ Top.pc # "app" /\ stack' = Goto(Fr("work", ""))
        \/ /\ stack # <<>> /\ Top.pc # "app" /\ stack' = Goto(PendingFrame("publish"))
           /\ currPacketState = "PUBLISH"
        \/ stack # <<>> /\ Top.pc # "app" /\ stack' = Tail(stack)
    BY <1>5 DEF DoPendingClose, DoSubscribe, DoSuback, DoOtherState, DoPublishState, StateWork,
                ProcessPublishStateDoWork, ExpireTwinRequests, TopIn
  <2>3. PendingFrame("publish") \in Proper /\ PendingFrame("publish").pc = "pending"
    BY PendingFrames DEF PendingFrame
  <2>4. CASE stack # <<>> /\ Top.pc # "app" /\ stack' = Goto(PendingFrame("publish"))
               /\ currPacketState = "PUBLISH"
    BY <2>3, <2>4 DEF Moved, Replaced, Renewing
  <2>5. CASE stack # <<>> /\ Top.pc # "app" /\ stack' = Tail(stack)
    BY <2>5 DEF Moved, Returned
  <2> QED
    BY <1>a, <2>2, <2>4, <2>5, PlainFrames
<1>6. CASE ClientReturns
  <2>1. CASE WorkReturns
    BY <1>a, <1>d, <2>1 DEF WorkReturns, TopIn
  <2>2. CASE ClosingReturns
    <3>1. \/ Crash
          \/ stack # <<>> /\ Top.pc # "app" /\ stack' = Goto(Fr("app", ""))
          \/ /\ stack # <<>> /\ Top.pc # "app" /\ stack' = Goto(Fr("app", "sas"))
             /\ link' = "none"
      BY <2>2 DEF ClosingReturns, TopIn, Disconnected, DropLink
    <3>2. /\ Fr("app", "sas") \in Proper /\ ~Publishing(Fr("app", "sas"))
          /\ Fr("app", "sas").pc = "app"
      BY DEF Proper, Frame, Fr, Publishing
    <3>3. CASE stack # <<>> /\ Top.pc # "app" /\ stack' = Goto(Fr("app", "sas"))
             /\ link' = "none"
      BY <3>2, <3>3 DEF Moved, Replaced
    <3> QED
      BY <1>a, <1>c, <3>1, <3>3, PlainFrames
  <2>3. CASE DestroyReturns
    BY <2>3 DEF DestroyReturns, DestroyRest, Moved
  <2> QED
    BY <1>6, <2>1, <2>2, <2>3 DEF ClientReturns
<1>7. CASE CallbackReturns
  <2>1. Returned
    BY <1>7 DEF CallbackReturns, AppReturns, RefusedReturns, ErrorReturns, TwinReturns,
                SasReturns, TopIn, Returned
  <2> QED
    BY <2>1 DEF Moved
<1>8. CASE Events
  <2>1. /\ stack # <<>> /\ Top.pc \in {"work", "closing"}
        /\ \/ stack' = stack
           \/ \E t \in {"", "refused", "error", "twin"} : stack' = <<Fr("app", t)>> \o stack
    BY <1>8 DEF Events, OnConnack, ConnackAccepted, OnConnackRefused, OnPublishAck,
       OnSubscribeAck,
                OnTwinResponse, OnInbound, OnError, OnDisconnect, CallApp, Listening, TopIn
  <2>2. CASE stack' = stack
    BY <2>1, <2>2 DEF Moved, Stayed
  <2> QED
    BY <1>b, <2>1, <2>2, PlainFrames
<1> QED
  BY <1>1, <1>2, <1>3, <1>4, <1>5, <1>6, <1>7, <1>8 DEF Next, Running, DoWorkGoesOn

LEMMA StackStep == ASSUME TypeInv, Next PROVE stack' \in Seq(Proper)
<1>1. stack \in Seq(Proper) /\ <<>> \in Seq(Proper)
  BY DEF TypeInv
<1>2. stack # <<>> => Tail(stack) \in Seq(Proper)
  BY <1>1, Pop
<1>3. \A f \in Proper : /\ <<f>> \o stack \in Seq(Proper)
                        /\ stack # <<>> => Goto(f) \in Seq(Proper)
  BY <1>1, <1>2, Push DEF Goto
<1>4. \A f, g \in Proper : stack # <<>> => <<g>> \o Goto(f) \in Seq(Proper)
  BY <1>3, Push
<1> QED
  BY <1>1, <1>2, <1>3, <1>4, StackMoves DEF Stayed, Called, Replaced, CalledFrom, Returned

LEMMA WithoutProperties ==
    ASSUME NEW q \in Seq(Detail), NEW m
    PROVE  /\ Without(q, m) \in Seq(Detail)
           /\ MsgsIn(Without(q, m)) = MsgsIn(q) \ {m}
<1> DEFINE I == {i \in DOMAIN q : q[i].msg # m}
<1>1. /\ Without(q, m) = Keep(q, I)
      /\ Keep(q, I) \in Seq(Detail)
      /\ \A k \in DOMAIN Keep(q, I) : \E i \in I : Keep(q, I)[k] = q[i]
      /\ \A i \in I : \E k \in DOMAIN Keep(q, I) : Keep(q, I)[k] = q[i]
  <2>1. I \in SUBSET (DOMAIN q)
    OBVIOUS
  <2> QED
    BY <2>1, KeepProperties DEF Without
<1>2. MsgsIn(Keep(q, I)) = {q[i].msg : i \in I}
  <2> HIDE DEF I
  <2> QED
    BY <1>1 DEF MsgsIn
<1>3. {q[i].msg : i \in I} = MsgsIn(q) \ {m}
  BY DEF MsgsIn
<1> QED
  BY <1>1, <1>2, <1>3

LEMMA MsgsOfConcat ==
    ASSUME NEW p \in Seq(Detail), NEW q \in Seq(Detail)
    PROVE  p \o q \in Seq(Detail) /\ MsgsIn(p \o q) = MsgsIn(p) \cup MsgsIn(q)
<1>1. ASSUME NEW s \in Seq(Detail) PROVE MsgsIn(s) = {e.msg : e \in Range(s)}
  BY DEF MsgsIn, Range
<1>2. p \o q \in Seq(Detail)
  OBVIOUS
<1>3. Range(p \o q) = Range(p) \cup Range(q)
  BY RangeConcatenation
<1>4. /\ MsgsIn(p) = {e.msg : e \in Range(p)} /\ MsgsIn(q) = {e.msg : e \in Range(q)}
      /\ MsgsIn(p \o q) = {e.msg : e \in Range(p \o q)}
  BY <1>1, <1>2
<1> QED
  BY <1>2, <1>3, <1>4

\* Entries that only grow older stay the entries of their messages.
LEMMA Aged ==
    ASSUME NEW q \in Seq(Detail), NEW p, p = [i \in DOMAIN q |-> p[i]],
           \A i \in DOMAIN q : p[i] \in Detail /\ p[i].msg = q[i].msg
    PROVE  p \in Seq(Detail) /\ MsgsIn(p) = MsgsIn(q)
<1>1. Len(q) \in Nat /\ DOMAIN q = 1 .. Len(q)
  BY LenProperties
<1>2. DOMAIN p = DOMAIN q
  OBVIOUS
<1>3. p \in [1 .. Len(q) -> Detail]
  BY <1>1
<1>4. p \in Seq(Detail)
  BY <1>1, <1>3
<1>5. MsgsIn(p) = MsgsIn(q)
  BY <1>2 DEF MsgsIn
<1> QED
  BY <1>4, <1>5

LEMMA Details ==
    ASSUME TypeInv
    PROVE  \A i \in DOMAIN telemetry_waitingForAck : telemetry_waitingForAck[i] \in Detail
  BY LenProperties, ElementOfSeq DEF TypeInv, TypeOK

LEMMA ReportedStateProperties ==
    ASSUME TypeInv, NEW S, ReportedStateComplete(S)
    PROVE  /\ iot_ack_queue' \in Seq(Reports)
           /\ Range(iot_ack_queue') = Range(iot_ack_queue) \ S
           /\ Confirm(S \cap Range(iot_ack_queue))
<1> DEFINE I == {i \in DOMAIN iot_ack_queue : iot_ack_queue[i] \notin S}
<1>1. iot_ack_queue' = Keep(iot_ack_queue, I) /\ Confirm(S \cap Range(iot_ack_queue))
  BY DEF ReportedStateComplete
<1>2. I \in SUBSET (DOMAIN iot_ack_queue) /\ iot_ack_queue \in Seq(Reports)
  BY DEF TypeInv, TypeOK
<1>3. {iot_ack_queue[i] : i \in I} = Range(iot_ack_queue) \ S
  BY DEF Range
<1> HIDE DEF I
<1> QED
  BY <1>1, <1>2, <1>3, KeepProperties

\* A report is handed to the transport or dropped, and asked for if handed over.
LEMMA ProcessItemProperties ==
    ASSUME TypeInv, ProcessItem
    PROVE  /\ iot_msg_queue' \in Seq(Reports)
           /\ iot_ack_queue' \in Seq(Reports)
           /\ ack_waiting_queue' \in Seq(Request)
           /\ \E ok \in SUBSET Range(iot_msg_queue) :
                \/ /\ Range(iot_msg_queue') = {}
                   /\ Range(iot_ack_queue') = Range(iot_ack_queue) \cup ok
                \/ UNCHANGED <<iot_msg_queue, iot_ack_queue>>
<1>1. CASE UNCHANGED <<iot_msg_queue, iot_ack_queue, ack_waiting_queue>>
  BY <1>1 DEF TypeInv, TypeOK
<1>2. ASSUME NEW ok \in SUBSET Range(iot_msg_queue), NEW sent,
             sent = Keep(iot_msg_queue, {i \in DOMAIN iot_msg_queue : iot_msg_queue[i] \in ok}),
             iot_msg_queue' = <<>>, iot_ack_queue' = iot_ack_queue \o sent,
             publishDeviceTwinMsg(sent)
      PROVE  /\ iot_msg_queue' \in Seq(Reports)
             /\ iot_ack_queue' \in Seq(Reports)
             /\ ack_waiting_queue' \in Seq(Request)
             /\ Range(iot_msg_queue') = {}
             /\ Range(iot_ack_queue') = Range(iot_ack_queue) \cup ok
  <2> DEFINE I == {i \in DOMAIN iot_msg_queue : iot_msg_queue[i] \in ok}
             asked == [i \in DOMAIN sent |-> TwinMsg(sent[i])]
  <2>0. /\ iot_msg_queue \in Seq(Reports) /\ iot_ack_queue \in Seq(Reports)
        /\ ack_waiting_queue \in Seq(Request)
    BY DEF TypeInv, TypeOK
  <2>1. sent \in Seq(Reports) /\ Range(sent) = {iot_msg_queue[i] : i \in I}
    <3>1. I \in SUBSET (DOMAIN iot_msg_queue)
      OBVIOUS
    <3> HIDE DEF I
    <3> QED
      BY <1>2, <2>0, <3>1, KeepProperties DEF I
  <2>2. {iot_msg_queue[i] : i \in I} = ok
    BY DEF Range
  <2>3. asked \in Seq(Request)
    <3>1. \A r \in Reports : TwinMsg(r) \in Request
      BY DEF TwinMsg, Request
    <3>2. \A i \in DOMAIN sent : sent[i] \in Reports
      BY <2>1, LenProperties, ElementOfSeq
    <3> QED
      BY <2>1, <3>1, <3>2
  <2>4. ack_waiting_queue' \in Seq(Request)
    <3>1. ack_waiting_queue' = ack_waiting_queue \o asked
      BY <1>2 DEF publishDeviceTwinMsg
    <3> HIDE DEF asked
    <3> QED
      BY <2>0, <2>3, <3>1
  <2>5. Range(iot_ack_queue') = Range(iot_ack_queue) \cup ok
    <3>1. Range(iot_ack_queue \o sent) = Range(iot_ack_queue) \cup Range(sent)
      BY <2>0, <2>1, RangeConcatenation
    <3> QED
      BY <1>2, <2>1, <2>2, <3>1
  <2>6. Range(iot_msg_queue') = {}
    BY <1>2 DEF Range
  <2> QED
    BY <1>2, <2>0, <2>1, <2>4, <2>5, <2>6
<1> QED
  BY <1>1, <1>2 DEF ProcessItem

\* A waiting message is sent, has failed or is kept.
LEMMA PublishProperties ==
    ASSUME TypeInv, ProcessPublishStateDoWork
    PROVE  \E sent, failed \in SUBSET Range(waitingToSend) :
             /\ sent \cap failed = {}
             /\ link = "none" => sent = {}
             /\ waitingToSend' \in Seq(Msgs)
             /\ Range(waitingToSend') = Range(waitingToSend) \ (sent \cup failed)
             /\ telemetry_waitingForAck' \in Seq(Detail)
             /\ MsgsIn(telemetry_waitingForAck') = MsgsIn(telemetry_waitingForAck) \cup sent
             /\ puback' = puback \cup sent
             /\ Confirm(failed)
<1> DEFINE I(result, r) == {i \in DOMAIN waitingToSend : result[waitingToSend[i]] = r}
           with(result, r) == Keep(waitingToSend, I(result, r))
           entry(result, i) == [msg |-> with(result, "sent")[i], created |-> 0, published |-> 0]
<1>1. PICK result \in [Range(waitingToSend) -> {"sent", "failed", "kept"}] :
        /\ link = "none" => with(result, "sent") = <<>>
        /\ waitingToSend' = with(result, "kept")
        /\ telemetry_waitingForAck' = telemetry_waitingForAck \o
              [i \in DOMAIN with(result, "sent") |-> entry(result, i)]
        /\ puback' = puback \cup Range(with(result, "sent"))
        /\ Confirm(Range(with(result, "failed")))
  BY DEF ProcessPublishStateDoWork
<1> DEFINE Of(r) == {m \in Range(waitingToSend) : result[m] = r}
           sent == with(result, "sent")
           entries == [i \in DOMAIN sent |-> [msg |-> sent[i], created |-> 0, published |-> 0]]
<1>2. /\ waitingToSend \in Seq(Msgs) /\ telemetry_waitingForAck \in Seq(Detail)
  BY DEF TypeInv, TypeOK
<1>3. ASSUME NEW r PROVE with(result, r) \in Seq(Msgs) /\ Range(with(result, r)) = Of(r)
  <2>1. I(result, r) \in SUBSET (DOMAIN waitingToSend)
    OBVIOUS
  <2>2. {waitingToSend[i] : i \in I(result, r)} = Of(r)
    BY DEF Range
  <2> HIDE DEF I, Of
  <2> QED
    BY <1>2, <2>1, <2>2, KeepProperties
<1>4. sent \in Seq(Msgs) /\ Range(sent) = Of("sent")
  BY <1>3
<1>5. entries \in Seq(Detail) /\ MsgsIn(entries) = Of("sent")
  <2> HIDE DEF sent, Of
  <2>1. \A i \in DOMAIN sent : [msg |-> sent[i], created |-> 0, published |-> 0] \in Detail
    <3>1. \A i \in DOMAIN sent : sent[i] \in Msgs
      BY <1>4, LenProperties, ElementOfSeq
    <3>2. 0 \in 0 .. TELEMETRY_MSG_TIMEOUT_MIN /\ 0 \in 0 .. RESEND_TIMEOUT_VALUE_MIN + 1
      BY LimitsAssumption
    <3> QED
      BY <3>1, <3>2 DEF Detail
  <2>2. entries \in Seq(Detail)
    BY <1>4, <2>1
  <2>3. MsgsIn(entries) = Range(sent)
    BY DEF MsgsIn, Range
  <2> QED
    BY <1>4, <2>2, <2>3
<1>6. /\ telemetry_waitingForAck' \in Seq(Detail)
      /\ MsgsIn(telemetry_waitingForAck') = MsgsIn(telemetry_waitingForAck) \cup Of("sent")
  <2>1. telemetry_waitingForAck' = telemetry_waitingForAck \o entries
    BY <1>1
  <2> HIDE DEF entries
  <2> QED
    BY <1>2, <1>5, <2>1, MsgsOfConcat
<1>7. link = "none" => Of("sent") = {}
  <2>1. link = "none" => Range(sent) = {}
    BY <1>1 DEF Range
  <2> QED
    BY <1>4, <2>1
<1>8. waitingToSend' \in Seq(Msgs) /\ Range(waitingToSend') = Of("kept")
  BY <1>1, <1>3
<1>9. puback' = puback \cup Of("sent") /\ Confirm(Of("failed"))
  BY <1>1, <1>3, <1>4
<1>10. Of("kept") = Range(waitingToSend) \ (Of("sent") \cup Of("failed"))
  OBVIOUS
<1>11. Of("sent") \cap Of("failed") = {} /\ Of("sent") \in SUBSET Range(waitingToSend)
         /\ Of("failed") \in SUBSET Range(waitingToSend)
  OBVIOUS
<1> HIDE DEF Of
<1> QED
  BY <1>6, <1>7, <1>8, <1>9, <1>10, <1>11

DataOK ==
    /\ client \in {"none", "open", "destroying", "destroyed", "crashed"}
    /\ mqttClientStatus \in Statuses
    /\ currPacketState \in Packets
    /\ topics \subseteq Topics
    /\ topics_ToSubscribe \subseteq topics
    /\ isRecoverableError \in BOOLEAN
    /\ conn_attempted \in BOOLEAN
    /\ device_twin_get_sent \in BOOLEAN
    /\ twin_resp_sub_recv \in BOOLEAN
    /\ waitingToSend \in Seq(Msgs)
    /\ telemetry_waitingForAck \in Seq(Detail)
    /\ iot_msg_queue \in Seq(Reports)
    /\ iot_ack_queue \in Seq(Reports)
    /\ ack_waiting_queue \in Seq(Request)
    /\ uptime \in 0 .. RESEND_TIMEOUT_VALUE_MIN + 1
    /\ link \in {"none", "opening", "open"}
    /\ puback \subseteq Msgs
    /\ suback \in Seq(BOOLEAN)
    /\ told \in {NULL, "AUTHENTICATED", "UNAUTHENTICATED"}
    /\ confirms \in [Items -> Nat]

LEMMA DestroyRestTypes ==
    ASSUME TypeInv, DestroyRest
    PROVE  DataOK'
<1>1. confirms' \in [Items -> Nat]
  BY ConfirmType DEF TypeInv, TypeOK, DestroyRest
<1>2. \A S : <<>> \in Seq(S)
  OBVIOUS
<1> QED
  BY <1>1, <1>2 DEF TypeInv, TypeOK, DestroyRest, DataOK, connVars

\* After a reconnect the time to the next resend starts again.
LEMMA RestartedTypes ==
    ASSUME TypeInv
    PROVE  LET q == [i \in DOMAIN telemetry_waitingForAck |->
                        [telemetry_waitingForAck[i] EXCEPT !.published = uptime]]
           IN  q \in Seq(Detail) /\ MsgsIn(q) = MsgsIn(telemetry_waitingForAck)
<1> DEFINE q == [i \in DOMAIN telemetry_waitingForAck |->
                    [telemetry_waitingForAck[i] EXCEPT !.published = uptime]]
<1>1. uptime \in 0 .. RESEND_TIMEOUT_VALUE_MIN + 1
  BY DEF TypeInv, TypeOK
<1>2. \A e \in Detail : /\ [e EXCEPT !.published = uptime] \in Detail
                        /\ [e EXCEPT !.published = uptime].msg = e.msg
  BY <1>1 DEF Detail
<1>3. \A i \in DOMAIN telemetry_waitingForAck :
          q[i] \in Detail /\ q[i].msg = telemetry_waitingForAck[i].msg
  BY <1>2, Details
<1>4. q = [i \in DOMAIN telemetry_waitingForAck |-> q[i]]
  OBVIOUS
<1>5. telemetry_waitingForAck \in Seq(Detail)
  BY DEF TypeInv, TypeOK
<1> HIDE DEF q
<1>6. q \in Seq(Detail) /\ MsgsIn(q) = MsgsIn(telemetry_waitingForAck)
  BY <1>3, <1>4, <1>5, Aged
<1> QED
  BY <1>6 DEF q

LEMMA ResentTypes ==
    ASSUME TypeInv, Examines
    PROVE  LET q == [telemetry_waitingForAck EXCEPT ![EntryAt] = Resent(@)]
           IN  q \in Seq(Detail) /\ MsgsIn(q) = MsgsIn(telemetry_waitingForAck)
<1> DEFINE q == [telemetry_waitingForAck EXCEPT ![EntryAt] = Resent(@)]
<1>1. telemetry_waitingForAck \in Seq(Detail) /\ EntryAt \in DOMAIN telemetry_waitingForAck
  BY Walks DEF TypeInv, TypeOK
<1>2. \A e \in Detail : Resent(e) \in Detail /\ Resent(e).msg = e.msg
  <2>1. 0 \in 0 .. RESEND_TIMEOUT_VALUE_MIN + 1
    BY LimitsAssumption
  <2> QED
    BY <2>1 DEF Resent, Detail
<1>3. \A i \in DOMAIN telemetry_waitingForAck :
          q[i] = IF i = EntryAt THEN Resent(telemetry_waitingForAck[i])
                 ELSE telemetry_waitingForAck[i]
  OBVIOUS
<1>4. \A i \in DOMAIN telemetry_waitingForAck :
          q[i] \in Detail /\ q[i].msg = telemetry_waitingForAck[i].msg
  BY <1>2, <1>3, Details
<1>5. q = [i \in DOMAIN telemetry_waitingForAck |-> q[i]]
  OBVIOUS
<1> HIDE DEF q
<1>6. q \in Seq(Detail) /\ MsgsIn(q) = MsgsIn(telemetry_waitingForAck)
  BY <1>1, <1>4, <1>5, Aged
<1> QED
  BY <1>6 DEF q

LEMMA RemoveAtType ==
    ASSUME NEW S, NEW q \in Seq(S), NEW i \in DOMAIN q
    PROVE  RemoveAt(q, i) \in Seq(S)
<1>1. i \in 1 .. Len(q) /\ Len(q) \in Nat
  BY LenProperties
<1>2. \A k \in 1 .. Len(q) : q[k] \in S
  BY ElementOfSeq
<1>3. SubSeq(q, 1, i - 1) \in Seq(S) /\ SubSeq(q, i + 1, Len(q)) \in Seq(S)
  BY <1>1, <1>2, SubSeqProperties
<1> QED
  BY <1>3, ConcatProperties DEF RemoveAt

LEMMA TickTypes ==
    ASSUME TypeInv, Tick
    PROVE  /\ telemetry_waitingForAck' \in Seq(Detail)
           /\ MsgsIn(telemetry_waitingForAck') = MsgsIn(telemetry_waitingForAck)
           /\ ack_waiting_queue' \in Seq(Request)
<1> DEFINE older(e) == [e EXCEPT !.created = Older(@, TELEMETRY_MSG_TIMEOUT_MIN),
                                 !.published = Older(@, RESEND_TIMEOUT_VALUE_MIN + 1)]
           longer(q) == [q EXCEPT !.age = Older(@, TwinLimit(q.id))]
<1>0. /\ telemetry_waitingForAck \in Seq(Detail) /\ ack_waiting_queue \in Seq(Request)
  BY DEF TypeInv, TypeOK
<1>1. telemetry_waitingForAck' =
          [i \in DOMAIN telemetry_waitingForAck |-> older(telemetry_waitingForAck[i])]
  BY DEF Tick
<1>2. ack_waiting_queue' = [i \in DOMAIN ack_waiting_queue |-> longer(ack_waiting_queue[i])]
  BY DEF Tick
<1>3. \A e \in Detail : older(e) \in Detail /\ older(e).msg = e.msg
  <2> TAKE e \in Detail
  <2>1. /\ e.created \in 0 .. TELEMETRY_MSG_TIMEOUT_MIN
        /\ e.published \in 0 .. RESEND_TIMEOUT_VALUE_MIN + 1
    BY DEF Detail
  <2>2. /\ Older(e.created, TELEMETRY_MSG_TIMEOUT_MIN) \in 0 .. TELEMETRY_MSG_TIMEOUT_MIN
        /\ Older(e.published, RESEND_TIMEOUT_VALUE_MIN + 1) \in 0 .. RESEND_TIMEOUT_VALUE_MIN + 1
    BY <2>1, LimitsAssumption DEF Older
  <2> QED
    BY <2>2 DEF Detail
<1>4. \A q \in Request : longer(q) \in Request
  <2> TAKE q \in Request
  <2>1. q.age \in Nat
    BY DEF Request
  <2>2. Older(q.age, TwinLimit(q.id)) \in Nat
    BY <2>1 DEF Older
  <2> QED
    BY <2>2 DEF Request
<1> HIDE DEF older, longer
<1>5. \A i \in DOMAIN telemetry_waitingForAck :
        /\ telemetry_waitingForAck'[i] \in Detail
        /\ telemetry_waitingForAck'[i].msg = telemetry_waitingForAck[i].msg
  BY <1>1, <1>3, Details
<1>6. /\ telemetry_waitingForAck' \in Seq(Detail)
      /\ MsgsIn(telemetry_waitingForAck') = MsgsIn(telemetry_waitingForAck)
  <2>1. telemetry_waitingForAck' =
          [i \in DOMAIN telemetry_waitingForAck |-> telemetry_waitingForAck'[i]]
    BY <1>1
  <2> QED
    BY <1>0, <1>5, <2>1, Aged
<1>7. ack_waiting_queue' \in Seq(Request)
  <2>1. \A i \in DOMAIN ack_waiting_queue : ack_waiting_queue[i] \in Request
    BY <1>0, LenProperties, ElementOfSeq
  <2> QED
    BY <1>0, <1>2, <1>4, <2>1
<1> QED
  BY <1>6, <1>7

LEMMA DataStep == ASSUME TypeInv, Next PROVE DataOK'
<1> USE DEF DataOK, connVars, twinVars, itemVars, wireVars
<1>0. DataOK
  BY DEF TypeInv, TypeOK
<1>1. CASE Create
  BY <1>0, <1>1 DEF Create
<1>2. ASSUME NEW m \in Msgs, SendEventAsync(m) PROVE DataOK'
  BY <1>0, <1>2 DEF SendEventAsync
<1>3. ASSUME NEW r \in Reports, SendReportedState(r) PROVE DataOK'
  BY <1>0, <1>3 DEF SendReportedState, Subscribe_DeviceTwin, changeStateToSubscribeIfAllowed,
     Packets, Topics
<1>4. CASE DoWork
  BY <1>0, <1>4, ProcessItemProperties DEF DoWork
<1>5. CASE Destroy
  BY <1>0, <1>5, DestroyRestTypes DEF Destroy
<1>6. CASE UpdateNothing
  BY <1>0, <1>6 DEF UpdateNothing
<1>7. CASE RetryLater
  BY <1>0, <1>7 DEF RetryLater
<1>8. CASE Connect
  <2>1. Unasked(ack_waiting_queue) \in Seq(Request) /\ <<>> \in Seq(BOOLEAN)
    BY <1>0, UnaskedType
  <2>2. CASE Crash
    BY <1>0, <2>2 DEF Crash
  <2>3. CASE ~Crash
    <3>1. /\ puback' = {} /\ suback' = <<>>
          /\ ack_waiting_queue' = Unasked(ack_waiting_queue)
          /\ \/ SendMqttConnectMsg /\ mqttClientStatus' = "CONNECTING"
             \/ /\ link' = "none" /\ conn_attempted' \in {conn_attempted, TRUE}
                /\ UNCHANGED <<currPacketState, mqttClientStatus>>
          /\ UNCHANGED <<client, topics, topics_ToSubscribe, isRecoverableError,
                        device_twin_get_sent, twin_resp_sub_recv, itemVars, uptime, told, confirms>>
      BY <1>8, <2>3 DEF Connect
    <3> QED
      BY <1>0, <2>1, <3>1 DEF SendMqttConnectMsg, Packets, Statuses
  <2> QED
    BY <2>2, <2>3
<1>9. CASE DeferredDisconnect
  BY <1>0, <1>9, DisconnectedTypes DEF DeferredDisconnect, Packets
<1>10. CASE NestedDisconnect
  BY <1>0, <1>10 DEF NestedDisconnect, Crash
<1>11. CASE SasExpires
  BY <1>0, <1>11 DEF SasExpires
<1>12. CASE DoPendingClose
  BY <1>0, <1>12, DropLinkTypes DEF DoPendingClose, Statuses
<1>13. CASE DoSubscribe
  <2>1. suback' \in Seq(BOOLEAN)
    <3>1. suback \in Seq(BOOLEAN)
      BY <1>0
    <3>2. suback' \in {suback, Append(suback, "getState" \in topics_ToSubscribe)}
      BY <1>13 DEF DoSubscribe, SubscribeToMqttProtocol
    <3>3. ASSUME NEW x \in BOOLEAN PROVE Append(suback, x) \in Seq(BOOLEAN)
      BY <3>1, AppendProperties
    <3>4. ("getState" \in topics_ToSubscribe) \in BOOLEAN
      OBVIOUS
    <3>5. Append(suback, "getState" \in topics_ToSubscribe) \in Seq(BOOLEAN)
      BY <3>3, <3>4, Zenon
    <3> QED
      BY <3>1, <3>2, <3>5, Zenon
  <2>2. telemetry_waitingForAck' \in Seq(Detail)
    BY <1>0, <1>13, RestartedTypes DEF DoSubscribe, SubscribeToMqttProtocol
  <2>3. currPacketState' \in Packets /\ topics_ToSubscribe' \subseteq topics
    BY <1>0, <1>13 DEF DoSubscribe, SubscribeToMqttProtocol, Packets
  <2> QED
    BY <1>0, <1>13, <2>1, <2>2, <2>3 DEF DoSubscribe
<1>14. CASE DoSuback
  <2>1. ack_waiting_queue' \in Seq(Request)
    <3>1. TwinMsg(NULL) \in Request
      BY DEF TwinMsg, Request
    <3>2. ack_waiting_queue \in Seq(Request)
      BY <1>0
    <3>3. ack_waiting_queue' \in {ack_waiting_queue, Append(ack_waiting_queue, TwinMsg(NULL))}
      BY <1>14 DEF DoSuback, ProcessSubackDoWork, publishDeviceTwinGetMsg
    <3> QED
      BY <3>1, <3>2, <3>3
  <2> QED
    BY <1>0, <1>14, <2>1 DEF DoSuback, ProcessSubackDoWork, Packets
<1>15. CASE DoOtherState
  BY <1>0, <1>15 DEF DoOtherState
<1>16. CASE DoPublishState
  BY <1>0, <1>16 DEF DoPublishState
<1>17. CASE ProcessPublishStateDoWork
  <2>1. /\ waitingToSend' \in Seq(Msgs) /\ telemetry_waitingForAck' \in Seq(Detail)
        /\ \E sent \in SUBSET Range(waitingToSend) : puback' = puback \cup sent
        /\ \E failed : Confirm(failed)
    BY <1>17, PublishProperties
  <2>2. puback' \subseteq Msgs
    BY <1>0, <2>1, RangeOfSeq
  <2>3. confirms' \in [Items -> Nat]
    BY <1>0, <2>1, ConfirmType
  <2> QED
    BY <1>0, <1>17, <2>1, <2>2, <2>3 DEF ProcessPublishStateDoWork
<1>18. CASE ExpireTwinRequests
  <2>1. /\ iot_ack_queue' \in Seq(Reports)
        /\ \E S : Confirm(S)
    BY <1>18, ReportedStateProperties DEF ExpireTwinRequests
  <2>2. ack_waiting_queue' \in Seq(Request)
    BY <1>0, <1>18, KeepProperties DEF ExpireTwinRequests
  <2>3. confirms' \in [Items -> Nat]
    BY <1>0, <2>1, ConfirmType
  <2> QED
    BY <1>0, <1>18, <2>1, <2>2, <2>3 DEF ExpireTwinRequests
<1>19. CASE PendingDone
  BY <1>0, <1>19 DEF PendingDone
<1>20. CASE PendingDangles
  BY <1>0, <1>20 DEF PendingDangles, Crash
<1>21. CASE PendingWaits
  BY <1>0, <1>21 DEF PendingWaits
<1>22. CASE PendingExpires
  <2>1. telemetry_waitingForAck' \in Seq(Detail) /\ confirms' \in [Items -> Nat]
    BY <1>0, <1>22, WithoutProperties, ConfirmType DEF PendingExpires
  <2>2. CASE ClosesSlowly
    BY <1>0, <1>22, <2>1, <2>2 DEF PendingExpires
  <2>3. CASE ~ClosesSlowly
    BY <1>0, <1>22, <2>1, <2>3, DisconnectedTypes DEF PendingExpires, ConnectionStatus
  <2> QED
    BY <2>2, <2>3
<1>23. CASE PendingExpiresNested
  BY <1>0, <1>23 DEF PendingExpiresNested, Crash
<1>24. CASE PendingResends
  <2>1. telemetry_waitingForAck' \in Seq(Detail)
    BY <1>0, <1>24, WithoutProperties, ResentTypes DEF PendingResends
  <2>2. puback' \subseteq Msgs
    BY <1>0, <1>24, Walks DEF PendingResends
  <2>3. confirms' \in [Items -> Nat]
    BY <1>0, <1>24, ConfirmType DEF PendingResends
  <2> QED
    BY <1>0, <1>24, <2>1, <2>2, <2>3 DEF PendingResends
<1>25. CASE WorkReturns
  BY <1>0, <1>25 DEF WorkReturns
<1>26. CASE ClosingReturns
  BY <1>0, <1>26, DisconnectedTypes DEF ClosingReturns, Crash, ConnectionStatus, Packets
<1>27. CASE DestroyReturns
  BY <1>0, <1>27, DestroyRestTypes DEF DestroyReturns
<1>28. CASE AppReturns
  BY <1>0, <1>28 DEF AppReturns
<1>29. CASE RefusedReturns
  BY <1>0, <1>29 DEF RefusedReturns, Refused, Statuses, Packets
<1>30. CASE ErrorReturns
  BY <1>0, <1>30, DropLinkTypes DEF ErrorReturns, MqttFailed, Statuses, Packets
<1>31. CASE TwinReturns
  BY <1>0, <1>31 DEF TwinReturns, NotifyNeeded, changeStateToSubscribeIfAllowed, Packets, Topics
<1>32. CASE SasReturns
  BY <1>0, <1>32 DEF SasReturns, Packets
<1>33. CASE OnConnack
  BY <1>0, <1>33 DEF OnConnack, ConnackAccepted, ConnectionStatus, Statuses, Packets
<1>34. CASE OnConnackRefused
  BY <1>0, <1>34 DEF OnConnackRefused, ConnectionStatus, Refused, Statuses, Packets
<1>35. ASSUME NEW m \in Msgs, OnPublishAck(m) PROVE DataOK'
  <2>1. telemetry_waitingForAck' \in Seq(Detail) /\ confirms' \in [Items -> Nat]
    BY <1>0, <1>35, WithoutProperties, ConfirmType DEF OnPublishAck, Acked
  <2> QED
    BY <1>0, <1>35, <2>1 DEF OnPublishAck
<1>36. CASE OnSubscribeAck
  <2>1. Tail(suback) \in Seq(BOOLEAN) /\ (twin_resp_sub_recv \/ Head(suback)) \in BOOLEAN
    <3>1. suback \in Seq(BOOLEAN) /\ suback # <<>>
      BY <1>0, <1>36 DEF OnSubscribeAck
    <3> QED
      BY <3>1, HeadTailProperties
  <2> QED
    BY <1>0, <1>36, <2>1 DEF OnSubscribeAck, Packets
<1>37. CASE OnTwinResponse
  <2>1. PICK i \in DOMAIN ack_waiting_queue :
            /\ ack_waiting_queue' = RemoveAt(ack_waiting_queue, i)
            /\ \/ UNCHANGED <<topics, topics_ToSubscribe, currPacketState, iot_ack_queue, confirms>>
               \/ ReportedStateComplete({ack_waiting_queue[i].id}) /\ NotifyNeeded
    BY <1>37 DEF OnTwinResponse
  <2>2. ack_waiting_queue' \in Seq(Request)
    BY <1>0, <2>1, RemoveAtType
  <2>3. iot_ack_queue' \in Seq(Reports) /\ confirms' \in [Items -> Nat]
    <3>1. CASE ReportedStateComplete({ack_waiting_queue[i].id})
      BY <1>0, <3>1, ReportedStateProperties, ConfirmType
    <3> QED
      BY <1>0, <2>1, <3>1
  <2>4. /\ topics' \subseteq Topics /\ topics_ToSubscribe' \subseteq topics'
        /\ currPacketState' \in Packets
    BY <1>0, <2>1 DEF NotifyNeeded, changeStateToSubscribeIfAllowed, Packets, Topics
  <2> QED
    BY <1>0, <1>37, <2>2, <2>3, <2>4 DEF OnTwinResponse
<1>38. CASE OnInbound
  BY <1>0, <1>38 DEF OnInbound
<1>39. CASE OnError
  BY <1>0, <1>39, DropLinkTypes DEF OnError, MqttFailed, ConnectionStatus, Statuses, Packets
<1>40. CASE OnDisconnect
  BY <1>0, <1>40 DEF OnDisconnect, Statuses
<1>41. CASE Tick
  <2>1. telemetry_waitingForAck' \in Seq(Detail) /\ ack_waiting_queue' \in Seq(Request)
    BY <1>41, TickTypes
  <2>2. uptime' \in 0 .. RESEND_TIMEOUT_VALUE_MIN + 1
    <3>1. uptime \in 0 .. RESEND_TIMEOUT_VALUE_MIN + 1
      BY <1>0
    <3>2. uptime' = Older(uptime, RESEND_TIMEOUT_VALUE_MIN + 1)
      BY <1>41 DEF Tick
    <3> QED
      BY <3>1, <3>2, LimitsAssumption DEF Older
  <2> QED
    BY <1>0, <1>41, <2>1, <2>2 DEF Tick
<1> QED
  BY <1>1, <1>2, <1>3, <1>4, <1>5, <1>6, <1>7, <1>8, <1>9, <1>10, <1>11, <1>12, <1>13, <1>14,
     <1>15, <1>16, <1>17, <1>18, <1>19, <1>20, <1>21, <1>22, <1>23, <1>24, <1>25, <1>26, <1>27,
     <1>28, <1>29, <1>30, <1>31, <1>32, <1>33, <1>34, <1>35, <1>36, <1>37, <1>38, <1>39, <1>40,
     <1>41
     DEF Next, Running, Application, DoWorkGoesOn, UpdateMqttConnectionStateIfNeeded,
         ProcessPendingTelemetryMessages, ClientReturns, CallbackReturns, Events

LEMMA TypeInvStep == ASSUME TypeInv, [Next]_vars PROVE TypeInv'
<1>1. CASE Next
  <2>1. DataOK' /\ stack' \in Seq(Proper)
    BY <1>1, DataStep, StackStep
  <2>2. stack' \in Seq(Frame)
    BY <2>1, SeqMonotonic DEF Proper
  <2> QED
    BY <2>1, <2>2 DEF TypeInv, TypeOK, DataOK
<1>2. CASE UNCHANGED vars
  BY <1>2 DEF TypeInv, TypeOK, vars, connVars, twinVars, itemVars, wireVars
<1> QED
  BY <1>1, <1>2

\* Everything the hub client keeps has its type, whatever is called from its
\* callbacks, and no topic is subscribed to that has no name.
THEOREM TypeCorrect == Spec => []TypeOK
<1>1. Init => TypeInv
  BY TypeInitially
<1>2. TypeInv /\ [Next]_vars => TypeInv'
  BY TypeInvStep
<1>3. TypeInv => TypeOK
  BY DEF TypeInv
<1> QED
  BY <1>1, <1>2, <1>3, PTL DEF Spec

-----------------------------------------------------------------------------
(* Confirmations.                                                           *)

\* An item is in one queue only, and code runs only for a client that exists.
QueuesInv ==
    /\ Range(waitingToSend) \cap MsgsIn(telemetry_waitingForAck) = {}
    /\ Range(iot_msg_queue) \cap Range(iot_ack_queue) = {}

IdleInv == client \in {"none", "destroyed", "crashed"} => stack = <<>>

LEMMA IdleStep == ASSUME IdleInv, Next PROVE IdleInv'
<1> USE DEF IdleInv, TopIn, Crash
<1>1. CASE Create
  BY <1>1 DEF Create
<1>2. CASE Application
  BY <1>2 DEF Application, SendEventAsync, SendReportedState, DoWork, Destroy, DestroyRest,
     AppRuns
<1>3. CASE UpdateMqttConnectionStateIfNeeded
  BY <1>3 DEF UpdateMqttConnectionStateIfNeeded, UpdateNothing, RetryLater, Connect,
              DeferredDisconnect, NestedDisconnect, SasExpires, Updating
<1>4. CASE ProcessPendingTelemetryMessages
  BY <1>4 DEF ProcessPendingTelemetryMessages, PendingDone, PendingDangles, PendingWaits,
              PendingExpires, PendingExpiresNested, PendingResends, Examines
<1>5. CASE DoPendingClose \/ DoSubscribe \/ DoSuback \/ DoOtherState \/ DoPublishState
           \/ ProcessPublishStateDoWork \/ ExpireTwinRequests
  BY <1>5 DEF DoPendingClose, DoSubscribe, DoSuback, DoOtherState, DoPublishState, StateWork,
              ProcessPublishStateDoWork, ExpireTwinRequests
<1>6. CASE ClientReturns \/ CallbackReturns
  BY <1>6 DEF ClientReturns, CallbackReturns, WorkReturns, ClosingReturns, DestroyReturns,
              AppReturns, RefusedReturns, ErrorReturns, TwinReturns, SasReturns
<1>7. CASE Events
  BY <1>7 DEF Events, Listening, OnConnack, OnConnackRefused, OnPublishAck, OnSubscribeAck,
              OnTwinResponse, OnInbound, OnError, OnDisconnect
<1>8. CASE Tick
  BY <1>8 DEF Tick
<1> QED
  BY <1>1, <1>2, <1>3, <1>4, <1>5, <1>6, <1>7, <1>8 DEF Next, Running, DoWorkGoesOn

\* Messages are not reports.
LEMMA Apart ==
    ASSUME TypeInv
    PROVE  /\ Range(waitingToSend) \subseteq Msgs
           /\ MsgsIn(telemetry_waitingForAck) \subseteq Msgs
           /\ Range(iot_msg_queue) \subseteq Reports
           /\ Range(iot_ack_queue) \subseteq Reports
           /\ Msgs \cap Reports = {} /\ Items = Msgs \cup Reports
<1>1. \A i \in DOMAIN telemetry_waitingForAck : telemetry_waitingForAck[i].msg \in Msgs
  BY Details DEF Detail
<1>2. MsgsIn(telemetry_waitingForAck) \subseteq Msgs
  BY <1>1 DEF MsgsIn
<1>3. /\ Range(waitingToSend) \subseteq Msgs
      /\ Range(iot_msg_queue) \subseteq Reports
      /\ Range(iot_ack_queue) \subseteq Reports
  BY RangeOfSeq DEF TypeInv, TypeOK
<1> QED
  BY <1>2, <1>3, ItemsAssumption DEF Items

\* Items that leave the queues with a confirmation, or lost without one.
LEMMA Settles ==
    ASSUME NEW done \in SUBSET Unsettled, NEW lost \in SUBSET (done \cap Reports),
           Unsettled' = Unsettled \ done, Confirm(done \ lost),
           (client = "destroyed")' = (client = "destroyed")
    PROVE  C!Next
<1>1. C!Settle(done, lost)
  BY DEF C!Settle, Confirm
<1> QED
  BY <1>1 DEF C!Next, C!Complete

\* No queue and no count changes.
LEMMA Stutters ==
    ASSUME Range(waitingToSend') = Range(waitingToSend),
           MsgsIn(telemetry_waitingForAck') = MsgsIn(telemetry_waitingForAck),
           Range(iot_msg_queue') = Range(iot_msg_queue),
           Range(iot_ack_queue') = Range(iot_ack_queue),
           confirms' = confirms,
           (client = "destroyed")' = (client = "destroyed")
    PROVE  (QueuesInv => QueuesInv') /\ UNCHANGED C!vars
<1>1. Unsettled' = Unsettled
  BY DEF Unsettled, MsgsIn, Range
<1> QED
  BY <1>1 DEF QueuesInv, C!vars, MsgsIn, Range

\* A message that is not waiting for its PUBACK any more was confirmed.
LEMMA MessageSettled ==
    ASSUME TypeInv, QueuesInv, NEW m \in MsgsIn(telemetry_waitingForAck), Confirm({m}),
           telemetry_waitingForAck' = Without(telemetry_waitingForAck, m),
           UNCHANGED <<client, waitingToSend, iot_msg_queue, iot_ack_queue>>
    PROVE  QueuesInv' /\ C!Next
<1>1. MsgsIn(telemetry_waitingForAck') = MsgsIn(telemetry_waitingForAck) \ {m}
  BY WithoutProperties DEF TypeInv, TypeOK
<1>2. Unsettled' = Range(waitingToSend) \cup (MsgsIn(telemetry_waitingForAck) \ {m})
                      \cup Range(iot_msg_queue) \cup Range(iot_ack_queue)
  BY <1>1 DEF Unsettled, MsgsIn, Range
<1>3. m \in Unsettled /\ Unsettled' = Unsettled \ {m}
  BY <1>2, Apart DEF Unsettled, QueuesInv
<1>4. C!Next
  <2>1. {m} \in SUBSET Unsettled /\ {} \in SUBSET ({m} \cap Reports) /\ {m} \ {} = {m}
    BY <1>3
  <2>2. (client = "destroyed")' = (client = "destroyed")
    OBVIOUS
  <2> QED
    BY <1>3, <2>1, <2>2, Settles
<1>5. QueuesInv'
  BY <1>1 DEF QueuesInv, MsgsIn, Range
<1> QED
  BY <1>4, <1>5

\* The reports of S that the core still has are confirmed.
LEMMA ReportsSettled ==
    ASSUME TypeInv, QueuesInv, NEW S, ReportedStateComplete(S),
           UNCHANGED <<client, waitingToSend, telemetry_waitingForAck, iot_msg_queue>>
    PROVE  QueuesInv' /\ C!Next
<1> DEFINE done == S \cap Range(iot_ack_queue)
<1>1. Range(iot_ack_queue') = Range(iot_ack_queue) \ S /\ Confirm(done)
  BY ReportedStateProperties
<1>2. Unsettled' = Range(waitingToSend) \cup MsgsIn(telemetry_waitingForAck)
                      \cup Range(iot_msg_queue) \cup (Range(iot_ack_queue) \ S)
  BY <1>1 DEF Unsettled, MsgsIn, Range
<1>3. Unsettled' = Unsettled \ done
  BY <1>2, Apart DEF Unsettled, QueuesInv
<1>4. C!Next
  <2>1. done \in SUBSET Unsettled /\ {} \in SUBSET (done \cap Reports) /\ done \ {} = done
    BY DEF Unsettled
  <2>2. (client = "destroyed")' = (client = "destroyed")
    OBVIOUS
  <2> HIDE DEF done
  <2> QED
    BY <1>1, <1>3, <2>1, <2>2, Settles
<1>5. QueuesInv'
  BY <1>1 DEF QueuesInv, MsgsIn, Range
<1> QED
  BY <1>4, <1>5

\* The application hands an item over.
LEMMA Accepts ==
    ASSUME TypeInv, QueuesInv,
           \/ \E m \in Msgs : SendEventAsync(m)
           \/ \E r \in Reports : SendReportedState(r)
    PROVE  QueuesInv' /\ C!Next
<1>1. ASSUME NEW m \in Msgs, SendEventAsync(m) PROVE QueuesInv' /\ C!Next
  <2>1. /\ client \in {"open", "destroying"} /\ client' = client /\ confirms[m] = 0
        /\ m \notin Range(waitingToSend) \cup MsgsIn(telemetry_waitingForAck)
        /\ waitingToSend' = Append(waitingToSend, m)
        /\ UNCHANGED <<telemetry_waitingForAck, iot_msg_queue, iot_ack_queue, confirms>>
    BY <1>1 DEF SendEventAsync, AppRuns
  <2>2. Range(waitingToSend') = Range(waitingToSend) \cup {m}
    BY <2>1, RangeOfAppend DEF TypeInv, TypeOK
  <2>3. m \notin Unsettled /\ Unsettled' = Unsettled \cup {m}
    BY <2>1, <2>2, Apart DEF Unsettled, MsgsIn, Range
  <2>4. C!Accept(m) /\ m \in Items
    BY <2>1, <2>3 DEF C!Accept, Items
  <2>5. QueuesInv'
    <3>1. /\ Range(waitingToSend)' = Range(waitingToSend) \cup {m}
          /\ MsgsIn(telemetry_waitingForAck)' = MsgsIn(telemetry_waitingForAck)
          /\ Range(iot_msg_queue)' = Range(iot_msg_queue)
          /\ Range(iot_ack_queue)' = Range(iot_ack_queue)
      BY <2>1, <2>2 DEF MsgsIn, Range
    <3> QED
      BY <2>1, <3>1 DEF QueuesInv
  <2> QED
    BY <2>4, <2>5 DEF C!Next
<1>2. ASSUME NEW r \in Reports, SendReportedState(r) PROVE QueuesInv' /\ C!Next
  <2>1. /\ client \in {"open", "destroying"} /\ client' = client /\ confirms[r] = 0
        /\ r \notin Range(iot_msg_queue) \cup Range(iot_ack_queue)
        /\ iot_msg_queue' = Append(iot_msg_queue, r)
        /\ UNCHANGED <<waitingToSend, telemetry_waitingForAck, iot_ack_queue, confirms>>
    BY <1>2 DEF SendReportedState, AppRuns
  <2>2. Range(iot_msg_queue') = Range(iot_msg_queue) \cup {r}
    BY <2>1, RangeOfAppend DEF TypeInv, TypeOK
  <2>3. r \notin Unsettled /\ Unsettled' = Unsettled \cup {r}
    BY <2>1, <2>2, Apart DEF Unsettled, MsgsIn, Range
  <2>4. C!Accept(r) /\ r \in Items
    BY <2>1, <2>3 DEF C!Accept, Items
  <2>5. QueuesInv'
    <3>1. /\ Range(waitingToSend)' = Range(waitingToSend)
          /\ MsgsIn(telemetry_waitingForAck)' = MsgsIn(telemetry_waitingForAck)
          /\ Range(iot_msg_queue)' = Range(iot_msg_queue) \cup {r}
          /\ Range(iot_ack_queue)' = Range(iot_ack_queue)
      BY <2>1, <2>2 DEF MsgsIn, Range
    <3> QED
      BY <2>1, <3>1 DEF QueuesInv
  <2> QED
    BY <2>4, <2>5 DEF C!Next
<1> QED
  BY <1>1, <1>2

\* The core hands its reports to the transport, which may drop some.
LEMMA HandsOver ==
    ASSUME TypeInv, QueuesInv, DoWork
    PROVE  QueuesInv' /\ [C!Next]_(C!vars)
<1>1. UNCHANGED <<client, waitingToSend, telemetry_waitingForAck, confirms>>
  BY DEF DoWork
<1>2. PICK ok \in SUBSET Range(iot_msg_queue) :
        \/ /\ Range(iot_msg_queue') = {}
           /\ Range(iot_ack_queue') = Range(iot_ack_queue) \cup ok
        \/ UNCHANGED <<iot_msg_queue, iot_ack_queue>>
  BY ProcessItemProperties DEF DoWork
<1>3. CASE UNCHANGED <<iot_msg_queue, iot_ack_queue>>
  BY <1>1, <1>3, Stutters
<1>4. CASE /\ Range(iot_msg_queue') = {}
           /\ Range(iot_ack_queue') = Range(iot_ack_queue) \cup ok
  <2> DEFINE done == Range(iot_msg_queue) \ ok
  <2>1. Unsettled' = Range(waitingToSend) \cup MsgsIn(telemetry_waitingForAck)
                        \cup Range(iot_ack_queue) \cup ok
    BY <1>1, <1>4 DEF Unsettled, MsgsIn, Range
  <2>2. Unsettled' = Unsettled \ done
    BY <2>1, Apart DEF Unsettled, QueuesInv
  <2>3. done \in SUBSET Unsettled /\ done \in SUBSET (done \cap Reports) /\ done \ done = {}
    BY Apart DEF Unsettled
  <2>4. Confirm({})
    BY <1>1 DEF Confirm, TypeInv, TypeOK
  <2>5. C!Next
    <3> HIDE DEF done
    <3> QED
      BY <1>1, <2>2, <2>3, <2>4, Settles
  <2>6. QueuesInv'
    BY <1>1, <1>4 DEF QueuesInv, MsgsIn, Range
  <2> QED
    BY <2>5, <2>6
<1> QED
  BY <1>2, <1>3, <1>4

\* The transport publishes the messages, of which some fail.
LEMMA Publishes ==
    ASSUME TypeInv, QueuesInv, ProcessPublishStateDoWork
    PROVE  QueuesInv' /\ C!Next
<1>1. UNCHANGED <<client, iot_msg_queue, iot_ack_queue>>
  BY DEF ProcessPublishStateDoWork
<1>2. PICK sent, failed \in SUBSET Range(waitingToSend) :
        /\ sent \cap failed = {}
        /\ Range(waitingToSend') = Range(waitingToSend) \ (sent \cup failed)
        /\ MsgsIn(telemetry_waitingForAck') = MsgsIn(telemetry_waitingForAck) \cup sent
        /\ Confirm(failed)
  BY PublishProperties
<1>3. Unsettled' = (Range(waitingToSend) \ (sent \cup failed))
                      \cup (MsgsIn(telemetry_waitingForAck) \cup sent)
                      \cup Range(iot_msg_queue) \cup Range(iot_ack_queue)
  BY <1>1, <1>2 DEF Unsettled, MsgsIn, Range
<1>4. Unsettled' = Unsettled \ failed
  BY <1>2, <1>3, Apart DEF Unsettled, QueuesInv
<1>5. C!Next
  <2>1. failed \in SUBSET Unsettled /\ {} \in SUBSET (failed \cap Reports)
          /\ failed \ {} = failed
    BY DEF Unsettled
  <2> QED
    BY <1>1, <1>2, <1>4, <2>1, Settles
<1>6. QueuesInv'
  BY <1>1, <1>2 DEF QueuesInv, MsgsIn, Range
<1> QED
  BY <1>5, <1>6

\* Whatever is left is confirmed when the client is destroyed.
LEMMA Closes ==
    ASSUME TypeInv, QueuesInv, client # "destroyed", DestroyRest
    PROVE  QueuesInv' /\ C!Next
<1>1. /\ client' = "destroyed" /\ Confirm(Unsettled)
      /\ waitingToSend' = <<>> /\ telemetry_waitingForAck' = <<>>
      /\ iot_msg_queue' = <<>> /\ iot_ack_queue' = <<>>
  BY DEF DestroyRest
<1>2. /\ Range(waitingToSend)' = {} /\ Range(iot_msg_queue)' = {} /\ Range(iot_ack_queue)' = {}
      /\ MsgsIn(telemetry_waitingForAck)' = {}
  BY <1>1 DEF Range, MsgsIn
<1>3. Unsettled' = {}
  BY <1>2 DEF Unsettled
<1>4. C!Close
  BY <1>1, <1>3 DEF C!Close, C!Settle, Confirm
<1> QED
  BY <1>2, <1>4 DEF QueuesInv, C!Next

LEMMA ItemStep ==
    ASSUME TypeInv, QueuesInv, IdleInv, Next
    PROVE  QueuesInv' /\ [C!Next]_(C!vars)
<1> USE DEF TopIn
<1>0. CASE UNCHANGED <<client, itemVars, confirms>>
  BY <1>0, Stutters DEF itemVars
<1>1. CASE Crash /\ client # "destroyed"
  BY <1>1, Stutters DEF Crash, itemVars
<1>2. CASE Create
  BY <1>2, Stutters DEF Create, itemVars
<1>3. CASE Application
  <2>1. CASE DoWork
    BY <2>1, HandsOver
  <2>2. CASE Destroy
    <3>1. CASE ClosesSlowly
      BY <2>2, <3>1, Stutters DEF Destroy, itemVars
    <3>2. CASE ~ClosesSlowly
      BY <2>2, <3>2, Closes DEF Destroy
    <3> QED
      BY <3>1, <3>2
  <2> QED
    BY <1>3, <2>1, <2>2, Accepts DEF Application
<1>4. CASE UpdateMqttConnectionStateIfNeeded
  <2>1. UNCHANGED <<client, itemVars, confirms>> \/ (Crash /\ client # "destroyed")
    BY <1>4 DEF UpdateMqttConnectionStateIfNeeded, UpdateNothing, RetryLater, Connect,
                DeferredDisconnect, NestedDisconnect, SasExpires, Updating
  <2> QED
    BY <1>0, <1>1, <2>1
<1>5. CASE DoPendingClose \/ DoSuback \/ DoOtherState \/ DoPublishState
  <2>1. UNCHANGED <<client, itemVars, confirms>>
    BY <1>5 DEF DoPendingClose, DoSuback, DoOtherState, DoPublishState
  <2> QED
    BY <1>0, <2>1
<1>6. CASE DoSubscribe
  <2>1. UNCHANGED <<client, waitingToSend, iot_msg_queue, iot_ack_queue, confirms>>
    BY <1>6 DEF DoSubscribe
  <2>2. MsgsIn(telemetry_waitingForAck') = MsgsIn(telemetry_waitingForAck)
    BY <1>6, RestartedTypes DEF DoSubscribe, SubscribeToMqttProtocol
  <2> QED
    BY <2>1, <2>2, Stutters
<1>7. CASE ProcessPublishStateDoWork
  BY <1>7, Publishes
<1>8. CASE ExpireTwinRequests
  BY <1>8, ReportsSettled DEF ExpireTwinRequests
<1>9. CASE ProcessPendingTelemetryMessages
  <2>1. CASE PendingDone \/ PendingWaits
    BY <2>1, <1>0 DEF PendingDone, PendingWaits
  <2>2. CASE PendingDangles \/ PendingExpiresNested
    BY <2>2, <1>1 DEF PendingDangles, PendingExpiresNested, Examines, IdleInv
  <2>3. CASE PendingExpires
    BY <2>3, MessageSettled DEF PendingExpires, Examines
  <2>4. CASE PendingResends
    <3>1. /\ UNCHANGED <<client, waitingToSend, iot_msg_queue, iot_ack_queue>> /\ Examines
          /\ \/ /\ telemetry_waitingForAck' =
                      [telemetry_waitingForAck EXCEPT ![EntryAt] = Resent(@)]
                /\ UNCHANGED confirms
             \/ /\ telemetry_waitingForAck' = Without(telemetry_waitingForAck, Top.next)
                /\ Confirm({Top.next})
      BY <2>4 DEF PendingResends
    <3>2. CASE /\ telemetry_waitingForAck' =
                      [telemetry_waitingForAck EXCEPT ![EntryAt] = Resent(@)]
               /\ UNCHANGED confirms
      <4>1. MsgsIn(telemetry_waitingForAck') = MsgsIn(telemetry_waitingForAck)
        BY <3>1, <3>2, ResentTypes
      <4> QED
        BY <3>1, <3>2, <4>1, Stutters
    <3> QED
      BY <3>1, <3>2, MessageSettled DEF Examines
  <2> QED
    BY <1>9, <2>1, <2>2, <2>3, <2>4 DEF ProcessPendingTelemetryMessages
<1>10. CASE ClientReturns
  <2>1. CASE WorkReturns
    BY <2>1, <1>0 DEF WorkReturns
  <2>2. CASE ClosingReturns
    <3>1. UNCHANGED <<client, itemVars, confirms>> \/ (Crash /\ client # "destroyed")
      BY <2>2 DEF ClosingReturns, IdleInv
    <3> QED
      BY <1>0, <1>1, <3>1
  <2>3. CASE DestroyReturns
    BY <2>3, Closes DEF DestroyReturns, IdleInv
  <2> QED
    BY <1>10, <2>1, <2>2, <2>3 DEF ClientReturns
<1>11. CASE CallbackReturns
  <2>1. UNCHANGED <<client, itemVars, confirms>>
    BY <1>11 DEF CallbackReturns, AppReturns, RefusedReturns, ErrorReturns, TwinReturns,
       SasReturns
  <2> QED
    BY <1>0, <2>1
<1>12. CASE Events
  <2>1. CASE OnConnack \/ OnConnackRefused \/ OnSubscribeAck \/ OnInbound \/ OnError \/ OnDisconnect
    <3>1. UNCHANGED <<client, itemVars, confirms>>
      BY <2>1 DEF OnConnack, OnConnackRefused, OnSubscribeAck, OnInbound, OnError, OnDisconnect
    <3> QED
      BY <1>0, <3>1
  <2>2. ASSUME NEW m \in Msgs, OnPublishAck(m) PROVE QueuesInv' /\ C!Next
    BY <2>2, MessageSettled DEF OnPublishAck, Acked
  <2>3. CASE OnTwinResponse
    <3>1. /\ UNCHANGED <<client, waitingToSend, telemetry_waitingForAck, iot_msg_queue>>
          /\ \/ UNCHANGED <<iot_ack_queue, confirms>>
             \/ \E S : ReportedStateComplete(S)
      BY <2>3 DEF OnTwinResponse
    <3>2. CASE UNCHANGED <<iot_ack_queue, confirms>>
      BY <3>1, <3>2, Stutters
    <3> QED
      BY <3>1, <3>2, ReportsSettled
  <2> QED
    BY <1>12, <2>1, <2>2, <2>3 DEF Events
<1>13. CASE Tick
  <2>1. UNCHANGED <<client, waitingToSend, iot_msg_queue, iot_ack_queue, confirms>>
    BY <1>13 DEF Tick
  <2> QED
    BY <1>13, <2>1, TickTypes, Stutters
<1> QED
  BY <1>2, <1>3, <1>4, <1>5, <1>6, <1>7, <1>8, <1>9, <1>10, <1>11, <1>12, <1>13
     DEF Next, Running, DoWorkGoesOn

\* The client implements Confirmations: every message and report handed over is
\* confirmed at most once, and exactly once when the client is destroyed unless
\* it is a report whose PUBLISH failed, for any items, limits and nesting.
THEOREM ConfirmationsImplemented == Spec => ImplementsConfirmations
<1> DEFINE I == TypeInv /\ QueuesInv /\ IdleInv
<1>1. Init => I /\ C!Init
  <2> SUFFICES ASSUME Init PROVE I /\ C!Init
    OBVIOUS
  <2>1. /\ Range(waitingToSend) = {} /\ Range(iot_msg_queue) = {} /\ Range(iot_ack_queue) = {}
        /\ MsgsIn(telemetry_waitingForAck) = {}
    BY DEF Init, Range, MsgsIn
  <2> QED
    BY <2>1, TypeInitially DEF Init, QueuesInv, IdleInv, C!Init, Unsettled
<1>2. I /\ [Next]_vars => I' /\ [C!Next]_(C!vars)
  <2> SUFFICES ASSUME I, [Next]_vars PROVE I' /\ [C!Next]_(C!vars)
    OBVIOUS
  <2>1. CASE Next
    BY <2>1, TypeInvStep, ItemStep, IdleStep
  <2>2. CASE UNCHANGED vars
    <3>1. UNCHANGED <<client, stack, itemVars, confirms>>
      BY <2>2 DEF vars
    <3>2. QueuesInv' /\ UNCHANGED C!vars
      BY <3>1, Stutters DEF itemVars
    <3> QED
      BY <2>2, <3>1, <3>2, TypeInvStep DEF IdleInv
  <2> QED
    BY <2>1, <2>2
<1> HIDE DEF I
<1> QED
  BY <1>1, <1>2, PTL DEF Spec, ImplementsConfirmations, C!Spec

-----------------------------------------------------------------------------
(* What the application is told of the connection.                         *)

\* processErrorCallback has reported the loss of the connection and waits for
\* the application's callback to return.
Failing(s) == \E f \in Range(s) : f.pc = "app" /\ f.then = "error"

\* A session that was not announced, or whose loss was, is one that some
\* processErrorCallback is about to end.
ToldInv ==
    /\ client = "none" => mqttClientStatus = "NOT_CONNECTED"
    /\ mqttClientStatus = "CONNECTED" => currPacketState # "DISCONNECT"
    /\ client \in {"open", "destroying"} /\ mqttClientStatus = "CONNECTED" =>
            told = "AUTHENTICATED" \/ Failing(stack)

\* Only its return takes the frame of such a callback off the stack.
LEMMA FailingStep ==
    ASSUME TypeInv, Next, Failing(stack), ~ErrorReturns, client' \in {"open", "destroying"}
    PROVE  Failing(stack')
<1> DEFINE Other == stack # <<>> /\ ~(Top.pc = "app" /\ Top.then = "error")
<1>0. stack \in Seq(Proper)
  BY DEF TypeInv
<1>1. \A f \in Proper : Failing(<<f>> \o stack)
  BY <1>0, Push DEF Failing
<1>2. Other => Failing(Tail(stack)) /\ Tail(stack) \in Seq(Proper)
  BY <1>0, Pop DEF Failing, Top
<1>3. \A f \in Proper : Other => Failing(Goto(f)) /\ Goto(f) \in Seq(Proper)
  BY <1>2, Push DEF Failing, Goto
<1>4. \A f, g \in Proper : Other => Failing(<<g>> \o Goto(f))
  BY <1>3, Push DEF Failing
<1> QED
  BY <1>1, <1>2, <1>3, <1>4, StackMoves DEF Stayed, Called, Replaced, CalledFrom, Returned

\* The status and the packet state of a session change together.
LEMMA StatusStep ==
    ASSUME TypeInv, IdleInv, ToldInv, Next
    PROVE  /\ client' = "none" => mqttClientStatus' = "NOT_CONNECTED"
           /\ mqttClientStatus' = "CONNECTED" => currPacketState' # "DISCONNECT"
<1> USE DEF TopIn, Crash, IdleInv, ToldInv, connVars, changeStateToSubscribeIfAllowed
<1>1. CASE Create \/ Tick
  BY <1>1 DEF Create, Tick
<1>2. CASE Application
  BY <1>2 DEF Application, SendEventAsync, SendReportedState, Subscribe_DeviceTwin, DoWork,
              Destroy, DestroyRest, AppRuns
<1>3. CASE UpdateMqttConnectionStateIfNeeded
  BY <1>3 DEF UpdateMqttConnectionStateIfNeeded, UpdateNothing, RetryLater, Connect,
              SendMqttConnectMsg, DeferredDisconnect, Disconnected, NestedDisconnect,
              SasExpires, Updating
<1>4. CASE ProcessPendingTelemetryMessages
  BY <1>4 DEF ProcessPendingTelemetryMessages, PendingDone, PendingDangles, PendingWaits,
              PendingExpires, PendingExpiresNested, PendingResends, Examines, Disconnected
<1>5. CASE DoPendingClose \/ DoSubscribe \/ DoSuback \/ DoOtherState \/ DoPublishState
           \/ ProcessPublishStateDoWork \/ ExpireTwinRequests
  BY <1>5 DEF DoPendingClose, DoSubscribe, SubscribeToMqttProtocol, DoSuback,
              ProcessSubackDoWork, DoOtherState, DoPublishState, StateWork,
              ProcessPublishStateDoWork, ExpireTwinRequests
<1>6. CASE ClientReturns \/ CallbackReturns
  BY <1>6 DEF ClientReturns, CallbackReturns, WorkReturns, ClosingReturns, DestroyReturns,
              DestroyRest, Disconnected, AppReturns, RefusedReturns, Refused, ErrorReturns,
              MqttFailed, TwinReturns, NotifyNeeded, SasReturns
<1>7. CASE Events
  BY <1>7 DEF Events, Listening, OnConnack, OnConnackRefused, Refused, OnPublishAck,
              OnSubscribeAck, OnTwinResponse, NotifyNeeded, OnInbound, OnError, MqttFailed,
              OnDisconnect
<1> QED
  BY <1>1, <1>2, <1>3, <1>4, <1>5, <1>6, <1>7 DEF Next, Running, DoWorkGoesOn

\* A session is announced when it begins; one that goes on is announced, or the
\* announcement of its end has just begun.
LEMMA ToldStep ==
    ASSUME TypeInv, IdleInv, ToldInv, Next, client' \in {"open", "destroying"},
           mqttClientStatus' = "CONNECTED"
    PROVE  \/ told' = "AUTHENTICATED"
           \/ UNCHANGED <<told, mqttClientStatus>> /\ ~ErrorReturns
                /\ client \in {"open", "destroying"}
           \/ stack' = <<Fr("app", "error")>> \o stack
<1> USE DEF TopIn, Crash, IdleInv, ToldInv, connVars
<1>1. CASE Create \/ Tick
  BY <1>1 DEF Create, Tick, ErrorReturns
<1>2. CASE Application
  BY <1>2 DEF Application, SendEventAsync, SendReportedState, DoWork,
              Destroy, DestroyRest, AppRuns, ErrorReturns, MqttFailed
<1>3. CASE UpdateMqttConnectionStateIfNeeded
  BY <1>3 DEF UpdateMqttConnectionStateIfNeeded, UpdateNothing, RetryLater, Connect,
              DeferredDisconnect, Disconnected, NestedDisconnect, SasExpires, Updating,
              ErrorReturns
<1>4. CASE ProcessPendingTelemetryMessages
  BY <1>4 DEF ProcessPendingTelemetryMessages, PendingDone, PendingDangles, PendingWaits,
              PendingExpires, PendingExpiresNested, PendingResends, Examines, Disconnected,
              ClosesSlowly, ErrorReturns
<1>5. CASE DoPendingClose \/ DoSubscribe \/ DoSuback \/ DoOtherState \/ DoPublishState
           \/ ProcessPublishStateDoWork \/ ExpireTwinRequests
  BY <1>5 DEF DoPendingClose, DoSubscribe, DoSuback, DoOtherState, DoPublishState, StateWork,
              ProcessPublishStateDoWork, ExpireTwinRequests, ErrorReturns
<1>6. CASE ClientReturns \/ CallbackReturns
  BY <1>6 DEF ClientReturns, CallbackReturns, WorkReturns, ClosingReturns, DestroyReturns,
              DestroyRest, Disconnected, AppReturns, RefusedReturns, Refused, ErrorReturns,
              MqttFailed, TwinReturns, SasReturns
<1>7. CASE Events
  BY <1>7 DEF Events, Listening, OnConnack, ConnackAccepted, ConnectionStatus,
              OnConnackRefused, Refused, OnPublishAck, OnSubscribeAck, OnTwinResponse,
              OnInbound, OnError, MqttFailed, CallApp, OnDisconnect, ErrorReturns
<1> QED
  BY <1>1, <1>2, <1>3, <1>4, <1>5, <1>6, <1>7 DEF Next, Running, DoWorkGoesOn

LEMMA ToldInvStep == ASSUME TypeInv, IdleInv, ToldInv, Next PROVE ToldInv'
<1>1. stack' = <<Fr("app", "error")>> \o stack => Failing(stack')
  <2>1. stack \in Seq(Proper) /\ Fr("app", "error") \in Proper
    BY PlainFrames DEF TypeInv, Plain
  <2>2. Fr("app", "error") \in Range(<<Fr("app", "error")>> \o stack)
    BY <2>1, Push
  <2> QED
    BY <2>2 DEF Failing, Fr
<1>2. ASSUME client' \in {"open", "destroying"}, mqttClientStatus' = "CONNECTED"
      PROVE  told' = "AUTHENTICATED" \/ Failing(stack')
  <2>1. CASE UNCHANGED <<told, mqttClientStatus>> /\ ~ErrorReturns
                /\ client \in {"open", "destroying"}
    BY <1>2, <2>1, FailingStep DEF ToldInv
  <2> QED
    BY <1>1, <1>2, <2>1, ToldStep
<1> QED
  BY <1>2, StatusStep DEF ToldInv, Failing

\* Whenever the client waits to be called with a session, the last status that
\* the application heard is "authenticated", however lost connections, expired
\* tokens and messages and the callbacks in which DoWork is called interleave.
THEOREM ConnectedIsToldAlways == Spec => []ConnectedIsTold
<1> DEFINE I == TypeInv /\ IdleInv /\ ToldInv
<1>1. Init => I
  BY TypeInitially DEF Init, IdleInv, ToldInv
<1>2. I /\ [Next]_vars => I'
  <2> SUFFICES ASSUME I, [Next]_vars PROVE I'
    OBVIOUS
  <2>1. CASE Next
    BY <2>1, TypeInvStep, IdleStep, ToldInvStep
  <2>2. CASE UNCHANGED vars
    BY <2>2, TypeInvStep DEF vars, connVars, IdleInv, ToldInv, Failing
  <2> QED
    BY <2>1, <2>2
<1>3. I => ConnectedIsTold
  <2>1. ~Failing(<<>>)
    BY DEF Failing, Range
  <2> QED
    BY <2>1 DEF ToldInv, ConnectedIsTold
<1> HIDE DEF I
<1> QED
  BY <1>1, <1>2, <1>3, PTL DEF Spec

-----------------------------------------------------------------------------
(* Nothing is sent before the session is there.                             *)

\* If callbacks do not call DoWork, application code is only at the top of the
\* stack, and DoWork begins on an empty one.
Inner(f) == f.pc \notin {"app", "update"}
Flat(s) == s # <<>> => /\ \A f \in Range(Tail(s)) : Inner(f)
                       /\ Head(s).pc = "update" => Tail(s) = <<>>

\* A connection that is being opened: its packet state lets DoWork neither
\* subscribe nor publish, and no DoWork from before is about to.  The session is
\* gone while the application hears that its token has expired.
OpeningInv ==
    /\ link = "opening" => /\ currPacketState \in {"CONNECT", "ERROR"}
                           /\ mqttClientStatus # "CONNECTED"
                           /\ \A f \in Range(stack) : ~Publishing(f)
    /\ stack # <<>> /\ Renewing(Top) => link = "none"

SessionInv == Flat(stack) /\ OpeningInv /\ SessionFirst

\* No callback runs on a stack without application code.
LEMMA NoNesting ==
    ASSUME TypeInv, Flat(stack), MaxNest = 0, DoWork
    PROVE  stack = <<>>
<1> DEFINE apps == {i \in DOMAIN stack : stack[i].pc = "app"}
<1>1. stack = <<>> \/ (stack # <<>> /\ Top.pc = "app")
  BY DEF DoWork, AppRuns, TopIn
<1>2. stack # <<>> /\ Top.pc = "app" => 1 \in apps
  BY DEF TypeInv, Top
<1>3. IsFiniteSet(apps)
  <2>1. apps \in SUBSET (1 .. Len(stack)) /\ Len(stack) \in Nat
    BY LenProperties DEF TypeInv
  <2>2. IsFiniteSet(1 .. Len(stack))
    BY <2>1, FS_Interval
  <2> HIDE DEF apps
  <2> QED
    BY <2>1, <2>2, FS_Subset
<1>4. Cardinality(apps) <= 0
  BY DEF DoWork, Callbacks
<1> HIDE DEF apps
<1>5. apps = {}
  BY <1>3, <1>4, FS_CardinalityType, FS_EmptySet
<1> QED
  BY <1>1, <1>2, <1>5

LEMMA FlatStep ==
    ASSUME TypeInv, Flat(stack), MaxNest = 0, Next
    PROVE  Flat(stack')
<1>0. stack \in Seq(Proper)
  BY DEF TypeInv
<1>1. stack # <<>> => /\ Tail(stack) \in Seq(Proper)
                      /\ \A f \in Range(Tail(stack)) : Inner(f)
                      /\ Range(stack) = {Top} \cup Range(Tail(stack))
  BY <1>0, Pop DEF Flat, Top
<1>2. ASSUME NEW f \in Proper, Called(f) PROVE Flat(stack')
  <2>1. Tail(stack') = stack /\ Head(stack') = f
    BY <1>0, <1>2, Push DEF Called
  <2>2. CASE stack = <<>>
    BY <2>1, <2>2 DEF Flat, Range
  <2>3. CASE stack # <<>>
    <3>1. Top.pc \in {"work", "closing"} /\ f.pc # "update"
      BY <1>2, <2>3, NoNesting DEF Called
    <3> QED
      BY <1>1, <2>1, <2>3, <3>1 DEF Flat, Inner
  <2> QED
    BY <2>2, <2>3
<1>3. ASSUME NEW f \in Proper, Replaced(f) PROVE Flat(stack')
  <2>1. Tail(stack') = Tail(stack) /\ Head(stack') = f
    BY <1>1, <1>3, Push DEF Replaced, Goto
  <2> QED
    BY <1>1, <1>3, <2>1 DEF Flat, Replaced
<1>4. ASSUME NEW f \in Proper, NEW g \in Proper, CalledFrom(f, g) PROVE Flat(stack')
  <2>1. Goto(f) \in Seq(Proper) /\ Range(Goto(f)) = {f} \cup Range(Tail(stack))
    BY <1>1, <1>4, Push DEF CalledFrom, Goto
  <2>2. Tail(stack') = Goto(f) /\ Head(stack') = g
    BY <1>4, <2>1, Push DEF CalledFrom
  <2> QED
    BY <1>1, <1>4, <2>1, <2>2 DEF Flat, CalledFrom, Inner
<1>5. CASE Returned
  <2>1. CASE Tail(stack) = <<>>
    BY <1>5, <2>1 DEF Flat, Returned
  <2>2. CASE Tail(stack) # <<>>
    <3> DEFINE t == Tail(stack)
    <3>1. t \in Seq(Proper) /\ t # <<>> /\ stack' = t /\ \A f \in Range(t) : Inner(f)
      BY <1>1, <1>5, <2>2 DEF Returned
    <3> HIDE DEF t
    <3>2. Range(t) = {Head(t)} \cup Range(Tail(t))
      BY <3>1, Pop
    <3> QED
      BY <3>1, <3>2 DEF Flat, Inner
  <2> QED
    BY <2>1, <2>2
<1>6. CASE stack' = <<>> \/ stack' = stack
  BY <1>6 DEF Flat
<1> QED
  BY <1>2, <1>3, <1>4, <1>5, <1>6, StackMoves DEF Stayed

\* Only UpdateMqttConnectionStateIfNeeded opens a connection.
LEMMA OpeningBegins ==
    ASSUME TypeInv, Next, link' = "opening", link # "opening"
    PROVE  /\ Updating("NOT_CONNECTED") /\ Proceed
           /\ currPacketState' = "CONNECT" /\ mqttClientStatus' = "CONNECTING"
<1> USE DEF Crash, wireVars
<1>1. CASE UpdateMqttConnectionStateIfNeeded
  BY <1>1 DEF UpdateMqttConnectionStateIfNeeded, UpdateNothing, RetryLater, Connect,
              SendMqttConnectMsg, DeferredDisconnect, Disconnected, DropLink,
              NestedDisconnect, SasExpires
<1>2. CASE ~UpdateMqttConnectionStateIfNeeded
  <2>1. CASE Create \/ Tick \/ Application
    BY <2>1 DEF Create, Tick, Application, SendEventAsync, SendReportedState, DoWork, Destroy,
                DestroyRest
  <2>2. CASE ProcessPendingTelemetryMessages
    BY <2>2 DEF ProcessPendingTelemetryMessages, PendingDone, PendingDangles, PendingWaits,
                PendingExpires, PendingExpiresNested, PendingResends, Disconnected, DropLink
  <2>3. CASE DoPendingClose \/ DoSubscribe \/ DoSuback \/ DoOtherState \/ DoPublishState
             \/ ProcessPublishStateDoWork \/ ExpireTwinRequests
    BY <2>3 DEF DoPendingClose, DropLink, DoSubscribe, DoSuback, DoOtherState, DoPublishState,
                ProcessPublishStateDoWork, ExpireTwinRequests
  <2>4. CASE ClientReturns \/ CallbackReturns
    BY <2>4 DEF ClientReturns, CallbackReturns, WorkReturns, ClosingReturns, DestroyReturns,
                DestroyRest, Disconnected, DropLink, AppReturns, RefusedReturns, ErrorReturns,
                MqttFailed, TwinReturns, SasReturns
  <2>5. CASE Events
    BY <2>5 DEF Events, OnConnack, OnConnackRefused, OnPublishAck, OnSubscribeAck,
                OnTwinResponse, OnInbound, OnError, MqttFailed, DropLink, OnDisconnect
  <2> QED
    BY <1>2, <2>1, <2>2, <2>3, <2>4, <2>5 DEF Next, Running, DoWorkGoesOn
<1> QED
  BY <1>1, <1>2

\* Until it is there or dropped, the packet state only changes to ERROR.
LEMMA OpeningLasts ==
    ASSUME TypeInv, OpeningInv, Next, link' = "opening", link = "opening"
    PROVE  currPacketState' \in {"CONNECT", "ERROR"} /\ mqttClientStatus' # "CONNECTED"
<1> USE DEF OpeningInv, TopIn, Renewing, Crash, wireVars, connVars,
            changeStateToSubscribeIfAllowed
<1>1. CASE Create \/ Tick \/ Application
  BY <1>1 DEF Create, Tick, Application, SendEventAsync, SendReportedState,
              Subscribe_DeviceTwin, DoWork, Destroy, DestroyRest
<1>2. CASE UpdateMqttConnectionStateIfNeeded
  BY <1>2 DEF UpdateMqttConnectionStateIfNeeded, UpdateNothing, RetryLater, Connect,
              SendMqttConnectMsg, DeferredDisconnect, Disconnected, DropLink,
              NestedDisconnect, SasExpires
<1>3. CASE ProcessPendingTelemetryMessages
  BY <1>3 DEF ProcessPendingTelemetryMessages, PendingDone, PendingDangles, PendingWaits,
              PendingExpires, PendingExpiresNested, PendingResends, Disconnected, DropLink
<1>4. CASE DoPendingClose \/ DoSubscribe \/ DoSuback \/ DoOtherState \/ DoPublishState
           \/ ProcessPublishStateDoWork \/ ExpireTwinRequests
  BY <1>4 DEF DoPendingClose, DropLink, DoSubscribe, DoSuback, DoOtherState, DoPublishState,
              StateWork, ProcessPublishStateDoWork, ExpireTwinRequests
<1>5. CASE ClientReturns \/ CallbackReturns
  BY <1>5 DEF ClientReturns, CallbackReturns, WorkReturns, ClosingReturns, DestroyReturns,
              DestroyRest, Disconnected, DropLink, AppReturns, RefusedReturns, Refused,
              ErrorReturns, MqttFailed, TwinReturns, NotifyNeeded, SasReturns
<1>6. CASE Events
  BY <1>6 DEF Events, OnConnack, OnConnackRefused, Refused, OnPublishAck, OnSubscribeAck,
              OnTwinResponse, OnInbound, OnError, MqttFailed, DropLink, OnDisconnect
<1> QED
  BY <1>1, <1>2, <1>3, <1>4, <1>5, <1>6 DEF Next, Running, DoWorkGoesOn

LEMMA OpeningStep ==
    ASSUME TypeInv, SessionInv, MaxNest = 0, Next
    PROVE  OpeningInv'
<1>0. stack \in Seq(Proper)
  BY DEF TypeInv
<1>1. stack # <<>> => /\ Top \in Proper
                      /\ Tail(stack) \in Seq(Proper)
                      /\ \A f \in Range(Tail(stack)) : Inner(f)
                      /\ Range(stack) = {Top} \cup Range(Tail(stack))
  BY <1>0, Pop DEF SessionInv, Flat, Top
<1>1a. \A f \in Proper : stack # <<>> =>
            Goto(f) \in Seq(Proper) /\ Range(Goto(f)) = {f} \cup Range(Tail(stack))
  BY <1>1, Push DEF Goto
<1>2. ASSUME link' = "opening"
      PROVE  /\ currPacketState' \in {"CONNECT", "ERROR"} /\ mqttClientStatus' # "CONNECTED"
             /\ \A f \in Range(stack') : ~Publishing(f)
  <2>1. CASE link # "opening"
    <3>1. /\ stack # <<>> /\ Top.pc = "update" /\ stack' = Goto(Fr("state", ""))
          /\ currPacketState' = "CONNECT" /\ mqttClientStatus' = "CONNECTING"
      BY <1>2, <2>1, OpeningBegins DEF Updating, TopIn, Proceed
    <3>2. Tail(stack) = <<>>
      BY <3>1 DEF SessionInv, Flat, Top
    <3>3. Range(stack') = {Fr("state", "")}
      <4>1. Range(Goto(Fr("state", ""))) = {Fr("state", "")} \cup Range(Tail(stack))
        BY <1>1a, <3>1, PlainFrames DEF Plain
      <4>2. Range(Tail(stack)) = {}
        BY <3>2 DEF Range
      <4> QED
        BY <3>1, <4>1, <4>2
    <3> QED
      BY <3>1, <3>3, PlainFrames DEF Plain
  <2>2. CASE link = "opening"
    <3>1. /\ \A f \in Range(stack) : ~Publishing(f)
          /\ currPacketState # "PUBLISH"
      BY <2>2 DEF SessionInv, OpeningInv
    <3>1a. stack # <<>> => ~Publishing(Top) /\ \A f \in Range(Tail(stack)) : ~Publishing(f)
      BY <1>1, <3>1
    <3>2. ASSUME NEW f \in Proper, Called(f) PROVE \A g \in Range(stack') : ~Publishing(g)
      BY <1>0, <3>1, <3>2, Push DEF Called
    <3>3. ASSUME NEW f \in Proper, Replaced(f) PROVE \A g \in Range(stack') : ~Publishing(g)
      BY <1>1a, <3>1, <3>1a, <3>3 DEF Replaced
    <3>4. ASSUME NEW f \in Proper, NEW g \in Proper, CalledFrom(f, g)
          PROVE  \A h \in Range(stack') : ~Publishing(h)
      <4>1. Goto(f) \in Seq(Proper) /\ \A h \in Range(Goto(f)) : ~Publishing(h)
        BY <1>1a, <3>1a, <3>4 DEF CalledFrom
      <4> QED
        BY <3>4, <4>1, Push DEF CalledFrom
    <3>5. ASSUME Returned \/ Stayed \/ stack' = <<>>
          PROVE  \A f \in Range(stack') : ~Publishing(f)
      <4>1. Range(<<>>) = {}
        BY DEF Range
      <4> QED
        BY <1>1, <3>1, <3>1a, <3>5, <4>1 DEF Returned, Stayed
    <3>6. \A f \in Range(stack') : ~Publishing(f)
      BY <3>2, <3>3, <3>4, <3>5, StackMoves
    <3> QED
      BY <1>2, <2>2, <3>6, OpeningLasts DEF SessionInv
  <2> QED
    BY <2>1, <2>2
<1>3. ASSUME stack' # <<>>, Renewing(Head(stack')) PROVE link' = "none"
  <2>1. ASSUME NEW f \in Proper, Called(f) PROVE link' = "none"
    BY <1>0, <1>3, <2>1, Push DEF Called
  <2>2. ASSUME NEW f \in Proper, Replaced(f) PROVE link' = "none"
    BY <1>1, <1>3, <2>2, Push DEF Replaced, Goto
  <2>3. ASSUME NEW f \in Proper, NEW g \in Proper, CalledFrom(f, g) PROVE link' = "none"
    <3>1. Goto(f) \in Seq(Proper)
      BY <1>1, <2>3, Push DEF CalledFrom, Goto
    <3> QED
      BY <1>3, <2>3, <3>1, Push DEF CalledFrom
  <2>4. CASE Returned
    <3> DEFINE t == Tail(stack)
    <3>1. t \in Seq(Proper) /\ t # <<>> /\ stack' = t /\ \A f \in Range(t) : Inner(f)
      BY <1>1, <1>3, <2>4 DEF Returned
    <3> HIDE DEF t
    <3>2. Inner(Head(t))
      BY <3>1, Pop
    <3> QED
      BY <1>3, <3>1, <3>2 DEF Inner, Renewing
  <2>5. CASE Stayed
    BY <1>3, <2>5 DEF Stayed, Renewing, Top, SessionInv, OpeningInv
  <2> QED
    BY <1>3, <2>1, <2>2, <2>3, <2>4, <2>5, StackMoves
<1> QED
  BY <1>2, <1>3 DEF OpeningInv, Top, Range

LEMMA SessionFirstStep ==
    ASSUME TypeInv, SessionInv, Next
    PROVE  SessionFirst'
<1>0. /\ link \in {"none", "opening", "open"}
      /\ suback # <<>> \/ puback # {} => link = "open"
      /\ link = "opening" => /\ currPacketState \in {"CONNECT", "ERROR"}
                             /\ stack # <<>> => Top.pc # "publish"
  <2>1. stack # <<>> => Top \in Range(stack)
    BY Pop DEF TypeInv, Top
  <2> QED
    BY <2>1 DEF SessionInv, SessionFirst, OpeningInv, TypeInv, TypeOK, Publishing
<1> USE DEF SessionFirst, TopIn, Crash, wireVars
<1>1. CASE Create \/ Tick \/ Application
  BY <1>0, <1>1 DEF Create, Tick, Application, SendEventAsync, SendReportedState, DoWork,
              Destroy, DestroyRest
<1>2. CASE UpdateMqttConnectionStateIfNeeded
  BY <1>0, <1>2 DEF UpdateMqttConnectionStateIfNeeded, UpdateNothing, RetryLater, Connect,
              SendMqttConnectMsg, DeferredDisconnect, Disconnected, DropLink,
              NestedDisconnect, SasExpires
<1>3. CASE ProcessPendingTelemetryMessages
  BY <1>0, <1>3 DEF ProcessPendingTelemetryMessages, PendingDone, PendingDangles, PendingWaits,
              PendingExpires, PendingExpiresNested, PendingResends, Disconnected, DropLink
<1>4. CASE DoPendingClose \/ DoSubscribe \/ DoSuback \/ DoOtherState \/ DoPublishState
           \/ ExpireTwinRequests
  BY <1>0, <1>4 DEF DoPendingClose, DropLink, DoSubscribe, SubscribeToMqttProtocol, DoSuback,
              DoOtherState, DoPublishState, StateWork, ExpireTwinRequests
<1>5. CASE ProcessPublishStateDoWork
  <2>1. /\ UNCHANGED <<link, suback>>
        /\ \E sent : (link = "none" => sent = <<>>) /\ puback' = puback \cup Range(sent)
    BY <1>5 DEF ProcessPublishStateDoWork
  <2>2. Range(<<>>) = {}
    BY DEF Range
  <2>3. link # "opening"
    BY <1>0, <1>5 DEF ProcessPublishStateDoWork
  <2> QED
    BY <1>0, <2>1, <2>2, <2>3
<1>6. CASE ClientReturns \/ CallbackReturns
  BY <1>0, <1>6 DEF ClientReturns, CallbackReturns, WorkReturns, ClosingReturns, DestroyReturns,
              DestroyRest, Disconnected, DropLink, AppReturns, RefusedReturns,
              ErrorReturns, MqttFailed, TwinReturns, SasReturns
<1>7. CASE Events
  BY <1>0, <1>7 DEF Events, OnConnack, OnConnackRefused, OnPublishAck, OnSubscribeAck,
              OnTwinResponse, OnInbound, OnError, MqttFailed, DropLink, OnDisconnect
<1> QED
  BY <1>1, <1>2, <1>3, <1>4, <1>5, <1>6, <1>7 DEF Next, Running, DoWorkGoesOn

\* If callbacks do not call DoWork, nothing is subscribed to or published before
\* the hub has accepted the connection, for any topics, messages and limits.
THEOREM SessionFirstAlways == ASSUME MaxNest = 0 PROVE Spec => []SessionFirst
<1> DEFINE I == TypeInv /\ SessionInv
<1>1. Init => I
  BY TypeInitially DEF Init, SessionInv, Flat, OpeningInv, SessionFirst
<1>2. I /\ [Next]_vars => I'
  <2> SUFFICES ASSUME I, [Next]_vars PROVE I'
    OBVIOUS
  <2>1. CASE Next
    BY <2>1, TypeInvStep, FlatStep, OpeningStep, SessionFirstStep DEF SessionInv, Flat
  <2>2. CASE UNCHANGED vars
    BY <2>2, TypeInvStep
       DEF vars, connVars, wireVars, SessionInv, Flat, OpeningInv, SessionFirst, Top
  <2> QED
    BY <2>1, <2>2
<1>3. I => SessionFirst
  BY DEF SessionInv
<1> HIDE DEF I
<1> QED
  BY <1>1, <1>2, <1>3, PTL DEF Spec

\* The composition runs the hub client as it is: what is proved of it holds there.
THEOREM HubClientComposed == DSpec => Spec
<1>1. DInit => Init
  BY DEF DInit
<1>2. [DNext]_allVars => [Next]_vars
  BY DEF DNext, Provision, GiveUpProvisioning, ProvisionIotClient, Next, allVars
<1> QED
  BY <1>1, <1>2, PTL DEF DSpec, Spec

-----------------------------------------------------------------------------
(* The provisioning client.                                                 *)

\* The transport's state says what the client has asked for: a request is under
\* way only on a subscribed connection, and no layer starts another one.
RequestInv ==
    /\ OneRequest
    /\ request # "none" => mqtt_state = "SUBSCRIBED"
    /\ transport_state \in {"REG_SEND", "REG_SENT"} => prov_state = "REGISTER_SENT"
    /\ transport_state \in {"STATUS_SEND", "STATUS_SENT"} => prov_state = "STATUS_SENT"
    /\ mqtt_state = "ERROR" => transport_state = "ERROR"

\* Where DoWork can be: in the callbacks of a connection that is not subscribed
\* to yet there is nothing to answer.
PlaceInv ==
    /\ ~prov_handle => at = "app"
    /\ at = "connected" => request = "none" /\ mqtt_state \in {"CONNECTED", "ERROR"}

\* Once it has answered the client is at rest; before, an error has a reason.
AnswerInv ==
    /\ AnswerIsSound
    /\ answers # <<>> => prov_state = "READY" /\ mqtt_state = "IDLE" /\ ~prov_link
    /\ prov_state = "ERROR" => error_reason = "error"

ProvInv == RequestInv /\ PlaceInv /\ AnswerInv

LEMMA ProvInitially == ASSUME DInit PROVE ProvInv
  BY DEF DInit, P!Init, ProvInv, RequestInv, PlaceInv, AnswerInv, OneRequest, AnswerIsSound,
         P!OneRequest, P!AnswerIsSound

\* The first answer of a registration, with its hub if it is OK.
LEMMA FirstAnswer ==
    ASSUME NEW result \in {"OK", "error"}, NEW hub \in BOOLEAN, result = "OK" <=> hub,
           answers = <<>>, P!Answer(result, hub)
    PROVE  AnswerIsSound'
<1>1. answers' = <<[result |-> result, hub |-> hub]>>
  BY DEF P!Answer
<1>2. [result |-> result, hub |-> hub] \in [result : {"OK", "error"}, hub : BOOLEAN]
  OBVIOUS
<1> QED
  BY <1>1, <1>2 DEF AnswerIsSound, P!AnswerIsSound

\* Every step of the provisioning client keeps the invariant.
LEMMA ProvRunning == ASSUME ProvInv, P!Running PROVE ProvInv'
<1> USE DEF ProvInv, RequestInv, PlaceInv, AnswerInv
<1> USE DEF OneRequest, P!OneRequest
<1>0. answers' = answers => AnswerIsSound'
  BY DEF AnswerIsSound, P!AnswerIsSound
<1>1. CASE P!DoWork
  BY <1>1, <1>0 DEF P!DoWork, P!Older, P!transportVars
<1>2. CASE P!create_connection
  BY <1>2, <1>0 DEF P!create_connection, P!Older, P!Failed
<1>3. CASE P!subscribe_to_topic
  BY <1>3, <1>0 DEF P!subscribe_to_topic, P!Failed
<1>4. CASE P!WorkIdle
  BY <1>4, <1>0 DEF P!WorkIdle, P!clientVars, P!transportVars
<1>5. CASE P!SendMessage
  BY <1>5, <1>0 DEF P!SendMessage, P!Working, P!Failed, P!clientVars
<1>6. CASE P!OnAssigning
  BY <1>6, <1>0 DEF P!OnAssigning, P!Working, P!Failed
<1>7. CASE P!OnAssigned
  <2>1. answers = <<>> /\ P!Answer("OK", TRUE)
    BY <1>7 DEF P!OnAssigned, P!Working
  <2>2. AnswerIsSound'
    BY <2>1, FirstAnswer
  <2> QED
    BY <1>7, <2>2 DEF P!OnAssigned, P!Working, P!Cleanup
<1>8. CASE P!OnRejected
  BY <1>8, <1>0 DEF P!OnRejected, P!Working, P!Failed
<1>9. CASE P!WorkTransient
  BY <1>9, <1>0 DEF P!WorkTransient, P!Working, P!Retried
<1>10. CASE P!WorkError
  BY <1>10, <1>0 DEF P!WorkError, P!Working, P!Reason
<1>11. CASE P!ClientIdle
  BY <1>11, <1>0 DEF P!ClientIdle, P!clientVars, P!transportVars
<1>12. CASE P!SendRegister
  BY <1>12, <1>0 DEF P!SendRegister, P!Asked
<1>13. CASE P!SendStatus
  BY <1>13, <1>0 DEF P!SendStatus, P!Asked
<1>14. CASE P!ReportError
  <2>1. answers = <<>> /\ P!Answer("error", FALSE)
    BY <1>14 DEF P!ReportError
  <2>2. AnswerIsSound'
    BY <2>1, FirstAnswer
  <2> QED
    BY <1>14, <2>2 DEF P!ReportError, P!Cleanup
<1>15. CASE P!OnConnack
  BY <1>15, <1>0 DEF P!OnConnack, P!Hears, P!Failed
<1>16. CASE P!OnSubscribeAck
  BY <1>16, <1>0 DEF P!OnSubscribeAck, P!Hears, P!Failed, P!clientVars
<1>17. ASSUME NEW reply, P!mqtt_notification_callback(reply) PROVE ProvInv'
  BY <1>17, <1>0 DEF P!mqtt_notification_callback, P!Hears, P!Failed, P!clientVars
<1>18. CASE P!OnTransient
  BY <1>18, <1>0 DEF P!OnTransient, P!Hears, P!clientVars
<1>19. CASE P!mqtt_error_callback
  BY <1>19, <1>0 DEF P!mqtt_error_callback, P!Hears, P!Failed, P!clientVars
<1> QED
  BY <1>1, <1>2, <1>3, <1>4, <1>5, <1>6, <1>7, <1>8, <1>9, <1>10, <1>11, <1>12, <1>13, <1>14,
     <1>15, <1>16, <1>17, <1>18, <1>19
     DEF P!Running, P!Polls, P!DoWorkGoesOn, P!Events

\* So does every step of the two clients together.
LEMMA ProvStep == ASSUME ProvInv, [DNext]_allVars PROVE ProvInv'
<1> USE DEF ProvInv, RequestInv, PlaceInv, AnswerInv
<1> USE DEF OneRequest, P!OneRequest, AnswerIsSound, P!AnswerIsSound
<1>1. CASE P!Register
  BY <1>1 DEF P!Register, P!Created
<1>2. CASE P!Destroy
  BY <1>2 DEF P!Destroy, P!Cleanup
<1>3. CASE P!Running
  BY <1>3, ProvRunning
<1>4. CASE UNCHANGED provVars
  BY <1>4 DEF provVars
<1> QED
  BY <1>1, <1>2, <1>3, <1>4 DEF DNext, Provision, GiveUpProvisioning, ProvisionIotClient, allVars

LEMMA ProvCorrect == DSpec => []ProvInv
<1>1. DInit => ProvInv
  BY ProvInitially
<1>2. ProvInv /\ [DNext]_allVars => ProvInv'
  BY ProvStep
<1> QED
  BY <1>1, <1>2, PTL DEF DSpec

\* mqtt_notification_callback takes a reply for the one to the transport's last
\* request without comparing ids.  It is: on one registration after another, with
\* any retry times, no second request is sent before the first one is answered.
THEOREM OneRequestAlways == DSpec => []OneRequest
<1>1. ProvInv => OneRequest
  BY DEF ProvInv, RequestInv
<1> QED
  BY <1>1, ProvCorrect, PTL

\* RegisterProvisioningDeviceCallback is called at most once for a registration,
\* with OK exactly if there is a hub, whatever the service and the network do.
THEOREM AnswerIsSoundAlways == DSpec => []AnswerIsSound
<1>1. ProvInv => AnswerIsSound
  BY DEF ProvInv, AnswerInv
<1> QED
  BY <1>1, ProvCorrect, PTL
=============================================================================
