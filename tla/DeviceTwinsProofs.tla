------------------------- MODULE DeviceTwinsProofs -------------------------
(***************************************************************************)
(* What dx_device_twins.c promises of the values of its bindings, for any  *)
(* bindings and any nesting of updates in handlers: their memory, and that *)
(* no older value comes back.                                              *)
(***************************************************************************)
EXTENDS DeviceTwins, SequenceTheorems, TLAPS

-----------------------------------------------------------------------------
(* Types.                                                                   *)

\* A handler runs for a binding of the array.
Proper == {u \in Update : u.pc # "loop" => u.todo > 0}

TypeInv ==
    /\ propertyValue \in [Twins -> (0 .. MaxVersion) \cup {Own, NULL}]
    /\ stack \in Seq(Proper)
    /\ hubVersion \in 0 .. MaxVersion
    /\ latest \in [Twins -> 0 .. MaxVersion]
    /\ wrong \subseteq Twins

\* The moves of the stack: an update arrives, the innermost one goes on or ends.
Arrives(u) == /\ stack' = <<u>> \o stack
              /\ u \in Proper /\ u.pc = "loop" /\ u.todo = Len(deviceTwins)
Ends       == Looping /\ Top.todo = 0 /\ stack' = Tail(stack)

LEMMA Pushed ==
    ASSUME NEW S, NEW s \in Seq(S), NEW u \in S
    PROVE  /\ <<u>> \o s \in Seq(S) /\ Len(<<u>> \o s) = Len(s) + 1
           /\ (<<u>> \o s)[1] = u
           /\ \A k \in DOMAIN s : k + 1 \in DOMAIN (<<u>> \o s) /\ (<<u>> \o s)[k + 1] = s[k]
           /\ \A k \in DOMAIN (<<u>> \o s) :
                k = 1 \/ (k - 1 \in DOMAIN s /\ (<<u>> \o s)[k] = s[k - 1])
  OBVIOUS

LEMMA Replaced ==
    ASSUME NEW S, NEW s \in Seq(S), s # <<>>, NEW u \in S
    PROVE  /\ [s EXCEPT ![1] = u] \in Seq(S)
           /\ DOMAIN [s EXCEPT ![1] = u] = DOMAIN s /\ 1 \in DOMAIN s
           /\ [s EXCEPT ![1] = u] # <<>> /\ Len([s EXCEPT ![1] = u]) = Len(s)
           /\ [s EXCEPT ![1] = u][1] = u
           /\ \A k \in DOMAIN s : k # 1 => [s EXCEPT ![1] = u][k] = s[k]
  OBVIOUS

LEMMA Popped ==
    ASSUME NEW S, NEW s \in Seq(S), s # <<>>
    PROVE  /\ Tail(s) \in Seq(S) /\ s[1] \in S /\ 1 \in DOMAIN s
           /\ \A k \in DOMAIN s : k = 1 \/ (k - 1 \in DOMAIN Tail(s) /\ Tail(s)[k - 1] = s[k])
           /\ \A k \in DOMAIN Tail(s) : k + 1 \in DOMAIN s /\ Tail(s)[k] = s[k + 1]
  OBVIOUS

LEMMA TopType ==
    ASSUME TypeInv, Busy
    PROVE  /\ Top \in Proper /\ Top \in Update
           /\ Top.version \in 1 .. MaxVersion
           /\ Top.value \in [Twins -> 0 .. MaxVersion]
           /\ Top.todo \in 0 .. Len(deviceTwins)
           /\ Top.todo > 0 => Current \in Twins
           /\ Len(deviceTwins) \in Nat
<1>1. Top \in Proper
  BY Popped DEF TypeInv, Busy, Top
<1>2. /\ Top \in Update /\ Top.version \in 1 .. MaxVersion
      /\ Top.value \in [Twins -> 0 .. MaxVersion]
      /\ Top.todo \in 0 .. Len(deviceTwins)
  BY <1>1 DEF Proper, Update
<1>3. deviceTwins \in Seq(Twins) /\ Len(deviceTwins) \in Nat
        /\ DOMAIN deviceTwins = 1 .. Len(deviceTwins)
  BY TwinsAssumption
<1>4. Top.todo > 0 => Len(deviceTwins) - Top.todo + 1 \in DOMAIN deviceTwins
  BY <1>2, <1>3
<1> QED
  BY <1>1, <1>2, <1>3, <1>4 DEF Current, Twins

\* The updates that arrive: a patch and a whole twin.
LEMMA PatchType ==
    ASSUME TypeInv, NEW good \in SUBSET Twins, NEW bad \in SUBSET Twins, ReceivePatch(good, bad)
    PROVE  \E u \in Proper :
             /\ Arrives(u)
             /\ u.value = [t \in Twins |-> IF t \in good THEN hubVersion + 1 ELSE 0]
<1> DEFINE u == [version |-> hubVersion + 1,
                 value |-> [t \in Twins |-> IF t \in good THEN hubVersion + 1 ELSE 0],
                 bad |-> bad, todo |-> Len(deviceTwins), pc |-> "loop"]
<1>1. stack' = <<u>> \o stack
  BY DEF ReceivePatch, DeviceTwinCallbackHandler, BindingsToLookAt
<1>2. hubVersion + 1 \in 1 .. MaxVersion /\ 0 \in 0 .. MaxVersion
      /\ hubVersion + 1 \in 0 .. MaxVersion
  BY TwinsAssumption DEF ReceivePatch, HubSets, TypeInv
<1>3. Len(deviceTwins) \in 0 .. Len(deviceTwins)
  BY TwinsAssumption
<1>4. u \in Proper
  BY <1>2, <1>3 DEF Proper, Update
<1> QED
  BY <1>1, <1>4 DEF Arrives

LEMMA TwinType ==
    ASSUME TypeInv, ReceiveTwin
    PROVE  \E u \in Proper :
             /\ Arrives(u)
             /\ u.value = [t \in Twins |-> IF t \in wrong THEN 0 ELSE latest[t]]
<1> DEFINE u == [version |-> hubVersion,
                 value |-> [t \in Twins |-> IF t \in wrong THEN 0 ELSE latest[t]],
                 bad |-> wrong, todo |-> Len(deviceTwins), pc |-> "loop"]
<1>1. stack' = <<u>> \o stack
  BY DEF ReceiveTwin, DeviceTwinCallbackHandler, BindingsToLookAt
<1>2. hubVersion \in 1 .. MaxVersion /\ 0 \in 0 .. MaxVersion
  BY TwinsAssumption DEF ReceiveTwin, TypeInv
<1>3. Len(deviceTwins) \in 0 .. Len(deviceTwins)
  BY TwinsAssumption
<1>4. u \in Proper
  BY <1>2, <1>3 DEF Proper, Update, TypeInv
<1> QED
  BY <1>1, <1>4 DEF Arrives

\* The innermost update gets on: to or from application code, or to the next binding.
LEMMA Progress ==
    ASSUME TypeInv, Busy
    PROVE  /\ \A p \in {"handler", "work"} :
                Top.todo > 0 => /\ [Top EXCEPT !.pc = p] \in Proper
                                /\ [Top EXCEPT !.pc = p].value = Top.value
                                /\ [Top EXCEPT !.pc = p].todo = Top.todo
                                /\ [Top EXCEPT !.pc = p].pc = p
           /\ Top.todo > 0 =>
                /\ [Top EXCEPT !.pc = "loop", !.todo = @ - 1] \in Proper
                /\ [Top EXCEPT !.pc = "loop", !.todo = @ - 1].value = Top.value
                /\ [Top EXCEPT !.pc = "loop", !.todo = @ - 1].todo = Top.todo - 1
                /\ [Top EXCEPT !.pc = "loop", !.todo = @ - 1].pc = "loop"
<1>0. Top \in Proper /\ Len(deviceTwins) \in Nat
  BY TopType
<1> DEFINE next == [Top EXCEPT !.pc = "loop", !.todo = @ - 1]
<1>1. ASSUME NEW p \in {"handler", "work"}, Top.todo > 0
      PROVE  /\ [Top EXCEPT !.pc = p] \in Proper
             /\ [Top EXCEPT !.pc = p].value = Top.value
             /\ [Top EXCEPT !.pc = p].todo = Top.todo
             /\ [Top EXCEPT !.pc = p].pc = p
  BY <1>0, <1>1 DEF Proper, Update
<1>2. ASSUME Top.todo > 0
      PROVE  /\ next \in Proper /\ next.value = Top.value
             /\ next.todo = Top.todo - 1 /\ next.pc = "loop"
  <2>1. Top.todo - 1 \in 0 .. Len(deviceTwins)
    BY <1>0, <1>2 DEF Proper, Update
  <2>2. next.value = Top.value /\ next.todo = Top.todo - 1 /\ next.pc = "loop"
    BY <1>0 DEF Proper, Update
  <2>3. next \in Update
    BY <1>0, <2>1 DEF Proper, Update
  <2> HIDE DEF next
  <2> QED
    BY <2>2, <2>3 DEF Proper
<1> QED
  BY <1>1, <1>2

\* SetDesiredState, a report in a handler, and its return.
ToHandler == \E p \in {"handler", "work"} :
                /\ Busy /\ Top.todo > 0
                /\ stack' = [stack EXCEPT ![1] = [Top EXCEPT !.pc = p]]
\* The next binding.
ToNext    == /\ Busy /\ Top.todo > 0
             /\ stack' = [stack EXCEPT ![1] = [Top EXCEPT !.pc = "loop", !.todo = @ - 1]]

Arrival == ReceiveTwin \/ \E good, bad \in SUBSET Twins : ReceivePatch(good, bad)

LEMMA Moves ==
    ASSUME TypeInv, Next
    PROVE  \/ stack' = stack
           \/ Arrival /\ \E u \in Proper : Arrives(u)
           \/ ToHandler /\ (Top.pc # "loop" \/ SetDesiredState)
           \/ ToNext /\ (IF Top.pc = "loop" THEN ~Stores(Current) ELSE HandlerReturns)
           \/ Ends
<1>0. Busy => stack \in Seq(Proper) /\ 1 \in DOMAIN stack /\ Top \in Proper /\ Top = stack[1]
  BY Popped, TopType DEF TypeInv, Busy, Top
<1>1. CASE dx_deviceTwinSubscribe \/ dx_deviceTwinUnsubscribe \/ ReportsBeforeSubscribe
  BY <1>1 DEF dx_deviceTwinSubscribe, dx_deviceTwinUnsubscribe, ReportsBeforeSubscribe
<1>2. ASSUME NEW good \in SUBSET Twins, NEW bad \in SUBSET Twins,
             HubMissed(good, bad) \/ ReceivePatch(good, bad)
      PROVE  stack' = stack \/ (Arrival /\ \E u \in Proper : Arrives(u))
  BY <1>2, PatchType DEF HubMissed, Arrival
<1>3. CASE ReceiveTwin
  BY <1>3, TwinType DEF Arrival
<1>4. CASE SetDesiredState \/ DoWorkReturns
  <2>1. Busy /\ Top.todo > 0
    BY <1>0, <1>4 DEF SetDesiredState, Looping, DoWorkReturns, Proper
  <2>2. stack' = [stack EXCEPT ![1].pc = "handler"]
    BY <1>4 DEF SetDesiredState, DoWorkReturns, SetPc
  <2>3. stack' = [stack EXCEPT ![1] = [Top EXCEPT !.pc = "handler"]]
    BY <1>0, <2>1, <2>2
  <2> QED
    BY <1>4, <2>1, <2>3 DEF ToHandler, DoWorkReturns
<1>5. CASE SetVersionOnly \/ SkipProperty
  <2>1. /\ Busy /\ Top.todo > 0 /\ Top.pc = "loop"
        /\ stack' = [stack EXCEPT ![1].todo = @ - 1]
    BY <1>5 DEF SetVersionOnly, SkipProperty, Looping
  <2>2. stack' = [stack EXCEPT ![1] = [Top EXCEPT !.todo = @ - 1]]
    BY <1>0, <2>1
  <2>3. [Top EXCEPT !.todo = @ - 1] = [Top EXCEPT !.pc = "loop", !.todo = @ - 1]
    BY <1>0, <2>1 DEF Proper, Update
  <2>4. ~Stores(Current)
    BY <1>5 DEF SetVersionOnly, SkipProperty, Stores
  <2> QED
    BY <2>1, <2>2, <2>3, <2>4 DEF ToNext
<1>6. CASE HandlerReturns
  <2>1. /\ Busy /\ Top.todo > 0
        /\ stack' = [stack EXCEPT ![1].pc = "loop", ![1].todo = @ - 1]
    BY <1>0, <1>6 DEF HandlerReturns, InHandler, Proper
  <2>2. stack' = [stack EXCEPT ![1] = [Top EXCEPT !.pc = "loop", !.todo = @ - 1]]
    BY <1>0, <2>1 DEF Proper, Update
  <2> QED
    BY <1>6, <2>1, <2>2 DEF ToNext, HandlerReturns, InHandler
<1>7. CASE CallbackReturns
  BY <1>7 DEF CallbackReturns, Ends
<1>8. ASSUME NEW t \in Twins, NEW v, dx_deviceTwinAckDesiredValue(t, v)
      PROVE  stack' = stack
  BY <1>8 DEF dx_deviceTwinAckDesiredValue
<1>9. ASSUME NEW t \in Twins, NEW v, dx_deviceTwinReportValue(t, v)
      PROVE  stack' = stack \/ (ToHandler /\ Top.pc # "loop")
  <2>1. CASE Busy
    <3>1. Top.todo > 0 /\ Top.pc # "loop" /\ stack' = [stack EXCEPT ![1].pc = "work"]
      BY <1>0, <1>9, <2>1 DEF dx_deviceTwinReportValue, Calls, InHandler, Proper, SetPc
    <3>2. stack' = [stack EXCEPT ![1] = [Top EXCEPT !.pc = "work"]]
      BY <1>0, <2>1, <3>1
    <3> QED
      BY <2>1, <3>1, <3>2 DEF ToHandler
  <2> QED
    BY <1>9, <2>1 DEF dx_deviceTwinReportValue
<1> QED
  BY <1>1, <1>2, <1>3, <1>4, <1>5, <1>6, <1>7, <1>8, <1>9 DEF Next

\* What the actions do to the value of a binding: storage is made or freed, an
\* update stores, a borrowed value is dropped, a report sets a scalar.
Scalar(t) == twinType[t] = "scalar"
Opens     == propertyValue' = [t \in Twins |-> Opened(t, propertyValue[t])] /\ touched' = Twins
Closes    == propertyValue' = [t \in Twins |-> NULL] /\ touched' = Twins
Puts      == /\ Busy /\ Top.todo > 0 /\ Current \in Twins /\ Top.value[Current] > 0
             /\ propertyValue' = [propertyValue EXCEPT ![Current] = Top.value[Current]]
             /\ touched' = touched \ {Current}
Drops     == /\ InHandler /\ Top.todo > 0 /\ Current \in Twins
             /\ propertyValue' = Released(Current) /\ touched' = touched
Reports   == \E t \in Twins : \E v \in Values(t) :
                /\ propertyValue' = [propertyValue EXCEPT ![t] = IF Scalar(t) THEN v ELSE NULL]
                /\ touched' = IF v = propertyValue[t] THEN touched ELSE touched \cup {t}

LEMMA ValueMoves ==
    ASSUME TypeInv, Next
    PROVE  \/ dx_deviceTwinSubscribe /\ Opens
           \/ dx_deviceTwinUnsubscribe /\ Closes
           \/ SetDesiredState /\ Puts
           \/ HandlerReturns /\ Drops
           \/ UNCHANGED <<subscribed, hub>> /\ Reports
                /\ (stack' = stack \/ (ToHandler /\ Top.pc # "loop"))
           \/ UNCHANGED <<subscribed, propertyValue, touched>>
<1>1. CASE dx_deviceTwinSubscribe \/ dx_deviceTwinUnsubscribe
  BY <1>1 DEF dx_deviceTwinSubscribe, dx_deviceTwinUnsubscribe, Opens, Closes
<1>2. CASE SetDesiredState
  BY <1>2, TopType DEF SetDesiredState, Looping, Stores, Puts
<1>3. CASE HandlerReturns
  <2>1. Busy /\ Top.todo > 0
    BY <1>3, TopType DEF HandlerReturns, InHandler, Proper
  <2> QED
    BY <1>3, <2>1, TopType DEF HandlerReturns, Drops
<1>4. ASSUME NEW t \in Twins, NEW v \in Values(t),
             dx_deviceTwinAckDesiredValue(t, v) \/ dx_deviceTwinReportValue(t, v)
      PROVE  /\ UNCHANGED <<subscribed, hub>>
             /\ Reports \/ UNCHANGED <<propertyValue, touched>>
             /\ stack' = stack \/ (ToHandler /\ Top.pc # "loop")
  <2>1. Reports \/ UNCHANGED <<propertyValue, touched>>
    BY <1>4 DEF dx_deviceTwinAckDesiredValue, dx_deviceTwinReportValue, deviceTwinReportState,
                Reports, Scalar
  <2>2. stack' = stack \/ (ToHandler /\ Top.pc # "loop")
    <3>1. Busy => stack \in Seq(Proper) /\ 1 \in DOMAIN stack /\ Top \in Proper /\ Top = stack[1]
      BY Popped, TopType DEF TypeInv, Busy, Top
    <3>2. CASE Busy /\ dx_deviceTwinReportValue(t, v)
      <4>1. Top.todo > 0 /\ Top.pc # "loop" /\ stack' = [stack EXCEPT ![1].pc = "work"]
        BY <3>1, <3>2 DEF dx_deviceTwinReportValue, Calls, InHandler, Proper, SetPc
      <4>2. stack' = [stack EXCEPT ![1] = [Top EXCEPT !.pc = "work"]]
        BY <3>1, <3>2, <4>1
      <4> QED
        BY <3>2, <4>1, <4>2 DEF ToHandler
    <3> QED
      BY <1>4, <3>2 DEF dx_deviceTwinAckDesiredValue, dx_deviceTwinReportValue
  <2> QED
    BY <1>4, <2>1, <2>2 DEF dx_deviceTwinAckDesiredValue, dx_deviceTwinReportValue
<1>5. ASSUME NEW good \in SUBSET Twins, NEW bad \in SUBSET Twins,
             HubMissed(good, bad) \/ ReceivePatch(good, bad)
      PROVE  UNCHANGED <<subscribed, propertyValue, touched>>
  BY <1>5 DEF HubMissed, ReceivePatch, DeviceTwinCallbackHandler
<1>6. CASE \/ ReceiveTwin \/ SetVersionOnly \/ SkipProperty \/ CallbackReturns
           \/ DoWorkReturns \/ ReportsBeforeSubscribe
  BY <1>6 DEF ReceiveTwin, DeviceTwinCallbackHandler, SetVersionOnly, SkipProperty,
              CallbackReturns, DoWorkReturns, ReportsBeforeSubscribe
<1> QED
  BY <1>1, <1>2, <1>3, <1>4, <1>5, <1>6 DEF Next

\* The hub moves on by one version, or not at all.
LEMMA HubMoves ==
    ASSUME Next
    PROVE  \/ UNCHANGED hub
           \/ ReceiveTwin
           \/ \E good, bad \in SUBSET Twins :
                HubSets(good, bad) /\ (HubMissed(good, bad) \/ ReceivePatch(good, bad))
  BY DEF Next, HubMissed, ReceivePatch, dx_deviceTwinSubscribe, dx_deviceTwinUnsubscribe,
         SetDesiredState, SetVersionOnly, SkipProperty, HandlerReturns, CallbackReturns,
         dx_deviceTwinAckDesiredValue, dx_deviceTwinReportValue, ReportsBeforeSubscribe,
         DoWorkReturns

LEMMA ValueType ==
    ASSUME TypeInv, Next
    PROVE  propertyValue' \in [Twins -> (0 .. MaxVersion) \cup {Own, NULL}]
<1> USE DEF TypeInv
<1>1. CASE Opens
  BY <1>1, TwinsAssumption DEF Opens, Opened
<1>2. CASE Closes
  BY <1>2 DEF Closes
<1>3. CASE Puts
  BY <1>3, TopType DEF Puts
<1>4. CASE Drops
  BY <1>4 DEF Drops, Released
<1>5. CASE Reports
  BY <1>5 DEF Reports, Values
<1> QED
  BY <1>1, <1>2, <1>3, <1>4, <1>5, ValueMoves

LEMMA TypeStep == ASSUME TypeInv, [Next]_vars PROVE TypeInv'
<1>1. CASE UNCHANGED vars
  BY <1>1 DEF TypeInv, vars, hub
<1>2. CASE Next
  <2>1. stack' \in Seq(Proper)
    <3>1. CASE ToHandler \/ ToNext
      <4>1. stack \in Seq(Proper) /\ stack # <<>>
        BY <3>1 DEF TypeInv, ToHandler, ToNext, Busy
      <4> QED
        BY <3>1, <4>1, Progress, Replaced DEF ToHandler, ToNext
    <3>2. CASE Ends
      BY <3>2, Popped DEF TypeInv, Ends, Looping, Busy
    <3>3. ASSUME NEW u \in Proper, Arrives(u) PROVE stack' \in Seq(Proper)
      BY <3>3, Pushed DEF TypeInv, Arrives
    <3> QED
      BY <1>2, <3>1, <3>2, <3>3, Moves DEF TypeInv
  <2>2. /\ hubVersion' \in 0 .. MaxVersion
        /\ latest' \in [Twins -> 0 .. MaxVersion]
        /\ wrong' \subseteq Twins
    <3>1. CASE UNCHANGED hub \/ ReceiveTwin
      BY <3>1 DEF TypeInv, hub, ReceiveTwin
    <3>2. ASSUME NEW good \in SUBSET Twins, NEW bad \in SUBSET Twins, HubSets(good, bad)
          PROVE  /\ hubVersion' \in 0 .. MaxVersion
                 /\ latest' \in [Twins -> 0 .. MaxVersion]
                 /\ wrong' \subseteq Twins
      BY <3>2, TwinsAssumption DEF TypeInv, HubSets
    <3> QED
      BY <1>2, <3>1, <3>2, HubMoves
  <2> QED
    BY <1>2, <2>1, <2>2, ValueType DEF TypeInv
<1> QED
  BY <1>1, <1>2

-----------------------------------------------------------------------------
(* Memory.                                                                  *)

\* A scalar of a subscribed binding has its storage.
StorageInv == subscribed => \A t \in Twins : Scalar(t) => propertyValue[t] # NULL

LEMMA StorageStep == ASSUME TypeInv, StorageInv, Next PROVE StorageInv'
<1>0. NULL \notin Int /\ propertyValue \in [Twins -> (0 .. MaxVersion) \cup {Own, NULL}]
  BY TwinsAssumption DEF TypeInv
<1>1. CASE dx_deviceTwinSubscribe /\ Opens
  BY <1>0, <1>1 DEF Opens, Opened, StorageInv, Scalar
<1>2. CASE dx_deviceTwinUnsubscribe /\ Closes
  BY <1>2 DEF dx_deviceTwinUnsubscribe, StorageInv
<1>3. CASE SetDesiredState /\ Puts
  <2>1. Top.value[Current] \in Int
    BY <1>3, TopType DEF Puts
  <2> QED
    BY <1>0, <1>3, <2>1 DEF Puts, SetDesiredState, StorageInv
<1>4. CASE HandlerReturns /\ Drops
  BY <1>0, <1>4 DEF Drops, HandlerReturns, Released, StorageInv, Scalar
<1>5. CASE UNCHANGED <<subscribed, hub>> /\ Reports
  BY <1>0, <1>5 DEF Reports, Values, StorageInv, Scalar
<1>6. CASE UNCHANGED <<subscribed, propertyValue>>
  BY <1>6 DEF StorageInv
<1> QED
  BY <1>1, <1>2, <1>3, <1>4, <1>5, <1>6, ValueMoves

\* The update whose handler for t runs.
At(u, t) == /\ u.pc \in {"handler", "work"}
            /\ deviceTwins[Len(deviceTwins) - u.todo + 1] = t

\* It is handled until its handler for t returns.
LEMMA StillHandled ==
    ASSUME TypeInv, Next, NEW t \in Twins, NEW v,
           \E k \in DOMAIN stack : At(stack[k], t) /\ stack[k].value[t] = v,
           ~(HandlerReturns /\ Current = t)
    PROVE  \E k \in DOMAIN stack' : At(stack'[k], t) /\ stack'[k].value[t] = v
<1>0. stack \in Seq(Proper) /\ (Busy => stack # <<>> /\ Top = stack[1])
  BY DEF TypeInv, Busy, Top
<1>1. PICK k \in DOMAIN stack : At(stack[k], t) /\ stack[k].value[t] = v
  OBVIOUS
<1>2. ASSUME NEW u \in Proper, Arrives(u)
      PROVE  \E i \in DOMAIN stack' : At(stack'[i], t) /\ stack'[i].value[t] = v
  <2>1. k + 1 \in DOMAIN stack' /\ stack'[k + 1] = stack[k]
    BY <1>0, <1>2, Pushed DEF Arrives
  <2> QED
    BY <1>1, <2>1
<1>3. CASE ToHandler
  <2>1. PICK p \in {"handler", "work"} :
            /\ Busy /\ Top.todo > 0
            /\ stack' = [stack EXCEPT ![1] = [Top EXCEPT !.pc = p]]
    BY <1>3 DEF ToHandler
  <2> DEFINE u == [Top EXCEPT !.pc = p]
  <2>2. u \in Proper /\ u.value = Top.value /\ u.todo = Top.todo /\ u.pc = p
    BY <2>1, Progress
  <2> HIDE DEF u
  <2>3. /\ DOMAIN stack' = DOMAIN stack /\ stack'[1] = u
        /\ \A i \in DOMAIN stack : i # 1 => stack'[i] = stack[i]
    BY <1>0, <2>1, <2>2, Replaced DEF u
  <2>4. CASE k = 1
    <3>1. At(stack'[1], t) /\ stack'[1].value[t] = v /\ 1 \in DOMAIN stack'
      BY <1>0, <1>1, <2>1, <2>2, <2>3, <2>4 DEF At
    <3> QED
      BY <3>1
  <2> QED
    BY <1>1, <2>3, <2>4
<1>4. CASE ToNext /\ (Top.pc = "loop" \/ HandlerReturns)
  <2>1. k # 1
    <3>1. Top.pc \in {"handler", "work"} /\ Current = t => ~(Top.pc = "loop" \/ HandlerReturns)
      OBVIOUS
    <3> QED
      BY <1>0, <1>1, <1>4, <3>1 DEF At, Current, ToNext
  <2>2. /\ DOMAIN stack' = DOMAIN stack
        /\ \A i \in DOMAIN stack : i # 1 => stack'[i] = stack[i]
    <3> DEFINE u == [Top EXCEPT !.pc = "loop", !.todo = @ - 1]
    <3>1. u \in Proper /\ Busy /\ stack' = [stack EXCEPT ![1] = u]
      BY <1>4, Progress DEF ToNext
    <3> HIDE DEF u
    <3> QED
      BY <1>0, <3>1, Replaced
  <2> QED
    BY <1>1, <2>1, <2>2
<1>5. CASE Ends
  <2>1. Busy /\ Top.pc = "loop" /\ stack' = Tail(stack)
    BY <1>5 DEF Ends, Looping
  <2>2. k # 1
    BY <1>0, <1>1, <2>1 DEF At
  <2>3. k - 1 \in DOMAIN stack' /\ stack'[k - 1] = stack[k]
    BY <1>0, <2>1, <2>2, Popped
  <2> QED
    BY <1>1, <2>3
<1>6. CASE stack' = stack
  BY <1>1, <1>6
<1> QED
  BY <1>2, <1>3, <1>4, <1>5, <1>6, Moves

\* SetDesiredState leaves the update in the handler of the binding it stored.
LEMMA NowHandled ==
    ASSUME TypeInv, SetDesiredState, Puts
    PROVE  \E k \in DOMAIN stack' : /\ At(stack'[k], Current)
                                    /\ stack'[k].value[Current] = Top.value[Current]
<1>0. stack \in Seq(Proper) /\ stack # <<>> /\ Top = stack[1] /\ 1 \in DOMAIN stack
  BY Popped DEF TypeInv, Puts, Busy, Top
<1> DEFINE u == [Top EXCEPT !.pc = "handler"]
<1>1. stack' = [stack EXCEPT ![1] = u]
  BY <1>0 DEF SetDesiredState, SetPc
<1>2. u \in Proper /\ u.value = Top.value /\ u.todo = Top.todo /\ u.pc = "handler"
  BY Progress DEF Puts
<1> HIDE DEF u
<1>3. 1 \in DOMAIN stack' /\ stack'[1] = u
  BY <1>0, <1>1, <1>2, Replaced
<1>4. At(u, Current) /\ u.value[Current] = Top.value[Current]
  BY <1>2 DEF At, Current
<1> QED
  BY <1>3, <1>4

LEMMA LiveStep == ASSUME TypeInv, BorrowedIsLive, Next PROVE BorrowedIsLive'
<1>0. propertyValue \in [Twins -> (0 .. MaxVersion) \cup {Own, NULL}]
  BY DEF TypeInv
<1> SUFFICES ASSUME NEW t \in Twins, ~Scalar(t), propertyValue'[t] # NULL
             PROVE  \E k \in DOMAIN stack' :
                        At(stack'[k], t) /\ stack'[k].value[t] = propertyValue'[t]
  BY TwinsAssumption DEF BorrowedIsLive, At, Scalar
<1>1. ASSUME propertyValue[t] # NULL
      PROVE  \E k \in DOMAIN stack : At(stack[k], t) /\ stack[k].value[t] = propertyValue[t]
  BY <1>1, TwinsAssumption DEF BorrowedIsLive, At, Scalar
<1>2. CASE propertyValue'[t] = propertyValue[t] /\ ~(HandlerReturns /\ Current = t)
  BY <1>1, <1>2, StillHandled
<1>3. CASE SetDesiredState /\ Puts
  <2>1. CASE Current = t
    <3>1. propertyValue'[t] = Top.value[t]
      BY <1>0, <1>3, <2>1 DEF Puts
    <3> QED
      BY <1>3, <2>1, <3>1, NowHandled
  <2>2. CASE Current # t
    <3>1. propertyValue'[t] = propertyValue[t]
      BY <1>0, <1>3, <2>2 DEF Puts
    <3> QED
      BY <1>2, <2>2, <3>1
  <2> QED
    BY <2>1, <2>2
<1>4. CASE HandlerReturns /\ Drops
  <2>1. Current # t /\ propertyValue'[t] = propertyValue[t]
    BY <1>0, <1>4, TwinsAssumption DEF Drops, Released, Scalar
  <2> QED
    BY <1>2, <2>1
<1>5. CASE ~HandlerReturns /\ ~(SetDesiredState /\ Puts)
  <2>1. propertyValue'[t] = propertyValue[t]
    BY <1>0, <1>5, ValueMoves DEF Opens, Opened, Closes, Reports, Scalar
  <2> QED
    BY <1>2, <1>5, <2>1
<1>6. HandlerReturns => Drops
  <2>1. HandlerReturns => Busy /\ Top.todo > 0
    BY TopType DEF HandlerReturns, InHandler, Proper
  <2> QED
    BY <2>1, TopType DEF HandlerReturns, Drops
<1> QED
  BY <1>3, <1>4, <1>5, <1>6

LEMMA Initially == ASSUME Init PROVE TypeInv /\ StorageInv /\ BorrowedIsLive
<1>1. 0 \in 0 .. MaxVersion
  BY TwinsAssumption
<1>2. <<>> \in Seq(Proper)
  OBVIOUS
<1> QED
  BY <1>1, <1>2 DEF Init, TypeInv, StorageInv, BorrowedIsLive

\* A STRING or JSON_OBJECT value is set only while the handler it was set for
\* runs, however updates interrupt handlers and whatever these call: nobody sees
\* a pointer into a document that DeviceTwinCallbackHandler has freed.
THEOREM BorrowedCorrect == Spec => []BorrowedIsLive
<1> DEFINE I == TypeInv /\ BorrowedIsLive
<1>1. Init => I
  BY Initially
<1>2. I /\ [Next]_vars => I'
  <2>1. BorrowedIsLive /\ UNCHANGED vars => BorrowedIsLive'
    BY DEF BorrowedIsLive, vars
  <2> QED
    BY <2>1, TypeStep, LiveStep
<1> HIDE DEF I
<1>3. I => BorrowedIsLive
  BY DEF I
<1> QED
  BY <1>1, <1>2, <1>3, PTL DEF Spec

SafeInv == MemoryIsSafe /\ (subscribed => opened)

LEMMA SafeStep ==
    ASSUME TypeInv, StorageInv, BorrowedIsLive, SafeInv, Next
    PROVE  SafeInv'
<1>1. CASE dx_deviceTwinSubscribe
  BY <1>1 DEF dx_deviceTwinSubscribe, Calls, Alive, SafeInv, MemoryIsSafe, memory
<1>2. CASE dx_deviceTwinUnsubscribe
  <2>1. ~Busy => \A t \in Twins : twinType[t] = "borrowed" => propertyValue[t] = NULL
    BY DEF BorrowedIsLive, Busy
  <2> QED
    BY <1>2, <2>1 DEF dx_deviceTwinUnsubscribe, SafeInv, MemoryIsSafe, Busy
<1>3. ASSUME NEW good \in SUBSET Twins, NEW bad \in SUBSET Twins,
             HubMissed(good, bad) \/ ReceivePatch(good, bad)
      PROVE  SafeInv'
  BY <1>3 DEF HubMissed, ReceivePatch, DeviceTwinCallbackHandler, Alive, SafeInv, MemoryIsSafe,
              memory
<1>4. CASE ReceiveTwin
  BY <1>4 DEF ReceiveTwin, DeviceTwinCallbackHandler, Alive, SafeInv, MemoryIsSafe, memory
<1>5. CASE SetDesiredState
  <2>1. Current \in Twins /\ ~badFree /\ UNCHANGED <<subscribed, opened, badFree>>
    BY <1>5, TopType DEF SetDesiredState, Looping, Alive
  <2>2. nullUse' => ~subscribed
    BY <1>5, <2>1 DEF SetDesiredState, StorageInv, Scalar
  <2> QED
    BY <2>1, <2>2 DEF SafeInv, MemoryIsSafe
<1>6. CASE SetVersionOnly \/ SkipProperty \/ HandlerReturns \/ CallbackReturns \/ DoWorkReturns
  <2>1. ~badFree /\ ~nullUse /\ UNCHANGED <<subscribed, opened, badFree, nullUse>>
    BY <1>6 DEF SetVersionOnly, SkipProperty, HandlerReturns, CallbackReturns, Looping,
                DoWorkReturns, Alive, memory
  <2> QED
    BY <2>1 DEF SafeInv, MemoryIsSafe
<1>7. ASSUME NEW t \in Twins, NEW v \in Values(t),
             dx_deviceTwinAckDesiredValue(t, v) \/ dx_deviceTwinReportValue(t, v)
      PROVE  SafeInv'
  <2>1. /\ ~badFree /\ ~nullUse /\ UNCHANGED <<subscribed, opened, badFree>>
        /\ deviceTwinReportState(t, v)
    BY <1>7 DEF dx_deviceTwinAckDesiredValue, dx_deviceTwinReportValue, Calls, Alive
  <2>2. nullUse' => ~subscribed
    BY <2>1 DEF deviceTwinReportState, StorageInv, Scalar, SafeInv
  <2> QED
    BY <2>1, <2>2 DEF SafeInv, MemoryIsSafe
<1>8. CASE ReportsBeforeSubscribe
  BY <1>8 DEF ReportsBeforeSubscribe, Calls, Alive, SafeInv, MemoryIsSafe
<1> QED
  BY <1>1, <1>2, <1>3, <1>4, <1>5, <1>6, <1>7, <1>8 DEF Next

\* For any bindings and whatever the application calls, in handlers too: while the
\* bindings are subscribed, SetDesiredState and deviceTwinReportState never go
\* through NULL, and between callbacks deviceTwinClose frees only what was
\* allocated.
THEOREM MemoryCorrect == Spec => []MemoryIsSafe
<1> DEFINE I == TypeInv /\ StorageInv /\ BorrowedIsLive /\ SafeInv
<1>1. Init => I
  BY Initially DEF Init, SafeInv, MemoryIsSafe, Busy
<1>2. I /\ [Next]_vars => I'
  <2>1. StorageInv /\ BorrowedIsLive /\ SafeInv /\ UNCHANGED vars
            => StorageInv' /\ BorrowedIsLive' /\ SafeInv'
    BY DEF StorageInv, BorrowedIsLive, SafeInv, MemoryIsSafe, Busy, vars, memory
  <2> QED
    BY <2>1, TypeStep, StorageStep, LiveStep, SafeStep
<1> HIDE DEF I
<1>3. I => MemoryIsSafe
  BY DEF I, SafeInv
<1> QED
  BY <1>1, <1>2, <1>3, PTL DEF Spec

-----------------------------------------------------------------------------
(* The latest value.                                                        *)

\* What an update has yet to store is the latest value, and a binding that has not
\* the latest value will get it from such an update.
LatestInv ==
    \A t \in Twins : Scalar(t) /\ t \notin wrong /\ t \notin stale =>
        /\ \A k \in DOMAIN stack : Ahead(stack[k], t) => stack[k].value[t] \in {0, latest[t]}
        /\ t \notin touched =>
              \/ propertyValue[t] = latest[t]
              \/ \E k \in DOMAIN stack : /\ Ahead(stack[k], t) /\ latest[t] > 0
                                         /\ stack[k].value[t] = latest[t]

LEMMA FirstAhead ==
    ASSUME NEW t \in Twins, NEW u, u.pc = "loop", u.todo = Len(deviceTwins)
    PROVE  Ahead(u, t)
<1>1. DOMAIN deviceTwins = 1 .. Len(deviceTwins) /\ Len(deviceTwins) \in Nat
  BY TwinsAssumption
<1>2. PICK j \in DOMAIN deviceTwins : deviceTwins[j] = t
  BY DEF Twins
<1> QED
  BY <1>1, <1>2 DEF Ahead

\* The next binding of the loop is ahead.
LEMMA CurrentAhead ==
    ASSUME TypeInv, Busy, Top.todo > 0, Top.pc = "loop" PROVE Ahead(Top, Current)
<1>1. /\ DOMAIN deviceTwins = 1 .. Len(deviceTwins) /\ Len(deviceTwins) \in Nat
      /\ Top.todo \in 0 .. Len(deviceTwins)
  BY TwinsAssumption, TopType
<1>2. Len(deviceTwins) - Top.todo + 1 \in DOMAIN deviceTwins
  BY <1>1
<1>3. Len(deviceTwins) - Top.todo + 1 > Len(deviceTwins) - Top.todo + 0
  BY <1>1
<1> QED
  BY <1>2, <1>3 DEF Ahead, Current

\* A step of the innermost update leaves behind the binding it looked at, and no
\* other.
LEMMA StillAhead ==
    ASSUME TypeInv, Busy, Top.todo > 0, NEW t \in Twins, NEW u \in Proper,
           \/ u.todo = Top.todo /\ u.pc # "loop"
           \/ u.todo = Top.todo - 1 /\ u.pc = "loop"
    PROVE  /\ Ahead(u, t) => Ahead(Top, t)
           /\ Ahead(Top, t) /\ (Top.pc # "loop" \/ Current # t) => Ahead(u, t)
<1>1. /\ DOMAIN deviceTwins = 1 .. Len(deviceTwins) /\ Len(deviceTwins) \in Nat
      /\ Top.todo \in Int
  BY TwinsAssumption, TopType
<1>2. ASSUME Ahead(Top, t), Top.pc # "loop" \/ Current # t PROVE Ahead(u, t)
  <2>1. PICK j \in DOMAIN deviceTwins :
          /\ deviceTwins[j] = t
          /\ j > Len(deviceTwins) - Top.todo + (IF Top.pc = "loop" THEN 0 ELSE 1)
    BY <1>2 DEF Ahead
  <2>2. j > Len(deviceTwins) - Top.todo + 1
    BY <1>1, <1>2, <2>1 DEF Current
  <2> QED
    BY <1>1, <2>1, <2>2 DEF Ahead
<1>3. ASSUME Ahead(u, t) PROVE Ahead(Top, t)
  <2>1. PICK j \in DOMAIN deviceTwins :
          /\ deviceTwins[j] = t
          /\ j > Len(deviceTwins) - u.todo + (IF u.pc = "loop" THEN 0 ELSE 1)
    BY <1>3 DEF Ahead
  <2>2. j > Len(deviceTwins) - Top.todo + 1
    BY <1>1, <2>1
  <2>3. j > Len(deviceTwins) - Top.todo + (IF Top.pc = "loop" THEN 0 ELSE 1)
    BY <1>1, <2>2
  <2> QED
    BY <2>1, <2>3 DEF Ahead
<1> QED
  BY <1>2, <1>3

LEMMA NoneAhead ==
    ASSUME TypeInv, Busy, Top.todo = 0, NEW t PROVE ~Ahead(Top, t)
  BY TwinsAssumption DEF Ahead

\* An update that arrives has the latest value of each property in it, and leaves
\* the others as they are.
LEMMA LatestArrives == ASSUME TypeInv, LatestInv, Arrival PROVE LatestInv'
<1>0. stack \in Seq(Proper) /\ UNCHANGED <<propertyValue, touched>>
  BY DEF TypeInv, Arrival, ReceiveTwin, ReceivePatch, DeviceTwinCallbackHandler
<1>1. PICK u \in Proper :
        /\ Arrives(u) /\ stale' = Overtaken(u.value)
        /\ \A t \in Twins : t \notin wrong' =>
              IF u.value[t] > 0 THEN u.value[t] = latest'[t]
                                ELSE u.value[t] = 0 /\ t \notin wrong /\ latest'[t] = latest[t]
  <2>1. CASE ReceiveTwin
    <3>1. PICK u \in Proper :
            Arrives(u) /\ u.value = [t \in Twins |-> IF t \in wrong THEN 0 ELSE latest[t]]
      BY <2>1, TwinType
    <3>2. UNCHANGED <<latest, wrong>> /\ stale' = Overtaken(u.value)
      BY <2>1, <3>1 DEF ReceiveTwin, DeviceTwinCallbackHandler
    <3>3. latest \in [Twins -> Nat]
      BY TwinsAssumption DEF TypeInv
    <3> QED
      BY <3>1, <3>2, <3>3
  <2>2. ASSUME NEW good \in SUBSET Twins, NEW bad \in SUBSET Twins, ReceivePatch(good, bad)
        PROVE  \E u \in Proper :
                 /\ Arrives(u) /\ stale' = Overtaken(u.value)
                 /\ \A t \in Twins : t \notin wrong' =>
                       IF u.value[t] > 0 THEN u.value[t] = latest'[t]
                         ELSE u.value[t] = 0 /\ t \notin wrong /\ latest'[t] = latest[t]
    <3>1. PICK u \in Proper :
            Arrives(u) /\ u.value = [t \in Twins |-> IF t \in good THEN hubVersion + 1 ELSE 0]
      BY <2>2, PatchType
    <3>2. stale' = Overtaken(u.value)
      BY <2>2, <3>1 DEF ReceivePatch, DeviceTwinCallbackHandler
    <3>3. /\ latest' = [t \in Twins |-> IF t \in good THEN hubVersion + 1 ELSE latest[t]]
          /\ wrong' = (wrong \ good) \cup bad /\ hubVersion + 1 > 0
      BY <2>2, TwinsAssumption DEF ReceivePatch, HubSets, TypeInv
    <3> QED
      BY <3>1, <3>2, <3>3
  <2> QED
    BY <2>1, <2>2 DEF Arrival
<1>2. /\ 1 \in DOMAIN stack' /\ stack'[1] = u
      /\ \A k \in DOMAIN stack : k + 1 \in DOMAIN stack' /\ stack'[k + 1] = stack[k]
      /\ \A k \in DOMAIN stack' : k = 1 \/ (k - 1 \in DOMAIN stack /\ stack'[k] = stack[k - 1])
  BY <1>0, <1>1, Pushed DEF Arrives
<1>3. \A t \in Twins : Ahead(u, t)
  BY <1>1, FirstAhead DEF Arrives
<1> SUFFICES ASSUME NEW t \in Twins, Scalar(t), t \notin wrong', t \notin stale'
             PROVE  /\ \A k \in DOMAIN stack' :
                          Ahead(stack'[k], t) => stack'[k].value[t] \in {0, latest'[t]}
                    /\ t \notin touched =>
                          \/ propertyValue[t] = latest'[t]
                          \/ \E k \in DOMAIN stack' : /\ Ahead(stack'[k], t) /\ latest'[t] > 0
                                                      /\ stack'[k].value[t] = latest'[t]
  BY <1>0 DEF LatestInv, Ahead
<1>4. CASE u.value[t] > 0
  <2>1. u.value[t] = latest'[t]
    BY <1>1, <1>4
  <2>2. \A k \in DOMAIN stack : Ahead(stack[k], t) => stack[k].value[t] \in {0, latest'[t]}
    BY <1>1, <1>4 DEF Overtaken
  <2>3. \A k \in DOMAIN stack' : Ahead(stack'[k], t) => stack'[k].value[t] \in {0, latest'[t]}
    BY <1>2, <2>1, <2>2
  <2> QED
    BY <1>2, <1>3, <1>4, <2>1, <2>3
<1>5. CASE ~(u.value[t] > 0)
  <2>1. u.value[t] = 0 /\ t \notin wrong /\ latest'[t] = latest[t] /\ t \notin stale
    BY <1>1, <1>5 DEF Overtaken
  <2>2. /\ \A k \in DOMAIN stack : Ahead(stack[k], t) => stack[k].value[t] \in {0, latest[t]}
        /\ t \notin touched =>
              \/ propertyValue[t] = latest[t]
              \/ \E k \in DOMAIN stack : /\ Ahead(stack[k], t) /\ latest[t] > 0
                                         /\ stack[k].value[t] = latest[t]
    BY <2>1 DEF LatestInv
  <2>3. \A k \in DOMAIN stack' : Ahead(stack'[k], t) => stack'[k].value[t] \in {0, latest'[t]}
    BY <1>2, <2>1, <2>2
  <2> QED
    BY <1>2, <2>1, <2>2, <2>3
<1> QED
  BY <1>4, <1>5

\* What is ahead for t, before and after a step.
Awaits(s, t, v) == \E k \in DOMAIN s : Ahead(s[k], t) /\ s[k].value[t] = v

\* A step of an update does not bring t back, and leaves it behind only by storing
\* its value.
LEMMA AwaitsStep ==
    ASSUME TypeInv, Next, ~Arrival, NEW t \in Twins, NEW v
    PROVE  /\ Awaits(stack', t, v) => Awaits(stack, t, v)
           /\ Awaits(stack, t, v) /\ v # 0 /\ ~(SetDesiredState /\ Current = t)
                 => Awaits(stack', t, v)
<1>0. stack \in Seq(Proper) /\ (Busy => stack # <<>> /\ Top = stack[1] /\ 1 \in DOMAIN stack)
  BY Popped DEF TypeInv, Busy, Top
<1>1. ASSUME NEW u \in Proper, Busy, Top.todo > 0, stack' = [stack EXCEPT ![1] = u],
             u.value = Top.value,
             \/ u.todo = Top.todo /\ u.pc # "loop"
             \/ u.todo = Top.todo - 1 /\ u.pc = "loop",
             Top.pc = "loop" => SetDesiredState \/ ~Stores(Current)
      PROVE  /\ Awaits(stack', t, v) => Awaits(stack, t, v)
             /\ Awaits(stack, t, v) /\ v # 0 /\ ~(SetDesiredState /\ Current = t)
                   => Awaits(stack', t, v)
  <2>1. /\ DOMAIN stack' = DOMAIN stack /\ stack'[1] = u
        /\ \A i \in DOMAIN stack : i # 1 => stack'[i] = stack[i]
    BY <1>0, <1>1, Replaced
  <2>2. /\ Ahead(u, t) => Ahead(stack[1], t)
        /\ Ahead(stack[1], t) /\ (Top.pc # "loop" \/ Current # t) => Ahead(u, t)
    BY <1>0, <1>1, StillAhead
  <2>3. ASSUME Top.pc = "loop", Current = t, ~SetDesiredState PROVE Top.value[t] = 0
    <3>1. ~(Top.value[t] > 0)
      BY <1>1, <2>3 DEF Stores
    <3>2. Top.value[t] \in Nat
      BY <1>1, TopType, TwinsAssumption
    <3> QED
      BY <3>1, <3>2
  <2>4. Awaits(stack', t, v) => Awaits(stack, t, v)
    BY <1>0, <1>1, <2>1, <2>2 DEF Awaits
  <2>5. ASSUME Awaits(stack, t, v), v # 0, ~(SetDesiredState /\ Current = t)
        PROVE  Awaits(stack', t, v)
    BY <1>0, <1>1, <2>1, <2>2, <2>3, <2>5 DEF Awaits
  <2> QED
    BY <2>4, <2>5
<1>2. CASE ToHandler /\ (Top.pc # "loop" \/ SetDesiredState)
  BY <1>1, <1>2, Progress DEF ToHandler
<1>3. CASE ToNext /\ (IF Top.pc = "loop" THEN ~Stores(Current) ELSE HandlerReturns)
  BY <1>1, <1>3, Progress DEF ToNext
<1>4. CASE Ends
  <2>1. /\ Busy /\ ~Ahead(stack[1], t) /\ stack' = Tail(stack)
        /\ \A k \in DOMAIN stack : k = 1 \/ (k - 1 \in DOMAIN stack' /\ stack'[k - 1] = stack[k])
        /\ \A k \in DOMAIN stack' : k + 1 \in DOMAIN stack /\ stack'[k] = stack[k + 1]
    BY <1>0, <1>4, NoneAhead, Popped DEF Ends, Looping
  <2>2. ASSUME NEW k \in DOMAIN stack', Ahead(stack'[k], t), stack'[k].value[t] = v
        PROVE  Awaits(stack, t, v)
    <3>1. k + 1 \in DOMAIN stack /\ stack'[k] = stack[k + 1]
      BY <2>1
    <3> QED
      BY <2>2, <3>1 DEF Awaits
  <2>3. ASSUME NEW k \in DOMAIN stack, Ahead(stack[k], t), stack[k].value[t] = v
        PROVE  Awaits(stack', t, v)
    <3>1. k - 1 \in DOMAIN stack' /\ stack'[k - 1] = stack[k]
      BY <2>1, <2>3
    <3> QED
      BY <2>3, <3>1 DEF Awaits
  <2> QED
    BY <2>2, <2>3 DEF Awaits
<1>5. CASE stack' = stack
  BY <1>5
<1> QED
  BY <1>2, <1>3, <1>4, <1>5, Moves

LEMMA LatestStep == ASSUME TypeInv, LatestInv, Next PROVE LatestInv'
<1>0. /\ propertyValue \in [Twins -> (0 .. MaxVersion) \cup {Own, NULL}]
      /\ stack \in Seq(Proper) /\ latest \in [Twins -> Nat]
  BY TwinsAssumption DEF TypeInv
<1>1. CASE Arrival
  BY <1>1, LatestArrives
<1>2. CASE ~Arrival
  <2> SUFFICES ASSUME NEW t \in Twins, Scalar(t), t \notin wrong', t \notin stale'
               PROVE  /\ \A v : Awaits(stack', t, v) => v \in {0, latest'[t]}
                      /\ t \notin touched' =>
                            \/ propertyValue'[t] = latest'[t]
                            \/ latest'[t] > 0 /\ Awaits(stack', t, latest'[t])
    BY DEF LatestInv, Awaits, Ahead
  <2>1. t \notin wrong /\ t \notin stale /\ latest'[t] = latest[t]
    <3>1. CASE UNCHANGED hub
      BY <3>1 DEF hub
    <3>2. ASSUME NEW good \in SUBSET Twins, NEW bad \in SUBSET Twins,
                 HubSets(good, bad), HubMissed(good, bad)
          PROVE  t \notin wrong /\ t \notin stale /\ latest'[t] = latest[t]
      BY <3>2 DEF HubSets, HubMissed
    <3> QED
      BY <1>2, <3>1, <3>2, HubMoves DEF Arrival
  <2>2. /\ \A v : Awaits(stack, t, v) => v \in {0, latest[t]}
        /\ t \notin touched => \/ propertyValue[t] = latest[t]
                               \/ latest[t] > 0 /\ Awaits(stack, t, latest[t])
    BY <2>1 DEF LatestInv, Awaits
  <2>3. \A v : Awaits(stack', t, v) => v \in {0, latest'[t]}
    BY <1>2, <2>1, <2>2, AwaitsStep
  <2>4. ASSUME t \notin touched' PROVE \/ propertyValue'[t] = latest'[t]
                                       \/ latest'[t] > 0 /\ Awaits(stack', t, latest'[t])
    <3>1. CASE SetDesiredState /\ Puts /\ Current = t
      <4>1. Busy /\ Top.pc = "loop" /\ Top.todo > 0 /\ Top = stack[1] /\ 1 \in DOMAIN stack
        BY <1>0, <3>1, Popped DEF SetDesiredState, Looping, Busy, Top
      <4>2. Awaits(stack, t, Top.value[t])
        BY <3>1, <4>1, CurrentAhead DEF Awaits
      <4>3. Top.value[t] = latest[t]
        BY <2>2, <3>1, <4>2 DEF Puts
      <4>4. propertyValue'[t] = Top.value[t]
        BY <1>0, <3>1 DEF Puts
      <4> QED
        BY <2>1, <4>3, <4>4
    <3>2. CASE ~(SetDesiredState /\ Current = t)
      <4>1. propertyValue'[t] = propertyValue[t] /\ t \notin touched
        <5>1. CASE Opens \/ Closes
          BY <2>4, <5>1 DEF Opens, Closes
        <5>2. CASE SetDesiredState /\ Puts
          BY <1>0, <2>4, <3>2, <5>2 DEF Puts
        <5>3. CASE Drops
          BY <1>0, <2>4, <5>3 DEF Drops, Released, Scalar
        <5>4. CASE Reports
          BY <1>0, <2>4, <5>4 DEF Reports
        <5>5. CASE UNCHANGED <<propertyValue, touched>>
          BY <2>4, <5>5
        <5> QED
          BY <5>1, <5>2, <5>3, <5>4, <5>5, ValueMoves
      <4>2. CASE latest[t] > 0 /\ Awaits(stack, t, latest[t])
        <5>1. latest[t] # 0
          BY <1>0, <4>2
        <5> QED
          BY <1>2, <2>1, <3>2, <4>2, <5>1, AwaitsStep
      <4> QED
        BY <2>1, <2>2, <4>1, <4>2
    <3>3. SetDesiredState => Puts
      BY TopType DEF SetDesiredState, Looping, Stores, Puts
    <3> QED
      BY <3>1, <3>2, <3>3
  <2> QED
    BY <2>3, <2>4
<1> QED
  BY <1>1, <1>2

\* Between updates a subscribed scalar that an update has set, and the application
\* has not set otherwise since, has the last value of its type that the hub was
\* given, unless that value was missed or was overtaken by an older update it
\* interrupted: for any bindings in any order, two of them for one property
\* included, and any nesting of updates in handlers.
THEOREM LatestCorrect == Spec => []LatestWins
<1> DEFINE I == TypeInv /\ LatestInv
<1>1. Init => I
  <2>1. ASSUME Init PROVE LatestInv
    BY <2>1 DEF Init, LatestInv
  <2> QED
    BY <2>1, Initially
<1>2. I /\ [Next]_vars => I'
  <2>1. LatestInv /\ UNCHANGED vars => LatestInv'
    BY DEF LatestInv, Ahead, vars, hub
  <2> QED
    BY <2>1, TypeStep, LatestStep
<1>3. I => LatestWins
  BY DEF LatestInv, LatestWins, Busy, Scalar
<1> HIDE DEF I
<1> QED
  BY <1>1, <1>2, <1>3, PTL DEF Spec
=============================================================================
