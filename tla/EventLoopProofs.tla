-------------------------- MODULE EventLoopProofs --------------------------
(***************************************************************************)
(* For any number of bindings and threads, with or without timers, and any *)
(* number of calls: no dx_asyncSend is lost and the loop ends for a reason.*)
(***************************************************************************)
EXTENDS EventLoop, TLAPS

\* async.data always holds what was sent last.
DataIsLast == data = last

\* Where the bindings and calls stay as they are, so does NoLostSend.
LEMMA Unsent ==
    ASSUME NoLostSend, UNCHANGED <<asyncVars, current>>
    PROVE  NoLostSend'
  <1>1. /\ data' = data /\ pending' = pending /\ send' = send
        /\ seen' = seen /\ last' = last /\ current' = current
    BY DEF asyncVars
  <1> QED
    BY <1>1 DEF NoLostSend

\* What the application does in a callback keeps the types.
LEMMA ApplicationTypes ==
    ASSUME TypeOK, Application
    PROVE  /\ stop_flag' \in BOOLEAN /\ terminating' \in BOOLEAN
           /\ signal' \in {0, 1} /\ stopped' \in BOOLEAN
           /\ _exitCode' \in ExitCodes
  BY DEF TypeOK, Application, dx_terminate, dx_eventLoopStop, endVars, ExitCodes

\* Every action keeps the types.
LEMMA TypeHolds == Spec => []TypeOK
  <1>1. Init => TypeOK
    <2> SUFFICES ASSUME Init PROVE TypeOK
      OBVIOUS
    <2>1. 0 \in 0 .. MaxSends
      BY EventLoopAssumption
    <2>2. send \in [Threads -> {Idle} \cup [at : {"send", "wake"}, binding : Bindings]]
      BY DEF Init
    <2>3. /\ data \in [Bindings -> 0 .. MaxSends] /\ seen \in [Bindings -> 0 .. MaxSends]
          /\ last \in [Bindings -> 0 .. MaxSends]
      BY <2>1 DEF Init
    <2> QED
      BY <2>1, <2>2, <2>3 DEF Init, TypeOK, ExitCodes
  <1>2. TypeOK /\ [Next]_vars => TypeOK'
    <2> SUFFICES ASSUME TypeOK, [Next]_vars PROVE TypeOK'
      OBVIOUS
    <2> USE EventLoopAssumption DEF TypeOK, ExitCodes
    <2>1. CASE dx_terminationHandler
      <3>1. signal' \in {0, 1}
        BY <2>1 DEF dx_terminationHandler
      <3>2. stop_flag' \in BOOLEAN /\ _exitCode' \in ExitCodes
        BY <2>1 DEF dx_terminationHandler, SignalStatement, dx_eventLoopStop
      <3> QED
        BY <2>1, <3>1, <3>2 DEF dx_terminationHandler, asyncVars
    <2>2. ASSUME NEW b \in Bindings, dx_asyncInit(b) PROVE TypeOK'
      BY <2>2 DEF dx_asyncInit, dx_terminate
    <2>3. ASSUME NEW t \in Threads, NEW b \in Bindings, dx_asyncSend(t, b) PROVE TypeOK'
      <3>1. sends + 1 \in 0 .. MaxSends
        BY <2>3 DEF dx_asyncSend
      <3>2. send' \in [Threads -> {Idle} \cup [at : {"send", "wake"}, binding : Bindings]]
        BY <2>3 DEF dx_asyncSend
      <3>3. data' \in [Bindings -> 0 .. MaxSends] /\ last' \in [Bindings -> 0 .. MaxSends]
        BY <2>3, <3>1 DEF dx_asyncSend, SetData
      <3> QED
        BY <2>3, <3>1, <3>2, <3>3 DEF dx_asyncSend, endVars
    <2>4. ASSUME NEW t \in Threads, uv_async_send(t) PROVE TypeOK'
      <3>1. send[t] \in [at : {"send", "wake"}, binding : Bindings]
        BY <2>4 DEF uv_async_send, Idle
      <3>2. send' \in [Threads -> {Idle} \cup [at : {"send", "wake"}, binding : Bindings]]
        BY <2>4, <3>1 DEF uv_async_send
      <3> QED
        BY <2>4, <3>1, <3>2 DEF uv_async_send, endVars
    <2>5. ASSUME NEW t \in Threads, Wake(t) PROVE TypeOK'
      BY <2>5 DEF Wake, endVars
    <2>6. CASE dx_eventLoopRun
      BY <2>6, ApplicationTypes DEF dx_eventLoopRun, asyncVars
    <2>7. CASE LoopEnds
      BY <2>7 DEF LoopEnds, asyncVars
    <2>8. CASE Poll
      BY <2>8 DEF Poll, asyncVars, endVars
    <2>9. CASE TimerExpires
      BY <2>9, ApplicationTypes DEF TimerExpires, asyncVars
    <2>10. CASE Woken
      BY <2>10 DEF Woken, endVars
    <2>11. ASSUME NEW b \in Bindings, Take(b) PROVE TypeOK'
      BY <2>11 DEF Take, endVars
    <2>12. CASE Handler
      <3>1. current \in Bindings
        BY <2>12 DEF Handler
      <3>2. seen' \in [Bindings -> 0 .. MaxSends]
        BY <2>12, <3>1 DEF Handler
      <3> QED
        BY <2>12, <3>2, ApplicationTypes DEF Handler
    <2>13. CASE RoundEnds
      BY <2>13 DEF RoundEnds, asyncVars, endVars
    <2>14. CASE TerminateStops
      BY <2>14 DEF TerminateStops, dx_eventLoopStop, asyncVars
    <2>15. CASE UNCHANGED vars
      BY <2>15 DEF vars, asyncVars, endVars
    <2> QED
      BY <2>1, <2>2, <2>3, <2>4, <2>5, <2>6, <2>7, <2>8, <2>9, <2>10, <2>11, <2>12,
         <2>13, <2>14, <2>15 DEF Next, Sending, Looping
  <1> QED
    BY <1>1, <1>2, PTL DEF Spec

\* Only dx_asyncSend writes async.data, and it writes what it sends.
LEMMA DataHolds == Spec => []DataIsLast
  <1>1. Init => DataIsLast
    BY DEF Init, DataIsLast
  <1>2. DataIsLast /\ [Next]_vars => DataIsLast'
    BY DEF DataIsLast, Next, vars, asyncVars, dx_terminationHandler, dx_asyncInit,
           dx_asyncSend, SetData, Sending, uv_async_send, Wake, Looping, dx_eventLoopRun,
           LoopEnds, Poll, TimerExpires, Woken, Take, Handler, RoundEnds, TerminateStops
  <1> QED
    BY <1>1, <1>2, PTL DEF Spec

\* The last data sent to a binding has been seen by its handler or will be:
\* merged calls of dx_asyncSend lose nothing but data that was replaced.
THEOREM AsyncCorrect == Spec => []NoLostSend
  <1>1. Init => NoLostSend
    BY DEF Init, NoLostSend
  <1>2. TypeOK /\ DataIsLast /\ DataIsLast' /\ NoLostSend /\ [Next]_vars => NoLostSend'
    <2> SUFFICES ASSUME TypeOK, DataIsLast, DataIsLast', NoLostSend, [Next]_vars
                 PROVE  NoLostSend'
      OBVIOUS
    <2>1. CASE dx_terminationHandler
      BY <2>1, Unsent DEF dx_terminationHandler
    <2>2. ASSUME NEW b \in Bindings, dx_asyncInit(b) PROVE NoLostSend'
      BY <2>2 DEF dx_asyncInit, NoLostSend
    <2>3. ASSUME NEW t \in Threads, NEW b \in Bindings, dx_asyncSend(t, b) PROVE NoLostSend'
      <3> SUFFICES ASSUME NEW c \in Bindings, last'[c] # seen'[c]
                   PROVE  \/ c \in pending'
                          \/ current' = c
                          \/ \E u \in Threads : send'[u] = [at |-> "send", binding |-> c]
        BY DEF NoLostSend, DataIsLast
      <3>1. CASE c = b
        <4>1. send'[t] = [at |-> "send", binding |-> b]
          BY <2>3 DEF dx_asyncSend, TypeOK
        <4> QED
          BY <3>1, <4>1
      <3>2. CASE c # b
        <4>1. last[c] # seen[c]
          BY <2>3, <3>2 DEF dx_asyncSend, TypeOK
        <4>2. CASE \E u \in Threads : send[u] = [at |-> "send", binding |-> c]
          <5>1. PICK u \in Threads : send[u] = [at |-> "send", binding |-> c]
            BY <4>2
          <5>2. u # t
            BY <2>3, <5>1 DEF dx_asyncSend, Idle
          <5>3. send'[u] = send[u]
            BY <2>3, <5>2 DEF dx_asyncSend, TypeOK
          <5> QED
            BY <5>1, <5>3
        <4> QED
          BY <2>3, <4>1, <4>2 DEF NoLostSend, dx_asyncSend
      <3> QED
        BY <3>1, <3>2
    <2>4. ASSUME NEW t \in Threads, uv_async_send(t) PROVE NoLostSend'
      <3> SUFFICES ASSUME NEW c \in Bindings, last'[c] # seen'[c]
                   PROVE  \/ c \in pending'
                          \/ current' = c
                          \/ \E u \in Threads : send'[u] = [at |-> "send", binding |-> c]
        BY DEF NoLostSend, DataIsLast
      <3>1. last[c] # seen[c]
        BY <2>4 DEF uv_async_send
      <3>2. pending \subseteq pending' /\ send[t].binding \in pending'
        BY <2>4 DEF uv_async_send
      <3>3. CASE \E u \in Threads : send[u] = [at |-> "send", binding |-> c]
        <4>1. PICK u \in Threads : send[u] = [at |-> "send", binding |-> c]
          BY <3>3
        <4>2. CASE u = t
          BY <3>2, <4>1, <4>2
        <4>3. CASE u # t
          <5>1. send'[u] = send[u]
            BY <2>4, <4>3 DEF uv_async_send, TypeOK
          <5> QED
            BY <4>1, <5>1
        <4> QED
          BY <4>2, <4>3
      <3>4. \/ c \in pending
            \/ current = c
            \/ \E u \in Threads : send[u] = [at |-> "send", binding |-> c]
        BY <3>1 DEF NoLostSend
      <3>5. current' = current
        BY <2>4 DEF uv_async_send
      <3> QED
        BY <3>2, <3>3, <3>4, <3>5
    <2>5. ASSUME NEW t \in Threads, Wake(t) PROVE NoLostSend'
      <3>1. \A u \in Threads : send[u].at = "send" => send'[u] = send[u]
        BY <2>5 DEF Wake, TypeOK
      <3>2. ASSUME NEW c \in Bindings, NEW u \in Threads,
                   send[u] = [at |-> "send", binding |-> c]
            PROVE  send'[u] = [at |-> "send", binding |-> c]
        BY <3>1, <3>2
      <3>3. /\ data' = data /\ pending' = pending /\ seen' = seen
            /\ last' = last /\ current' = current
        BY <2>5 DEF Wake
      <3> QED
        BY <3>2, <3>3 DEF NoLostSend
    <2>6. CASE dx_eventLoopRun
      BY <2>6, Unsent DEF dx_eventLoopRun
    <2>7. CASE LoopEnds
      BY <2>7, Unsent DEF LoopEnds
    <2>8. CASE Poll
      BY <2>8, Unsent DEF Poll
    <2>9. CASE TimerExpires
      BY <2>9, Unsent DEF TimerExpires
    <2>10. CASE Woken
      BY <2>10 DEF Woken, NoLostSend
    <2>11. ASSUME NEW b \in Bindings, Take(b) PROVE NoLostSend'
      <3>1. current = None
        BY <2>11 DEF Take, TypeOK
      <3>2. CASE b \in pending
        BY <2>11, <3>1, <3>2, EventLoopAssumption DEF Take, NoLostSend
      <3>3. CASE b \notin pending
        BY <2>11, <3>3 DEF Take, NoLostSend
      <3> QED
        BY <3>2, <3>3
    <2>12. CASE Handler
      <3> SUFFICES ASSUME NEW c \in Bindings, last'[c] # seen'[c]
                   PROVE  \/ c \in pending'
                          \/ current' = c
                          \/ \E u \in Threads : send'[u] = [at |-> "send", binding |-> c]
        BY DEF NoLostSend, DataIsLast
      <3>1. c # current
        BY <2>12 DEF Handler, TypeOK, DataIsLast
      <3>2. last[c] # seen[c]
        BY <2>12, <3>1 DEF Handler, TypeOK
      <3> QED
        BY <2>12, <3>1, <3>2 DEF Handler, NoLostSend
    <2>13. CASE RoundEnds
      BY <2>13, Unsent DEF RoundEnds
    <2>14. CASE TerminateStops
      BY <2>14, Unsent DEF TerminateStops
    <2>15. CASE UNCHANGED vars
      BY <2>15, Unsent DEF vars
    <2> QED
      BY <2>1, <2>2, <2>3, <2>4, <2>5, <2>6, <2>7, <2>8, <2>9, <2>10, <2>11, <2>12,
         <2>13, <2>14, <2>15 DEF Next, Sending, Looping
  <1> QED
    BY <1>1, <1>2, TypeHolds, DataHolds, PTL DEF Spec

\* Whoever will stop the loop, or has, has set the exit code before: the thread of
\* the loop in dx_terminate, another one in the signal's handler.
StopHasCode ==
    ~stopped =>
        /\ stop_flag => _exitCode # "none"
        /\ terminating => _exitCode # "none"
        /\ signal = 1 => _exitCode # "none"
        /\ EndsForAReason

\* The application does not take an exit code back without stopping the loop itself.
LEMMA ApplicationKeepsCode ==
    ASSUME Application, ~stopped'
    PROVE  /\ ~stopped /\ signal' = signal
           /\ _exitCode # "none" => _exitCode' # "none"
           /\ stop_flag' => stop_flag
           /\ terminating' => terminating \/ _exitCode' # "none"
  BY DEF Application, dx_terminate, dx_eventLoopStop, endVars

\* dx_eventLoopRun returns, while there is anything to wait for and unless the
\* application has stopped it without a code, only after dx_terminate or a signal has
\* set the exit code: in every interleaving of the signal's handler with the loop.
THEOREM ReasonCorrect == Spec => []EndsForAReason
  <1>1. Init => StopHasCode
    BY DEF Init, StopHasCode, EndsForAReason
  <1>2. TypeOK /\ StopHasCode /\ [Next]_vars => StopHasCode'
    <2> SUFFICES ASSUME TypeOK, StopHasCode, [Next]_vars, ~stopped' PROVE StopHasCode'
      BY DEF StopHasCode
    <2> USE DEF StopHasCode, EndsForAReason, LoopAlive
    <2>1. CASE dx_terminationHandler
      <3>1. signal \in {0, 1} /\ ~stopped
        BY <2>1 DEF dx_terminationHandler, TypeOK
      <3>2. CASE signal = 0
        BY <2>1, <3>1, <3>2
        DEF dx_terminationHandler, SignalStatement, asyncVars
      <3>3. CASE signal = 1
        BY <2>1, <3>1, <3>3
        DEF dx_terminationHandler, SignalStatement, dx_eventLoopStop, asyncVars
      <3> QED
        BY <3>1, <3>2, <3>3
    <2>2. ASSUME NEW b \in Bindings, dx_asyncInit(b) PROVE StopHasCode'
      BY <2>2 DEF dx_asyncInit, dx_terminate
    <2>3. ASSUME NEW t \in Threads, NEW b \in Bindings, dx_asyncSend(t, b) PROVE StopHasCode'
      BY <2>3 DEF dx_asyncSend, endVars
    <2>4. CASE Sending
      BY <2>4 DEF Sending, uv_async_send, Wake, endVars
    <2>5. CASE dx_eventLoopRun
      BY <2>5, ApplicationKeepsCode DEF dx_eventLoopRun, asyncVars
    <2>6. CASE LoopEnds
      BY <2>6 DEF LoopEnds, asyncVars
    <2>7. CASE Poll
      BY <2>7 DEF Poll, asyncVars, endVars
    <2>8. CASE TimerExpires
      BY <2>8, ApplicationKeepsCode DEF TimerExpires, asyncVars
    <2>9. CASE Woken
      BY <2>9 DEF Woken, endVars
    <2>10. ASSUME NEW b \in Bindings, Take(b) PROVE StopHasCode'
      BY <2>10 DEF Take, endVars
    <2>11. CASE Handler
      BY <2>11, ApplicationKeepsCode DEF Handler
    <2>12. CASE RoundEnds
      BY <2>12 DEF RoundEnds, asyncVars, endVars
    <2>13. CASE TerminateStops
      BY <2>13 DEF TerminateStops, asyncVars
    <2>14. CASE UNCHANGED vars
      BY <2>14 DEF vars, asyncVars, endVars
    <2> QED
      BY <2>1, <2>2, <2>3, <2>4, <2>5, <2>6, <2>7, <2>8, <2>9, <2>10, <2>11, <2>12, <2>13,
         <2>14
      DEF Next, Looping
  <1>3. StopHasCode => EndsForAReason
    BY DEF StopHasCode, EndsForAReason
  <1> QED
    BY <1>1, <1>2, <1>3, TypeHolds, PTL DEF Spec
=============================================================================
