----------------------------- MODULE EventLoop -----------------------------
(***************************************************************************)
(* The event loop, how other threads call into it and how it is ended:     *)
(* dx_async.c, dx_terminate.c and dx_eventLoopRun/Stop of dx_timer.c.      *)
(*                                                                         *)
(* libuv is external.  uv_async_send marks a handle pending and wakes the  *)
(* loop, unless it was pending already; the loop clears the mark and then  *)
(* calls the handler, which reads async.data.  uv_stop sets a flag that    *)
(* uv_run tests between two rounds and clears when it returns.             *)
(***************************************************************************)
EXTENDS Integers, FiniteSets

CONSTANTS
    Bindings,       \* the DX_ASYNC_BINDINGs
    Threads,        \* the threads that call dx_asyncSend
    MaxSends,       \* bound on the calls of dx_asyncSend
    None

ASSUME EventLoopAssumption ==
    /\ MaxSends \in Nat
    /\ None \notin Bindings

\* 0 ("none"), DX_ExitCode_TermHandler_SigTerm, DX_ExitCode_Async_Init_Failed, and one
\* the application uses.
ExitCodes == {"none", "SigTerm", "Async_Init_Failed", "application"}

VARIABLES
    ready,          \* bindings that dx_asyncInit has initialised
    data,           \* async.data of each binding, 0 is NULL
    pending,        \* libuv: bindings sent and not yet taken
    woken,          \* libuv: the loop's file descriptor is readable
    send,           \* of each thread: where it is in dx_asyncSend
    seen,           \* the data that the handler of each binding saw last
    last,           \* the data of the last dx_asyncSend of each binding
    sends,          \* the number of calls of dx_asyncSend
    loop,           \* where the loop is
    todo, current,  \* bindings left to initialise, then those left in this round,
                    \* and the one being handled
    timers,         \* has the application a repeating timer?
    stop_flag,      \* libuv
    _exitCode,
    terminating,    \* the loop's thread is between the statements of dx_terminate
    signal,         \* statements of dx_terminationHandler done, on any thread
    stopped         \* history: the application has stopped the loop without a code

asyncVars == <<ready, data, pending, woken, send, seen, last, sends>>
endVars == <<stop_flag, _exitCode, terminating, signal, stopped>>
vars == <<asyncVars, loop, todo, current, timers, endVars>>

Idle == [at |-> "idle", binding |-> None]

-----------------------------------------------------------------------------
(* dx_terminate.c                                                           *)

dx_eventLoopStop == stop_flag' = TRUE

\* Mutant: the exit code is set and the loop goes on.
Bug_terminate(code) == _exitCode' = code /\ UNCHANGED terminating

\* Sets the exit code ...
dx_terminate(code) == _exitCode' = code /\ terminating' = TRUE

\* ... and calls dx_eventLoopStop.  The signal may come in between.
TerminateStops ==
    /\ terminating
    /\ dx_eventLoopStop
    /\ terminating' = FALSE
    /\ UNCHANGED <<asyncVars, loop, todo, current, timers, _exitCode, signal, stopped>>

\* Mutant: the loop is stopped first.
BugSignalStatement(n) ==
    IF n = 2 THEN _exitCode' = "SigTerm" /\ UNCHANGED stop_flag
             ELSE dx_eventLoopStop /\ UNCHANGED _exitCode

SignalStatement(n) ==
    IF n = 1 THEN _exitCode' = "SigTerm" /\ UNCHANGED stop_flag
             ELSE dx_eventLoopStop /\ UNCHANGED _exitCode

\* SIGTERM comes at any time, and any thread of the program may be the one that
\* handles it: the loop may take steps between the two statements.
dx_terminationHandler ==
    /\ SignalStatement(signal + 1)
    /\ signal' = (signal + 1) % 2
    /\ UNCHANGED <<asyncVars, loop, todo, current, timers, terminating, stopped>>

-----------------------------------------------------------------------------
(* dx_async.c                                                               *)

\* dx_asyncInit, for each binding of dx_asyncSetInit, before the loop runs.
dx_asyncInit(b) ==
    /\ loop = "before" /\ ~terminating /\ b \in todo
    /\ todo' = todo \ {b}
    /\ \/ ready' = ready \cup {b} /\ UNCHANGED <<_exitCode, terminating>>
       \/ dx_terminate("Async_Init_Failed") /\ UNCHANGED ready
    /\ UNCHANGED <<data, pending, woken, send, seen, last, sends, loop, current, timers,
                   stop_flag, signal, stopped>>

\* Mutant: data that waits for the loop is not replaced.
BugSetData(b, v) == IF b \in pending THEN data[b] ELSE v

SetData(b, v) == v

\* dx_asyncSend sets async.data ...
dx_asyncSend(t, b) ==
    /\ send[t] = Idle /\ b \in ready /\ sends < MaxSends
    /\ sends' = sends + 1
    /\ data' = [data EXCEPT ![b] = SetData(b, sends + 1)]
    /\ last' = [last EXCEPT ![b] = sends + 1]
    /\ send' = [send EXCEPT ![t] = [at |-> "send", binding |-> b]]
    /\ UNCHANGED <<ready, pending, woken, seen, loop, todo, current, timers, endVars>>

\* ... and calls uv_async_send.
uv_async_send(t) ==
    /\ send[t].at = "send"
    /\ LET b == send[t].binding IN
       IF b \in pending
       THEN send' = [send EXCEPT ![t] = Idle] /\ UNCHANGED pending
       ELSE /\ pending' = pending \cup {b}
            /\ send' = [send EXCEPT ![t].at = "wake"]
    /\ UNCHANGED <<ready, data, woken, seen, last, sends, loop, todo, current, timers,
                   endVars>>

Wake(t) ==
    /\ send[t].at = "wake"
    /\ woken' = TRUE
    /\ send' = [send EXCEPT ![t] = Idle]
    /\ UNCHANGED <<ready, data, pending, seen, last, sends, loop, todo, current,
                   timers, endVars>>

-----------------------------------------------------------------------------
(* dx_eventLoopRun: uv_run of libuv.                                        *)

LoopAlive == timers \/ ready # {}

\* What the application does before it runs the loop, or in a callback: go on,
\* end the program with a code or without one, or just stop the loop.
Application ==
    \/ UNCHANGED endVars
    \/ dx_terminate("application") /\ UNCHANGED <<stop_flag, signal, stopped>>
    \/ dx_terminate("none") /\ stopped' = TRUE /\ UNCHANGED <<stop_flag, signal>>
    \/ dx_eventLoopStop /\ stopped' = TRUE /\ UNCHANGED <<_exitCode, terminating, signal>>

dx_eventLoopRun ==
    /\ loop = "before" /\ ~terminating
    /\ loop' = "top" /\ todo' = {}
    /\ Application
    /\ UNCHANGED <<asyncVars, current, timers>>

LoopEnds ==
    /\ loop = "top" /\ ~terminating
    /\ stop_flag \/ ~LoopAlive
    /\ loop' = "ended"
    /\ stop_flag' = FALSE
    /\ UNCHANGED <<asyncVars, todo, current, timers, _exitCode, terminating, signal, stopped>>

Poll ==
    /\ loop = "top" /\ ~terminating
    /\ ~stop_flag /\ LoopAlive
    /\ loop' = "poll"
    /\ UNCHANGED <<asyncVars, todo, current, timers, endVars>>

\* The timers that are due are called.
TimerExpires ==
    /\ loop = "poll" /\ timers
    /\ loop' = "top"
    /\ Application
    /\ UNCHANGED <<asyncVars, todo, current, timers>>

Woken ==
    /\ loop = "poll" /\ woken
    /\ woken' = FALSE
    /\ todo' = ready
    /\ loop' = "round"
    /\ UNCHANGED <<ready, data, pending, send, seen, last, sends, current,
                   timers, endVars>>

Take(b) ==
    /\ loop = "round" /\ ~terminating /\ b \in todo
    /\ todo' = todo \ {b}
    /\ IF b \in pending
       THEN loop' = "handler" /\ current' = b /\ pending' = pending \ {b}
       ELSE UNCHANGED <<loop, current, pending>>
    /\ UNCHANGED <<ready, data, woken, send, seen, last, sends, timers, endVars>>

\* The handler of the binding reads handle->data.
Handler ==
    /\ loop = "handler"
    /\ seen' = [seen EXCEPT ![current] = data[current]]
    /\ current' = None
    /\ loop' = "round"
    /\ Application
    /\ UNCHANGED <<ready, data, pending, woken, send, last, sends, todo, timers>>

RoundEnds ==
    /\ loop = "round" /\ ~terminating /\ todo = {}
    /\ loop' = "top"
    /\ UNCHANGED <<asyncVars, todo, current, timers, endVars>>

-----------------------------------------------------------------------------
Init ==
    /\ ready = {} /\ pending = {} /\ woken = FALSE
    /\ data = [b \in Bindings |-> 0]
    /\ seen = [b \in Bindings |-> 0]
    /\ last = [b \in Bindings |-> 0]
    /\ send = [t \in Threads |-> Idle]
    /\ sends = 0
    /\ loop = "before" /\ todo = Bindings /\ current = None
    /\ timers \in BOOLEAN
    /\ stop_flag = FALSE /\ _exitCode = "none"
    /\ terminating = FALSE /\ signal = 0 /\ stopped = FALSE

Sending == \E t \in Threads : uv_async_send(t) \/ Wake(t)

Looping ==
    \/ dx_eventLoopRun \/ LoopEnds \/ Poll \/ TimerExpires \/ Woken
    \/ \E b \in Bindings : Take(b)
    \/ Handler \/ RoundEnds \/ TerminateStops

Next ==
    \/ dx_terminationHandler
    \/ \E b \in Bindings : dx_asyncInit(b)
    \/ \E t \in Threads, b \in Bindings : dx_asyncSend(t, b)
    \/ Sending
    \/ Looping

Spec == Init /\ [][Next]_vars

\* The loop's thread, the threads that are sending and the handler of a signal
\* run.  The loop polls timers and its file descriptor in the same call: neither
\* keeps it from the other for ever.
FairSpec ==
    /\ Spec
    /\ WF_vars(Looping) /\ SF_vars(Woken)
    /\ WF_vars(signal = 1 /\ dx_terminationHandler)
    /\ \A t \in Threads : WF_vars(uv_async_send(t) \/ Wake(t))

-----------------------------------------------------------------------------
\* Every variable has its type; a binding is being handled exactly in a handler.
TypeOK ==
    /\ ready \subseteq Bindings /\ pending \subseteq Bindings /\ todo \subseteq Bindings
    /\ data \in [Bindings -> 0 .. MaxSends]
    /\ seen \in [Bindings -> 0 .. MaxSends]
    /\ last \in [Bindings -> 0 .. MaxSends]
    /\ send \in [Threads -> {Idle} \cup [at : {"send", "wake"}, binding : Bindings]]
    /\ sends \in 0 .. MaxSends
    /\ loop \in {"before", "top", "poll", "round", "handler", "ended"}
    /\ current \in Bindings \cup {None}
    /\ (loop = "handler") <=> (current # None)
    /\ woken \in BOOLEAN /\ stop_flag \in BOOLEAN /\ timers \in BOOLEAN
    /\ terminating \in BOOLEAN /\ signal \in {0, 1} /\ stopped \in BOOLEAN
    /\ _exitCode \in ExitCodes

\* The data of the last dx_asyncSend is never lost, although calls made before
\* the handler runs are merged into one and the threads write async.data at any
\* moment: its handler has seen it, is about to, or will be called again.
NoLostSend ==
    \A b \in Bindings : last[b] # seen[b] =>
        /\ data[b] = last[b]
        /\ \/ b \in pending
           \/ current = b
           \/ \E t \in Threads : send[t] = [at |-> "send", binding |-> b]

\* When dx_eventLoopRun returns although there is something to wait for, and the
\* application did not stop the loop without a code itself, then
\* dx_getTerminationExitCode tells why: also when the loop sees stop_flag while
\* another thread is still in the signal's handler.
EndsForAReason == loop = "ended" /\ LoopAlive /\ ~stopped => _exitCode # "none"

\* A handler sees the last data sent, unless the loop ends first.
LastSendIsSeen ==
    \A b \in Bindings : (last[b] # seen[b]) ~> (last[b] = seen[b] \/ loop \in {"before", "ended"})

\* The loop sleeps with no timer to wake it and no call to handle.
Asleep == loop = "poll" /\ ~timers /\ ~woken /\ pending = {}

\* dx_terminate, dx_eventLoopStop and SIGTERM, before or while the loop runs, end
\* it, except in one case: uv_stop does not wake a loop that sleeps, so a SIGTERM
\* that finds it asleep with no timer is not seen before the next dx_asyncSend,
\* which may never come.
TerminateEnds ==
    (stop_flag \/ _exitCode # "none") ~> (loop = "ended" \/ []Asleep)
=============================================================================
