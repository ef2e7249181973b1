------------------------------ MODULE DxTimer ------------------------------
(***************************************************************************)
(* The timer bindings of dx_timer.c over libuv.  A binding is the flag the *)
(* library keeps (initialized) and what libuv keeps for its handle: is it  *)
(* in the timer heap (active), and does it have a repeat period (repeat).  *)
(* Periods are not modelled: an active timer may expire at any moment.     *)
(***************************************************************************)

Timer == [initialized : BOOLEAN, active : BOOLEAN, repeat : BOOLEAN]

\* A static binding before its first dx_timerStart.
NewTimer == [initialized |-> FALSE, active |-> FALSE, repeat |-> FALSE]

\* What the declaration of a binding asks for: .delay, .repeat or neither.
\* (With both, dx_timerStart terminates the program and starts nothing.)
dx_timerStart(t, delay, repeat) ==
    IF t.initialized \/ (delay /\ repeat)
    THEN t
    ELSE [initialized |-> TRUE, active |-> delay \/ repeat, repeat |-> repeat]

dx_timerStop(t) ==
    IF t.initialized
    THEN [t EXCEPT !.initialized = FALSE, !.active = FALSE]
    ELSE t

dx_timerOneShotSet(t) ==
    IF t.initialized THEN [t EXCEPT !.active = TRUE, !.repeat = FALSE] ELSE t

\* uv_timer_set_repeat alone: an inactive timer stays inactive.
dx_timerChange(t) ==
    IF t.initialized THEN [t EXCEPT !.repeat = TRUE] ELSE t

\* libuv stops an expired timer and restarts it only if it has a repeat period,
\* then calls the handler.
Expired(t) == [t EXCEPT !.active = t.repeat]
=============================================================================
