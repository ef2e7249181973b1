------------------------------ MODULE Session ------------------------------
(***************************************************************************)
(* What the connection layer promises the rest of the library: one session *)
(* at a time, opened only after a registration when the device is          *)
(* provisioned by DPS, and every message accepted in a session is          *)
(* accounted for exactly once, by a confirmation or by the session's end.  *)
(***************************************************************************)
EXTENDS Naturals

CONSTANTS Hubs, NULL

VARIABLES
    mustRegister,   \* is the device provisioned by DPS?
    phase,          \* "idle", "registering" or "open"
    hub,            \* the hub of the open session, or NULL
    inflight        \* messages accepted and not yet accounted for

vars == <<mustRegister, phase, hub, inflight>>

Init == mustRegister = FALSE /\ phase = "idle" /\ hub = NULL /\ inflight = 0

\* The end of a session, if there is one, accounts for all its messages.
Move(p, h) == phase' = p /\ hub' = h /\ inflight' = 0 /\ UNCHANGED mustRegister

Configure == /\ phase = "idle"
             /\ mustRegister' \in BOOLEAN
             /\ UNCHANGED <<phase, hub, inflight>>

Register == mustRegister /\ phase # "registering" /\ Move("registering", NULL)
Open(h)  == (mustRegister => phase = "registering") /\ Move("open", h)
Close    == phase # "idle" /\ Move("idle", NULL)

Accept  == phase = "open" /\ inflight' = inflight + 1
           /\ UNCHANGED <<mustRegister, phase, hub>>
Confirm == phase = "open" /\ inflight > 0 /\ inflight' = inflight - 1
           /\ UNCHANGED <<mustRegister, phase, hub>>

Next == Configure \/ Register \/ (\E h \in Hubs : Open(h)) \/ Close \/ Accept \/ Confirm

Spec == Init /\ [][Next]_vars
=============================================================================
