---------------------------- MODULE Confirmations ----------------------------
(***************************************************************************)
(* What the application relies on when it hands an item to the SDK client: *)
(* a telemetry message (dx_azurePublish) or a reported property            *)
(* (dx_deviceTwinReportValue).  An accepted item is confirmed exactly      *)
(* once, at the latest when the client is destroyed; an item of Lossy may  *)
(* be given up without a confirmation.                                     *)
(***************************************************************************)
EXTENDS Naturals

CONSTANTS Items, Lossy

VARIABLES
    pending,    \* accepted and neither confirmed nor given up
    confirms,   \* how often each item was confirmed
    closed      \* the client is destroyed

vars == <<pending, confirms, closed>>

Init ==
    /\ pending = {}
    /\ confirms = [i \in Items |-> 0]
    /\ closed = FALSE

Accept(i) ==
    /\ ~closed
    /\ i \notin pending
    /\ confirms[i] = 0
    /\ pending' = pending \cup {i}
    /\ UNCHANGED <<confirms, closed>>

\* The items of done leave: confirmed, but for the lost ones.
Settle(done, lost) ==
    /\ pending' = pending \ done
    /\ confirms' = [i \in Items |->
                        IF i \in done \ lost THEN confirms[i] + 1 ELSE confirms[i]]

Complete ==
    /\ \E done \in SUBSET pending, lost \in SUBSET (pending \cap Lossy) :
        Settle(done, lost)
    /\ UNCHANGED closed

\* Destroying the client confirms whatever is left.
Close ==
    /\ ~closed
    /\ closed' = TRUE
    /\ Settle(pending, {})

Next == (\E i \in Items : Accept(i)) \/ Complete \/ Close

Spec == Init /\ [][Next]_vars
=============================================================================
