------------------------------- MODULE MCGpio -------------------------------
(* Three bindings on one chip, two of which name the same line, one on       *)
(* another, and bindings that name no chip or no direction.                  *)
EXTENDS Gpio

CONSTANTS led, lamp, button, relay, noChip, noDirection

MCBindings  == {led, lamp, button, relay, noChip, noDirection}
ChipNumber  == [b \in MCBindings |-> CASE b = relay -> 1 [] b = noChip -> 2 [] OTHER -> 0]
LineNumber  == [b \in MCBindings |-> IF b \in {led, lamp} THEN 1 ELSE 2]
Directions  == [b \in MCBindings |-> CASE b = button -> "INPUT"
                                       [] b = noDirection -> "UNKNOWN"
                                       [] OTHER -> "OUTPUT"]
=============================================================================
