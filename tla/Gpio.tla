-------------------------------- MODULE Gpio --------------------------------
(***************************************************************************)
(* dx_gpio.c: bindings to GPIO lines, and the count by which the bindings  *)
(* of a chip share its handle.  libgpiod is external: closing a chip frees *)
(* the lines obtained from it, and a line can be requested only once.      *)
(***************************************************************************)
EXTENDS Integers, Sequences, FiniteSets

CONSTANTS
    Bindings,
    chip_number, line_number, direction,    \* the fields of each binding
    MAX_CHIP_NUMBER,
    Retries,        \* does the application use a binding whose request failed?
    MaxSet,         \* bound on the bindings given to dx_gpioSetOpen
    NULL

ASSUME GpioAssumption ==
    /\ IsFiniteSet(Bindings)
    /\ chip_number \in [Bindings -> Int] /\ line_number \in [Bindings -> Int]
    /\ direction \in [Bindings -> {"UNKNOWN", "INPUT", "OUTPUT"}]
    /\ MAX_CHIP_NUMBER \in Nat /\ MaxSet \in Nat
    /\ Retries \in BOOLEAN
    /\ NULL \notin {"line", "freed"}

Chips == 0 .. MAX_CHIP_NUMBER - 1

VARIABLES
    __line_handle,  \* of each binding: NULL, a line, or memory already freed
    chip,           \* is gpio_chips[c].chip open (not NULL)?
    count,          \* gpio_chips[c].count
    requested,      \* libgpiod: the lines requested and not released
    todo,           \* the bindings dx_gpioSetOpen has still to open
    failed          \* the application: bindings whose request failed

vars == <<__line_handle, chip, count, requested, todo, failed>>

-----------------------------------------------------------------------------
Line(b) == <<chip_number[b], line_number[b]>>

Valid(b) ==
    /\ direction[b] # "UNKNOWN"
    /\ chip_number[b] \in Chips
    /\ line_number[b] >= 0

\* Mutant: the chip of a line that is closed stays open.
Bug_close_chip(c, n, h, r) ==
    /\ chip' = [chip EXCEPT ![c] = TRUE]
    /\ __line_handle' = h
    /\ requested' = r

\* close_chip when the count is n, the handles are h and the requested lines r:
\* gpiod_chip_close also frees the lines of the chip.
close_chip(c, n, h, r) ==
    IF n = 0
    THEN /\ chip' = [chip EXCEPT ![c] = FALSE]
         /\ __line_handle' = [b \in Bindings |-> IF chip_number[b] = c /\ h[b] # NULL
                                                 THEN "freed" ELSE h[b]]
         /\ requested' = {l \in r : l[1] # c}
    ELSE /\ chip' = [chip EXCEPT ![c] = TRUE]
         /\ __line_handle' = h
         /\ requested' = r

-----------------------------------------------------------------------------
(* dx_gpioOpen, by its returns.                                             *)

AlreadyOpen(b) ==
    /\ __line_handle[b] # NULL
    /\ UNCHANGED <<__line_handle, chip, count, requested, failed>>

\* Mutant: the count is not raised.
BugGranted(b) ==
    /\ __line_handle[b] = NULL /\ Valid(b)
    /\ Line(b) \notin requested
    /\ chip' = [chip EXCEPT ![chip_number[b]] = TRUE]
    /\ __line_handle' = [__line_handle EXCEPT ![b] = "line"]
    /\ requested' = requested \cup {Line(b)}
    /\ UNCHANGED <<count, failed>>

Granted(b) ==
    /\ __line_handle[b] = NULL /\ Valid(b)
    /\ Line(b) \notin requested
    /\ chip' = [chip EXCEPT ![chip_number[b]] = TRUE]
    /\ __line_handle' = [__line_handle EXCEPT ![b] = "line"]
    /\ requested' = requested \cup {Line(b)}
    /\ count' = [count EXCEPT ![chip_number[b]] = @ + 1]
    /\ UNCHANGED failed

\* A binding without direction, chip or line, or a chip that does not open.
Refused(b) ==
    /\ __line_handle[b] = NULL
    /\ IF Valid(b) THEN ~chip[chip_number[b]] ELSE TRUE
    /\ UNCHANGED <<__line_handle, chip, count, requested, failed>>

\* gpiod_chip_get_line fails.
NoLine(b) ==
    /\ __line_handle[b] = NULL /\ Valid(b)
    /\ close_chip(chip_number[b], count[chip_number[b]], __line_handle, requested)
    /\ UNCHANGED <<count, failed>>

\* gpiod_line_request_input or _output fails: the handle stays set.
NotGranted(b) ==
    /\ __line_handle[b] = NULL /\ Valid(b)
    /\ close_chip(chip_number[b], count[chip_number[b]],
                  [__line_handle EXCEPT ![b] = "line"], requested)
    /\ failed' = failed \cup {b}
    /\ UNCHANGED count

OpenSucceeds(b) == AlreadyOpen(b) \/ Granted(b)
OpenFails(b)    == Refused(b) \/ NoLine(b) \/ NotGranted(b)

Usable(b) == Retries \/ b \notin failed

dx_gpioOpen(b) ==
    /\ todo = <<>> /\ Usable(b)
    /\ OpenSucceeds(b) \/ OpenFails(b)
    /\ UNCHANGED todo

dx_gpioClose(b) ==
    /\ todo = <<>> /\ Usable(b)
    /\ __line_handle[b] # NULL
    /\ LET c == chip_number[b] IN
       /\ count' = [count EXCEPT ![c] = @ - 1]
       /\ close_chip(c, count[c] - 1, [__line_handle EXCEPT ![b] = NULL],
                     requested \ {Line(b)})
    /\ UNCHANGED <<todo, failed>>

\* dx_gpioSetOpen opens its bindings in order and stops at the first that fails.
dx_gpioSetOpen(bindings) ==
    /\ todo = <<>>
    /\ \A k \in DOMAIN bindings : Usable(bindings[k])
    /\ todo' = bindings
    /\ UNCHANGED <<__line_handle, chip, count, requested, failed>>

SetOpenStep ==
    /\ todo # <<>>
    /\ \/ OpenSucceeds(Head(todo)) /\ todo' = Tail(todo)
       \/ OpenFails(Head(todo)) /\ todo' = <<>>

-----------------------------------------------------------------------------
Init ==
    /\ __line_handle = [b \in Bindings |-> NULL]
    /\ chip = [c \in Chips |-> FALSE]
    /\ count = [c \in Chips |-> 0]
    /\ requested = {}
    /\ todo = <<>>
    /\ failed = {}

Sets == UNION {[1 .. n -> Bindings] : n \in 1 .. MaxSet}

Next ==
    \/ \E b \in Bindings : dx_gpioOpen(b) \/ dx_gpioClose(b)
    \/ \E s \in Sets : dx_gpioSetOpen(s)
    \/ SetOpenStep

Spec == Init /\ [][Next]_vars

-----------------------------------------------------------------------------
\* The bindings that were granted their line and have not been closed.
Open == {b \in Bindings \ failed : __line_handle[b] # NULL}
OpenOn(c) == {b \in Open : chip_number[b] = c}

\* The fields of the bindings and of gpio_chips have their types.
TypeOK ==
    /\ __line_handle \in [Bindings -> {NULL, "line", "freed"}]
    /\ chip \in [Chips -> BOOLEAN]
    /\ count \in [Chips -> Int]
    /\ requested \subseteq {Line(b) : b \in Bindings}
    /\ todo \in Seq(Bindings)
    /\ failed \subseteq Bindings

\* The count of a chip is the number of its open bindings, and the chip is open
\* while there are any: no open binding loses its chip when another is closed
\* or fails to open, and no chip stays open for nobody.
CountIsOpen ==
    \A c \in Chips : count[c] = Cardinality(OpenOn(c)) /\ (chip[c] <=> count[c] > 0)

\* An open binding's handle is its line, requested, and no other open binding
\* has it: neither is lost when other bindings are closed or fail to open.
OpenHoldsLine ==
    /\ \A b \in Open : __line_handle[b] = "line" /\ Line(b) \in requested
    /\ \A a, b \in Open : Line(a) = Line(b) => a = b
    /\ requested = {Line(b) : b \in Open}

=============================================================================
