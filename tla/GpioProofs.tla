----------------------------- MODULE GpioProofs -----------------------------
(***************************************************************************)
(* The sharing of GPIO chips is right for any bindings and any number of   *)
(* chips, as long as the application does not use a binding again whose    *)
(* request failed.                                                         *)
(***************************************************************************)
EXTENDS Gpio, FiniteSetTheorems, TLAPS

\* A binding with a handle has a chip, and one whose request failed keeps the
\* handle.
HandlesValid ==
    \A b \in Bindings : /\ __line_handle[b] # NULL => Valid(b)
                        /\ b \in failed => __line_handle[b] # NULL

GpioInv == TypeOK /\ CountIsOpen /\ OpenHoldsLine /\ HandlesValid

\* Sets of bindings are finite and have a size.
LEMMA OpenSize ==
    ASSUME NEW S \in SUBSET Bindings
    PROVE  IsFiniteSet(S) /\ Cardinality(S) \in Nat /\ (Cardinality(S) = 0 <=> S = {})
  BY GpioAssumption, FS_Subset, FS_CardinalityType, FS_EmptySet

\* With handles h and requested lines r, O are the open bindings, and none of
\* them is on chip c if n is 0.
Shares(O, c, n, h, r) ==
    /\ O \subseteq Bindings
    /\ n = 0 => \A b \in O : chip_number[b] # c
    /\ \A b \in O : h[b] = "line"
    /\ \A l \in r : \E b \in O : l = Line(b)

\* What close_chip does when O are the open bindings, none on chip c if n is 0.
LEMMA CloseChip ==
    ASSUME NEW c \in Chips, NEW n \in Nat,
           NEW h \in [Bindings -> {NULL, "line", "freed"}], NEW r, NEW O,
           close_chip(c, n, h, r),
           Shares(O, c, n, h, r),
           chip \in [Chips -> BOOLEAN]
    PROVE  /\ __line_handle' \in [Bindings -> {NULL, "line", "freed"}]
           /\ \A b \in Bindings : __line_handle'[b] = NULL <=> h[b] = NULL
           /\ \A b \in O : __line_handle'[b] = "line"
           /\ requested' = r
           /\ chip' = [chip EXCEPT ![c] = (n > 0)]
<1>1. CASE n = 0
  <2>1. \A b \in O : b \in Bindings /\ chip_number[b] # c /\ h[b] = "line"
    BY <1>1 DEF Shares
  <2>2. __line_handle' = [b \in Bindings |-> IF chip_number[b] = c /\ h[b] # NULL
                                             THEN "freed" ELSE h[b]]
    BY <1>1 DEF close_chip
  <2>3. requested' = r
    <3>1. requested' = {l \in r : l[1] # c}
      BY <1>1 DEF close_chip
    <3>2. \A l \in r : l[1] # c
      BY <2>1 DEF Shares, Line
    <3> QED
      BY <3>1, <3>2
  <2>4. chip' = [chip EXCEPT ![c] = FALSE]
    BY <1>1 DEF close_chip
  <2>5. (n > 0) = FALSE
    BY <1>1
  <2>6. chip' = [chip EXCEPT ![c] = (n > 0)]
    BY <2>4, <2>5
  <2>7. __line_handle' \in [Bindings -> {NULL, "line", "freed"}]
    BY <2>2
  <2>8. \A b \in Bindings : __line_handle'[b] = NULL <=> h[b] = NULL
    BY <2>2, GpioAssumption
  <2>9. \A b \in O : __line_handle'[b] = "line"
    BY <2>1, <2>2
  <2> QED
    BY <2>3, <2>6, <2>7, <2>8, <2>9
<1>2. CASE n # 0
  <2>1. (n > 0) = TRUE
    BY <1>2
  <2>2. chip' = [chip EXCEPT ![c] = TRUE] /\ __line_handle' = h /\ requested' = r
    BY <1>2 DEF close_chip
  <2>3. chip' = [chip EXCEPT ![c] = (n > 0)]
    BY <2>1, <2>2
  <2>4. \A b \in O : h[b] = "line"
    BY DEF Shares
  <2> QED
    BY <2>2, <2>3, <2>4
<1> QED
  BY <1>1, <1>2

\* The invariant speaks of these variables only.
LEMMA Frame ==
    ASSUME GpioInv, UNCHANGED <<__line_handle, chip, count, requested, failed>>,
           todo' \in Seq(Bindings)
    PROVE  GpioInv'
  BY DEF GpioInv, TypeOK, CountIsOpen, OpenHoldsLine, HandlesValid, Open, OpenOn, Valid

\* How the parts follow when the open bindings become O.
LEMMA Parts ==
    ASSUME NEW O \in SUBSET Bindings, Open' = O,
           chip' \in [Chips -> BOOLEAN], count' \in [Chips -> Int],
           __line_handle' \in [Bindings -> {NULL, "line", "freed"}],
           \A c \in Chips : /\ count'[c] = Cardinality({b \in O : chip_number[b] = c})
                            /\ chip'[c] <=> count'[c] > 0,
           \A b \in O : __line_handle'[b] = "line",
           \A a, b \in O : Line(a) = Line(b) => a = b,
           requested' = {Line(b) : b \in O},
           todo' \in Seq(Bindings), failed' \subseteq Bindings,
           HandlesValid'
    PROVE  GpioInv'
<1>1. \A c \in Chips : OpenOn(c)' = {b \in O : chip_number[b] = c}
  BY DEF OpenOn
<1>2. TypeOK'
  BY DEF TypeOK
<1>3. CountIsOpen'
  BY <1>1 DEF CountIsOpen
<1>4. OpenHoldsLine'
  BY DEF OpenHoldsLine
<1> QED
  BY <1>2, <1>3, <1>4 DEF GpioInv

\* A granted line raises the count of its chip.
LEMMA GrantedInv ==
    ASSUME GpioInv, NEW b \in Bindings, Granted(b), todo' \in Seq(Bindings)
    PROVE  GpioInv'
<1> DEFINE O == Open \cup {b}
           On(c) == {x \in Open : chip_number[x] = c}
<1>1. /\ __line_handle[b] = NULL /\ Valid(b) /\ Line(b) \notin requested
      /\ chip' = [chip EXCEPT ![chip_number[b]] = TRUE]
      /\ __line_handle' = [__line_handle EXCEPT ![b] = "line"]
      /\ requested' = requested \cup {Line(b)}
      /\ count' = [count EXCEPT ![chip_number[b]] = @ + 1]
      /\ failed' = failed
  BY DEF Granted
<1>2. b \notin failed /\ chip_number[b] \in Chips
  BY <1>1 DEF GpioInv, HandlesValid, Valid
<1>3. TypeOK /\ CountIsOpen /\ OpenHoldsLine /\ HandlesValid
  BY DEF GpioInv
<1>4. Open' = O
  BY <1>1, <1>2, <1>3, GpioAssumption DEF Open, TypeOK
<1>5. \A c \in Chips : /\ count'[c] = Cardinality({x \in O : chip_number[x] = c})
                       /\ chip'[c] <=> count'[c] > 0
  <2> TAKE c \in Chips
  <2>1. On(c) \in SUBSET Bindings /\ count[c] = Cardinality(On(c)) /\ (chip[c] <=> count[c] > 0)
    BY <1>3 DEF CountIsOpen, Open, OpenOn
  <2>2. Cardinality(On(c)) \in Nat /\ IsFiniteSet(On(c))
    BY <2>1, OpenSize
  <2>3. CASE c = chip_number[b]
    <3>1. {x \in O : chip_number[x] = c} = On(c) \cup {b}
      BY <2>3
    <3>2. b \notin On(c)
      BY <1>1 DEF Open
    <3>3. Cardinality(On(c) \cup {b}) = count[c] + 1
      BY <2>1, <2>2, <3>2, FS_AddElement
    <3> QED
      <4>1. count'[c] = count[c] + 1 /\ chip'[c] = TRUE
        BY <1>1, <1>3, <2>3 DEF TypeOK
      <4>2. count'[c] > 0
        BY <2>1, <2>2, <4>1
      <4> QED
        BY <3>1, <3>3, <4>1, <4>2
  <2>4. CASE c # chip_number[b]
    <3>1. {x \in O : chip_number[x] = c} = On(c)
      BY <2>4
    <3> QED
      BY <1>1, <1>2, <1>3, <2>1, <2>4, <3>1 DEF TypeOK
  <2> QED
    BY <2>3, <2>4
<1>6. /\ \A x \in O : __line_handle'[x] = "line"
      /\ \A x, y \in O : Line(x) = Line(y) => x = y
      /\ requested' = {Line(x) : x \in O}
  BY <1>1, <1>3 DEF OpenHoldsLine, TypeOK, Open
<1>7. HandlesValid'
  BY <1>1, <1>3, GpioAssumption DEF HandlesValid, TypeOK, Valid
<1>8. /\ chip' \in [Chips -> BOOLEAN] /\ count' \in [Chips -> Int]
      /\ __line_handle' \in [Bindings -> {NULL, "line", "freed"}]
      /\ failed' \subseteq Bindings /\ O \in SUBSET Bindings
  BY <1>1, <1>2, <1>3 DEF TypeOK, Open
<1> QED
  BY <1>4, <1>5, <1>6, <1>7, <1>8, Parts

\* A failure to open leaves the open bindings as they are.
LEMMA NotOpenedInv ==
    ASSUME GpioInv, NEW b \in Bindings, NoLine(b) \/ NotGranted(b), todo' \in Seq(Bindings)
    PROVE  GpioInv'
<1> DEFINE c == chip_number[b]
           n == count[c]
<1>1. TypeOK /\ CountIsOpen /\ OpenHoldsLine /\ HandlesValid
  BY DEF GpioInv
<1>2. __line_handle[b] = NULL /\ Valid(b) /\ count' = count /\ c \in Chips
  BY DEF NoLine, NotGranted, Valid
<1>3. Open \in SUBSET Bindings /\ b \notin Open /\ \A x \in Open : x # b
  BY <1>2 DEF Open
<1>4. \A d \in Chips : /\ count[d] = Cardinality({x \in Open : chip_number[x] = d})
                       /\ chip[d] <=> count[d] > 0
  BY <1>1 DEF CountIsOpen, OpenOn
<1>5. n \in Nat /\ n = Cardinality({x \in Open : chip_number[x] = c})
  BY <1>2, <1>3, <1>4, OpenSize
<1>6. PICK h \in [Bindings -> {NULL, "line", "freed"}] :
        /\ close_chip(c, n, h, requested)
        /\ \A x \in Bindings : x # b => h[x] = __line_handle[x]
        /\ \/ h[b] = NULL /\ failed' = failed
           \/ h[b] = "line" /\ failed' = failed \cup {b}
  <2>1. CASE NoLine(b)
    BY <1>1, <1>2, <2>1 DEF NoLine, TypeOK
  <2>2. CASE NotGranted(b)
    <3> DEFINE g == [__line_handle EXCEPT ![b] = "line"]
    <3>1. g \in [Bindings -> {NULL, "line", "freed"}] /\ g[b] = "line"
          /\ \A x \in Bindings : x # b => g[x] = __line_handle[x]
      BY <1>1 DEF TypeOK
    <3>2. close_chip(c, n, g, requested) /\ failed' = failed \cup {b}
      BY <2>2 DEF NotGranted
    <3> QED
      BY <3>1, <3>2
  <2> QED
    BY <2>1, <2>2
<1>7. /\ \A x \in Open : __line_handle[x] = "line"
      /\ \A x, y \in Open : Line(x) = Line(y) => x = y
      /\ requested = {Line(x) : x \in Open}
  BY <1>1 DEF OpenHoldsLine
<1>8. \A x \in Open : h[x] = "line"
  BY <1>3, <1>6, <1>7
<1>9. /\ __line_handle' \in [Bindings -> {NULL, "line", "freed"}]
      /\ \A x \in Bindings : __line_handle'[x] = NULL <=> h[x] = NULL
      /\ \A x \in Open : __line_handle'[x] = "line"
      /\ requested' = requested
      /\ chip' = [chip EXCEPT ![c] = (n > 0)]
  <2>1. chip \in [Chips -> BOOLEAN]
    BY <1>1 DEF TypeOK
  <2> QED
    <3>1. n = 0 => \A x \in Open : chip_number[x] # c
      <4>1. {x \in Open : chip_number[x] = c} \in SUBSET Bindings
        BY <1>3
      <4>2. n = 0 => {x \in Open : chip_number[x] = c} = {}
        BY <1>5, <4>1, OpenSize
      <4> QED
        BY <4>2
    <3>2. \A l \in requested : \E x \in Open : l = Line(x)
      BY <1>7
    <3>3. c \in Chips /\ n \in Nat /\ Open \in SUBSET Bindings /\ close_chip(c, n, h, requested)
      BY <1>2, <1>3, <1>5, <1>6
    <3>4. Shares(Open, c, n, h, requested)
      BY <1>8, <3>1, <3>2, <3>3 DEF Shares
    <3> HIDE DEF c, n
    <3> QED
      BY <2>1, <3>3, <3>4, CloseChip
<1>10. Open' = Open
  BY <1>2, <1>3, <1>6, <1>9, GpioAssumption DEF Open
<1>11. \A d \in Chips : chip'[d] <=> count'[d] > 0
  BY <1>1, <1>2, <1>4, <1>9 DEF TypeOK
<1>12. HandlesValid'
  BY <1>1, <1>2, <1>6, <1>9, GpioAssumption DEF HandlesValid, Valid
<1>13. /\ chip' \in [Chips -> BOOLEAN] /\ count' \in [Chips -> Int]
       /\ failed' \subseteq Bindings
  BY <1>1, <1>2, <1>6, <1>9 DEF TypeOK
<1> QED
  BY <1>2, <1>3, <1>4, <1>7, <1>9, <1>10, <1>11, <1>12, <1>13, Parts

\* Closing a binding lowers the count, and frees the chip with the last.
LEMMA ClosedInv ==
    ASSUME GpioInv, NEW b \in Bindings, dx_gpioClose(b), Retries = FALSE
    PROVE  GpioInv'
<1> DEFINE c == chip_number[b]
           O == Open \ {b}
           h == [__line_handle EXCEPT ![b] = NULL]
           On(d) == {x \in Open : chip_number[x] = d}
<1>1. TypeOK /\ CountIsOpen /\ OpenHoldsLine /\ HandlesValid
  BY DEF GpioInv
<1>2. /\ __line_handle[b] # NULL /\ b \notin failed
      /\ count' = [count EXCEPT ![c] = @ - 1]
      /\ close_chip(c, count[c] - 1, h, requested \ {Line(b)})
      /\ todo' = todo /\ failed' = failed
  BY DEF dx_gpioClose, Usable
<1>3. b \in Open /\ O \in SUBSET Bindings /\ c \in Chips
  BY <1>1, <1>2 DEF Open, HandlesValid, Valid
<1>4. \A d \in Chips : /\ On(d) \in SUBSET Bindings
                       /\ count[d] = Cardinality(On(d))
                       /\ chip[d] <=> count[d] > 0
  BY <1>1 DEF CountIsOpen, OpenOn, Open
<1>5. Cardinality({x \in O : chip_number[x] = c}) = count[c] - 1
  <2>1. {x \in O : chip_number[x] = c} = On(c) \ {b} /\ b \in On(c)
    BY <1>3
  <2>2. IsFiniteSet(On(c))
    BY <1>3, <1>4, OpenSize
  <2> QED
    <3>1. Cardinality(On(c) \ {b}) = Cardinality(On(c)) - 1
      BY <2>1, <2>2, FS_RemoveElement
    <3>2. count[c] = Cardinality(On(c))
      BY <1>3, <1>4
    <3> QED
      BY <2>1, <3>1, <3>2
<1>6. count[c] - 1 \in Nat
  <2>1. {x \in O : chip_number[x] = c} \in SUBSET Bindings
    BY <1>3
  <2> QED
    BY <1>5, <2>1, OpenSize
<1>7. /\ h \in [Bindings -> {NULL, "line", "freed"}]
      /\ \A x \in O : h[x] = "line"
      /\ \A x, y \in O : Line(x) = Line(y) => x = y
      /\ requested \ {Line(b)} = {Line(x) : x \in O}
  BY <1>1, <1>3 DEF TypeOK, OpenHoldsLine, Open
<1>8. /\ __line_handle' \in [Bindings -> {NULL, "line", "freed"}]
      /\ \A x \in Bindings : __line_handle'[x] = NULL <=> h[x] = NULL
      /\ \A x \in O : __line_handle'[x] = "line"
      /\ requested' = requested \ {Line(b)}
      /\ chip' = [chip EXCEPT ![c] = (count[c] - 1 > 0)]
  <2>1. chip \in [Chips -> BOOLEAN]
    BY <1>1 DEF TypeOK
  <2> QED
    <3>1. count[c] - 1 = 0 => \A x \in O : chip_number[x] # c
      <4>1. {x \in O : chip_number[x] = c} \in SUBSET Bindings
        BY <1>3
      <4>2. count[c] - 1 = 0 => {x \in O : chip_number[x] = c} = {}
        BY <1>5, <4>1, OpenSize
      <4> QED
        BY <4>2
    <3>2. \A l \in requested \ {Line(b)} : \E x \in O : l = Line(x)
      BY <1>7
    <3>3. Shares(O, c, count[c] - 1, h, requested \ {Line(b)})
      BY <1>3, <1>7, <3>1, <3>2 DEF Shares
    <3>4. h \in [Bindings -> {NULL, "line", "freed"}]
      BY <1>7
    <3> HIDE DEF c, h, O
    <3> QED
      BY <1>2, <1>3, <1>6, <2>1, <3>3, <3>4, CloseChip
<1>9. Open' = O
  BY <1>1, <1>2, <1>8 DEF Open, TypeOK
<1>10. \A d \in Chips : /\ count'[d] = Cardinality({x \in O : chip_number[x] = d})
                        /\ chip'[d] <=> count'[d] > 0
  <2> TAKE d \in Chips
  <2>1. CASE d = c
    BY <1>1, <1>2, <1>3, <1>5, <1>8, <2>1 DEF TypeOK
  <2>2. CASE d # c
    <3>1. {x \in O : chip_number[x] = d} = On(d)
      BY <2>2
    <3> QED
      BY <1>1, <1>2, <1>3, <1>4, <1>8, <2>2, <3>1 DEF TypeOK
  <2> QED
    BY <2>1, <2>2
<1>11. HandlesValid'
  BY <1>1, <1>2, <1>8 DEF HandlesValid, Valid, TypeOK
<1>12. /\ chip' \in [Chips -> BOOLEAN] /\ count' \in [Chips -> Int]
       /\ failed' \subseteq Bindings /\ todo' \in Seq(Bindings)
  BY <1>1, <1>2, <1>3, <1>8 DEF TypeOK
<1> QED
  BY <1>3, <1>7, <1>8, <1>9, <1>10, <1>11, <1>12, Parts

LEMMA GpioInvHolds == Retries = FALSE => (Spec => []GpioInv)
<1> SUFFICES ASSUME Retries = FALSE PROVE Spec => []GpioInv
  OBVIOUS
<1>1. Init => GpioInv
  <2> SUFFICES ASSUME Init PROVE GpioInv
    OBVIOUS
  <2>1. Open = {} /\ \A c \in Chips : OpenOn(c) = {}
    BY DEF Init, Open, OpenOn
  <2>2. Cardinality({}) = 0
    BY FS_EmptySet
  <2>3. CountIsOpen
    <3> SUFFICES ASSUME NEW c \in Chips
                 PROVE  count[c] = Cardinality(OpenOn(c)) /\ (chip[c] <=> count[c] > 0)
      BY DEF CountIsOpen
    <3>1. count[c] = 0 /\ chip[c] = FALSE
      BY DEF Init
    <3> QED
      BY <2>1, <2>2, <3>1
  <2>4. OpenHoldsLine
    BY <2>1 DEF Init, OpenHoldsLine
  <2>5. TypeOK /\ HandlesValid
    BY DEF Init, TypeOK, HandlesValid
  <2> QED
    BY <2>3, <2>4, <2>5 DEF GpioInv
<1>2. GpioInv /\ [Next]_vars => GpioInv'
  <2> SUFFICES ASSUME GpioInv, [Next]_vars PROVE GpioInv'
    OBVIOUS
  <2>0. todo \in Seq(Bindings)
    BY DEF GpioInv, TypeOK
  <2>1. ASSUME NEW b \in Bindings, OpenSucceeds(b) \/ OpenFails(b), todo' \in Seq(Bindings)
        PROVE  GpioInv'
    <3>1. CASE AlreadyOpen(b) \/ Refused(b)
      BY <2>1, <3>1, Frame DEF AlreadyOpen, Refused
    <3> QED
      BY <2>1, <3>1, GrantedInv, NotOpenedInv DEF OpenSucceeds, OpenFails
  <2>2. ASSUME NEW b \in Bindings, dx_gpioOpen(b) PROVE GpioInv'
    BY <2>0, <2>1, <2>2 DEF dx_gpioOpen
  <2>3. ASSUME NEW b \in Bindings, dx_gpioClose(b) PROVE GpioInv'
    BY <2>3, ClosedInv
  <2>4. ASSUME NEW s \in Sets, dx_gpioSetOpen(s) PROVE GpioInv'
    <3>1. s \in Seq(Bindings)
      BY GpioAssumption DEF Sets
    <3> QED
      BY <2>4, <3>1, Frame DEF dx_gpioSetOpen
  <2>5. CASE SetOpenStep
    <3>1. Head(todo) \in Bindings /\ todo' \in Seq(Bindings)
      <4>1. todo # <<>> /\ (todo' = Tail(todo) \/ todo' = <<>>)
        BY <2>5 DEF SetOpenStep
      <4>2. Head(todo) \in Bindings /\ Tail(todo) \in Seq(Bindings)
        BY <2>0, <4>1
      <4>3. <<>> \in Seq(Bindings)
        OBVIOUS
      <4> QED
        BY <4>1, <4>2, <4>3
    <3> QED
      BY <2>1, <2>5, <3>1 DEF SetOpenStep
  <2>6. CASE UNCHANGED vars
    BY <2>0, <2>6, Frame DEF vars
  <2> QED
    BY <2>2, <2>3, <2>4, <2>5, <2>6 DEF Next
<1> QED
  BY <1>1, <1>2, PTL DEF Spec

\* For any bindings and chips, gpio_chips[c].count is the number of bindings
\* open on chip c and the chip is open exactly while there are any, whatever
\* opens fail in between.
THEOREM CountCorrect == Retries = FALSE => (Spec => []CountIsOpen)
<1>1. GpioInv => CountIsOpen
  BY DEF GpioInv
<1> QED
  BY <1>1, GpioInvHolds, PTL

\* An open binding keeps its own, requested line until it is closed.
THEOREM LinesCorrect == Retries = FALSE => (Spec => []OpenHoldsLine)
<1>1. GpioInv => OpenHoldsLine
  BY DEF GpioInv
<1> QED
  BY <1>1, GpioInvHolds, PTL
=============================================================================
