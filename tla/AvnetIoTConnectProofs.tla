----------------------- MODULE AvnetIoTConnectProofs -----------------------
(***************************************************************************)
(* The handshake with the IoTConnect platform and the list of gateway      *)
(* children, whatever the ids and tags, the order in which the platform    *)
(* lists the children, and the number of messages under way.               *)
(***************************************************************************)
EXTENDS AvnetIoTConnect, SequenceTheorems, FiniteSetTheorems, WellFoundedInduction, TLAPS

-----------------------------------------------------------------------------
(* The messages and the types of the variables.                             *)

Child == Kids!Child

HelloResponses ==
    [ct : {200}, sid : Sids, dtg : Dtgs, hasD : {"false", "true", "zero", "one"}]
ListResponses   == [ct : {204}, d : Seq(Child)]
AddResponses    == [ct : {221}, s : {0, 8}, d : Child]
DeleteResponses == [ct : {222}, s : {0, 1}, d : [id : Ids]]

Responses ==
    [ct : {0}] \cup HelloResponses \cup ListResponses \cup AddResponses \cup DeleteResponses

TypeInv ==
    /\ avnetConnected \in BOOLEAN
    /\ sidString \in BOOLEAN
    /\ children \in Seq(Child)
    /\ session \in BOOLEAN
    /\ previous_connection_state \in BOOLEAN
    /\ up \in Seq(Requests)
    /\ c2d \in Seq(Responses)
    /\ DOMAIN registered \subseteq Ids
    /\ registered \in [DOMAIN registered -> Tags]

-----------------------------------------------------------------------------
(* The handshake.                                                           *)

\* Is there a hello or a request for the children, or a response to one, under way?
Asks(u)  == \E k \in 1 .. Len(u) : u[k].mt \in {200, 204}
Tells(q) == \E k \in 1 .. Len(q) : q[k].ct \in {200, 204}

\* While no session ends without notice, the state last announced is the session's.
HandshakeInv ==
    faults \cap {"loss", "silent"} = {} =>
        /\ previous_connection_state = session
        /\ session /\ ~avnetConnected /\ "dtg" \notin lacks => Asks(up) \/ Tells(c2d)

-----------------------------------------------------------------------------
(* The list.  What it will be once the responses under way (q) have been    *)
(* handled: a child that a response adds, or that is on the list now, is    *)
(* there unless a later response removes it.                                *)

Lists(list, x, t) == \E k \in 1 .. Len(list) : list[k] = [id |-> x, tg |-> t]
Has(list, x)      == \E k \in 1 .. Len(list) : list[k].id = x
Distinct(list)    == \A j, k \in 1 .. Len(list) : list[j].id = list[k].id => j = k

Adds(m, x, t) == \/ m.ct = 204 /\ Lists(m.d, x, t)
                 \/ m.ct = 221 /\ m.s = 0 /\ m.d = [id |-> x, tg |-> t]
Removes(m, x) == m.ct = 222 /\ m.s = 0 /\ m.d.id = x

\* No response after the i-th and up to the n-th removes x.
Stays(q, x, i, n) == \A j \in i + 1 .. n : ~Removes(q[j], x)

\* Is x on the list, with tag t, after n responses?
Present(list, q, x, t, n) ==
    \/ Lists(list, x, t) /\ Stays(q, x, 0, n)
    \/ \E i \in 1 .. n : Adds(q[i], x, t) /\ Stays(q, x, i, n)

\* A child that a 221 response adds is not there when the response comes.
AddsAreNew(list, q) ==
    \A n \in 1 .. Len(q), x \in Ids, t, u \in Tags :
        q[n].ct = 221 /\ Adds(q[n], x, t) => ~Present(list, q, x, u, n - 1)

DistinctInv ==
    "redelivery" \notin faults =>
        /\ Distinct(children)
        /\ AddsAreNew(children, c2d)
        /\ \A x \in Ids, t \in Tags :
              Present(children, c2d, x, t, Len(c2d)) => x \in DOMAIN registered

\* The device takes itself for connected after this response.
Connects(m) == \/ m.ct = 204
               \/ m.ct = 200 /\ m.dtg = "valid" /\ m.hasD = "false"

\* What the n-th response and those behind it say is the platform's record.
Complete(q, n) ==
    \A x \in DOMAIN registered : \E i \in n .. Len(q) :
        Adds(q[i], x, registered[x]) /\ Stays(q, x, i, Len(q))

ListInv ==
    faults \cap {"edit", "redelivery"} = {} =>
        /\ \A x \in Ids, t \in Tags :
              Present(children, c2d, x, t, Len(c2d)) =>
                  x \in DOMAIN registered /\ registered[x] = t
        /\ avnetConnected =>
              \A x \in DOMAIN registered : Present(children, c2d, x, registered[x], Len(c2d))
        /\ \A n \in 1 .. Len(c2d) : Connects(c2d[n]) => Complete(c2d, n)

-----------------------------------------------------------------------------
(* The operations on the list.                                              *)

\* A set of natural numbers has a least one.
LEMMA LeastNatural ==
    ASSUME NEW T \in SUBSET Nat, T # {}
    PROVE  \E m \in T : \A k \in T : m <= k
<1> DEFINE R == {p \in Nat \X Nat : p[1] < p[2]}
<1>1. IsWellFoundedOn(R, Nat)
  BY NatLessThanWellFounded DEF OpToRel
<1>2. \A k, m \in Nat : k < m => <<k, m>> \in R
  OBVIOUS
<1> HIDE DEF R
<1>3. PICK m \in T : \A k \in T : ~ (<<k, m>> \in R)
  BY <1>1, WFMin, Zenon
<1>4. ASSUME NEW k \in T PROVE m <= k
  <2>1. k \in Nat /\ m \in Nat /\ ~(k < m)
    BY <1>2, <1>3
  <2> QED
    BY <2>1
<1> QED
  BY <1>4

\* Without takes out at most one child, the first with the id.
LEMMA WithoutIs ==
    ASSUME NEW s \in Seq(Child), NEW i
    PROVE  \/ ~Has(s, i) /\ Kids!Without(s, i) = s
           \/ \E m \in 1 .. Len(s) :
                /\ s[m].id = i
                /\ Kids!Without(s, i) \in Seq(Child)
                /\ Len(Kids!Without(s, i)) = Len(s) - 1
                /\ \A k \in 1 .. Len(s) - 1 :
                      Kids!Without(s, i)[k] = IF k < m THEN s[k] ELSE s[k + 1]
<1> DEFINE at == {k \in DOMAIN s : s[k].id = i}
<1>1. DOMAIN s = 1 .. Len(s) /\ Len(s) \in Nat
  OBVIOUS
<1>2. CASE at = {}
  BY <1>1, <1>2 DEF Kids!Without, Has
<1>3. CASE at # {}
  <2>1. at \in SUBSET Nat
    BY <1>1
  <2>2. \E m \in at : \A k \in at : m <= k
    <3> HIDE DEF at
    <3> QED
      BY <1>3, <2>1, LeastNatural
  <2> DEFINE m == CHOOSE x \in at : \A y \in at : x <= y
  <2>3. m \in at
    <3> HIDE DEF at
    <3> QED
      BY <2>2
  <2>4. m \in 1 .. Len(s) /\ s[m].id = i
    BY <1>1, <2>3
  <2>5. Kids!Without(s, i) = SubSeq(s, 1, m - 1) \o SubSeq(s, m + 1, Len(s))
    BY <1>3 DEF Kids!Without, Kids!RemoveAt, Kids!Min
  <2> HIDE DEF m
  <2>6. \A k \in 1 .. Len(s) : s[k] \in Child
    OBVIOUS
  <2>7. /\ SubSeq(s, 1, m - 1) \in Seq(Child)
        /\ Len(SubSeq(s, 1, m - 1)) = m - 1
        /\ \A k \in 1 .. m - 1 : SubSeq(s, 1, m - 1)[k] = s[k]
    BY <1>1, <2>4, <2>6, SubSeqProperties
  <2>8. /\ SubSeq(s, m + 1, Len(s)) \in Seq(Child)
        /\ Len(SubSeq(s, m + 1, Len(s))) = Len(s) - m
        /\ \A k \in 1 .. Len(s) - m : SubSeq(s, m + 1, Len(s))[k] = s[m + k]
    <3>1. m + 1 \in Int /\ Len(s) \in Int /\ \A k \in m + 1 .. Len(s) : s[k] \in Child
      BY <1>1, <2>4, <2>6
    <3>2. /\ SubSeq(s, m + 1, Len(s)) \in Seq(Child)
          /\ Len(SubSeq(s, m + 1, Len(s))) =
                IF m + 1 <= Len(s) THEN Len(s) - (m + 1) + 1 ELSE 0
          /\ \A k \in 1 .. Len(s) - (m + 1) + 1 :
                SubSeq(s, m + 1, Len(s))[k] = s[m + 1 + k - 1]
      BY <3>1, SubSeqProperties
    <3> QED
      BY <1>1, <2>4, <3>2
  <2>9. /\ Kids!Without(s, i) \in Seq(Child)
        /\ Len(Kids!Without(s, i)) = Len(s) - 1
        /\ \A k \in 1 .. Len(s) - 1 :
              Kids!Without(s, i)[k] = IF k <= m - 1 THEN SubSeq(s, 1, m - 1)[k]
                                      ELSE SubSeq(s, m + 1, Len(s))[k - (m - 1)]
    <3> DEFINE a == SubSeq(s, 1, m - 1)
               b == SubSeq(s, m + 1, Len(s))
    <3>1. /\ a \in Seq(Child) /\ b \in Seq(Child)
          /\ Len(a) = m - 1 /\ Len(b) = Len(s) - m
          /\ Kids!Without(s, i) = a \o b
      BY <2>5, <2>7, <2>8
    <3> HIDE DEF a, b
    <3>2. /\ a \o b \in Seq(Child)
          /\ Len(a \o b) = Len(a) + Len(b)
          /\ \A k \in 1 .. Len(a) + Len(b) :
                (a \o b)[k] = IF k <= Len(a) THEN a[k] ELSE b[k - Len(a)]
      BY <3>1, ConcatProperties
    <3>3. Len(a) + Len(b) = Len(s) - 1
      BY <1>1, <2>4, <3>1
    <3> QED
      BY <3>1, <3>2, <3>3 DEF a, b
  <2>10. ASSUME NEW k \in 1 .. Len(s) - 1
         PROVE  Kids!Without(s, i)[k] = IF k < m THEN s[k] ELSE s[k + 1]
    <3>1. CASE k < m
      <4>1. k \in 1 .. m - 1 /\ k <= m - 1
        BY <1>1, <2>4, <3>1
      <4> QED
        BY <2>7, <2>9, <3>1, <4>1
    <3>2. CASE ~(k < m)
      <4>1. k - (m - 1) \in 1 .. Len(s) - m /\ ~(k <= m - 1) /\ m + (k - (m - 1)) = k + 1
        BY <1>1, <2>4, <3>2
      <4> QED
        BY <2>8, <2>9, <3>2, <4>1
    <3> QED
      BY <3>1, <3>2
  <2> QED
    BY <2>4, <2>9, <2>10
<1> QED
  BY <1>2, <1>3

LEMMA WithoutProperties ==
    ASSUME NEW s \in Seq(Child), NEW i
    PROVE  LET w == Kids!Without(s, i) IN
           /\ w \in Seq(Child)
           /\ \A x, t : Lists(w, x, t) => Lists(s, x, t)
           /\ \A x, t : x # i /\ Lists(s, x, t) => Lists(w, x, t)
           /\ \A x : x # i /\ Has(s, x) => Has(w, x)
           /\ Distinct(s) => Distinct(w) /\ ~Has(w, i)
<1> DEFINE w == Kids!Without(s, i)
<1>1. CASE ~Has(s, i) /\ w = s
  BY <1>1
<1>2. ASSUME NEW m \in 1 .. Len(s), s[m].id = i, w \in Seq(Child), Len(w) = Len(s) - 1,
             \A k \in 1 .. Len(s) - 1 : w[k] = IF k < m THEN s[k] ELSE s[k + 1]
      PROVE  /\ \A x, t : Lists(w, x, t) => Lists(s, x, t)
             /\ \A x, t : x # i /\ Lists(s, x, t) => Lists(w, x, t)
             /\ \A x : x # i /\ Has(s, x) => Has(w, x)
             /\ Distinct(s) => Distinct(w) /\ ~Has(w, i)
  <2> HIDE DEF w
  <2>1. ASSUME NEW k \in 1 .. Len(w)
        PROVE  \E j \in 1 .. Len(s) : w[k] = s[j] /\ j # m
    <3>1. k \in 1 .. Len(s) /\ k + 1 \in 1 .. Len(s) /\ k \in 1 .. Len(s) - 1
      BY <1>2
    <3> QED
      BY <1>2, <3>1
  <2>2. ASSUME NEW j \in 1 .. Len(s), j # m
        PROVE  \E k \in 1 .. Len(w) : w[k] = s[j]
    <3>1. CASE j < m
      <4>1. j \in 1 .. Len(s) - 1
        BY <3>1
      <4> QED
        BY <1>2, <3>1, <4>1
    <3>2. CASE j > m
      <4>1. j - 1 \in 1 .. Len(s) - 1 /\ ~(j - 1 < m) /\ (j - 1) + 1 = j
        BY <3>2
      <4> QED
        BY <1>2, <4>1
    <3> QED
      BY <2>2, <3>1, <3>2
  <2>3. ASSUME NEW x, NEW t, Lists(w, x, t) PROVE Lists(s, x, t)
    BY <2>1, <2>3 DEF Lists
  <2>4. ASSUME NEW x, NEW t, x # i, Lists(s, x, t) PROVE Lists(w, x, t)
    <3>1. PICK j \in 1 .. Len(s) : s[j] = [id |-> x, tg |-> t]
      BY <2>4 DEF Lists
    <3>2. j # m
      BY <1>2, <2>4, <3>1
    <3> QED
      BY <2>2, <3>1, <3>2 DEF Lists
  <2>5. ASSUME NEW x, x # i, Has(s, x) PROVE Has(w, x)
    BY <1>2, <2>2, <2>5 DEF Has
  <2>6. ASSUME Distinct(s) PROVE ~Has(w, i)
    BY <1>2, <2>1, <2>6 DEF Has, Distinct
  <2>7. ASSUME Distinct(s), NEW j \in 1 .. Len(w), NEW k \in 1 .. Len(w), w[j].id = w[k].id
        PROVE  j = k
    <3>1. /\ j \in 1 .. Len(s) /\ j + 1 \in 1 .. Len(s)
          /\ k \in 1 .. Len(s) /\ k + 1 \in 1 .. Len(s)
          /\ w[j] = IF j < m THEN s[j] ELSE s[j + 1]
          /\ w[k] = IF k < m THEN s[k] ELSE s[k + 1]
      BY <1>2
    <3> QED
      BY <2>7, <3>1 DEF Distinct
  <2> QED
    BY <2>3, <2>4, <2>5, <2>6, <2>7 DEF Distinct
<1> QED
  BY <1>1, <1>2, WithoutIs

LEMMA AppendLists ==
    ASSUME NEW s \in Seq(Child), NEW c \in Child
    PROVE  LET a == Append(s, c) IN
           /\ a \in Seq(Child)
           /\ \A x, t : Lists(a, x, t) <=> Lists(s, x, t) \/ c = [id |-> x, tg |-> t]
           /\ \A x : Has(a, x) <=> Has(s, x) \/ c.id = x
           /\ Distinct(s) /\ ~Has(s, c.id) => Distinct(a)
<1> DEFINE a == Append(s, c)
<1>1. /\ a \in Seq(Child) /\ Len(a) = Len(s) + 1 /\ Len(s) \in Nat
      /\ \A k \in 1 .. Len(s) : a[k] = s[k]
      /\ a[Len(s) + 1] = c
  BY AppendProperties
<1> HIDE DEF a
<1>2. ASSUME NEW k \in 1 .. Len(a) PROVE k = Len(s) + 1 \/ k \in 1 .. Len(s)
  BY <1>1
<1>3. \A k \in 1 .. Len(s) : k \in 1 .. Len(a)
  BY <1>1
<1>4. Len(s) + 1 \in 1 .. Len(a)
  BY <1>1
<1>5. ASSUME NEW x, NEW t
      PROVE  Lists(a, x, t) <=> Lists(s, x, t) \/ c = [id |-> x, tg |-> t]
  BY <1>1, <1>2, <1>3, <1>4 DEF Lists
<1>6. ASSUME NEW x PROVE Has(a, x) <=> Has(s, x) \/ c.id = x
  BY <1>1, <1>2, <1>3, <1>4 DEF Has
<1>7. ASSUME Distinct(s), ~Has(s, c.id) PROVE Distinct(a)
  <2> SUFFICES ASSUME NEW j \in 1 .. Len(a), NEW k \in 1 .. Len(a), a[j].id = a[k].id
               PROVE  j = k
    BY DEF Distinct
  <2> QED
    BY <1>1, <1>2, <1>7 DEF Distinct, Has
<1> QED
  BY <1>1, <1>5, <1>6, <1>7 DEF a

\* A child replaced is on the list, and no other child leaves it.
LEMMA ReplacedProperties ==
    ASSUME NEW s \in Seq(Child), NEW c \in Child
    PROVE  LET r == Replaced(s, c) IN
           /\ r \in Seq(Child)
           /\ \A x, t : Lists(r, x, t) => Lists(s, x, t) \/ c = [id |-> x, tg |-> t]
           /\ \A x : Has(s, x) \/ x = c.id => Has(r, x)
           /\ Distinct(s) => Distinct(r)
<1> DEFINE w == Kids!Without(s, c.id)
<1>1. /\ w \in Seq(Child)
      /\ \A x, t : Lists(w, x, t) => Lists(s, x, t)
      /\ \A x : x # c.id /\ Has(s, x) => Has(w, x)
      /\ Distinct(s) => Distinct(w) /\ ~Has(w, c.id)
  BY WithoutProperties
<1>2. Replaced(s, c) = Append(w, c)
  BY DEF Replaced
<1> HIDE DEF w
<1>3. /\ Append(w, c) \in Seq(Child)
      /\ \A x, t : Lists(Append(w, c), x, t) <=> Lists(w, x, t) \/ c = [id |-> x, tg |-> t]
      /\ \A x : Has(Append(w, c), x) <=> Has(w, x) \/ c.id = x
      /\ Distinct(w) /\ ~Has(w, c.id) => Distinct(Append(w, c))
  BY <1>1, AppendLists
<1> QED
  BY <1>1, <1>2, <1>3

\* g is the recursive function of AllReplaced.
IsStages(g, list, d) ==
    g = [n \in 0 .. Len(d) |-> IF n = 0 THEN list ELSE Replaced(g[n - 1], d[n])]

\* The recursive function of AllReplaced exists: it is defined on 0 .. n for
\* every n up to the number of children.
LEMMA StagesExist ==
    ASSUME NEW list, NEW d \in Seq(Child)
    PROVE  \E g : IsStages(g, list, d)
<1> DEFINE Good(n, g) == g = [k \in 0 .. n |->
                                 IF k = 0 THEN list ELSE Replaced(g[k - 1], d[k])]
           Missing == {n \in 0 .. Len(d) : ~\E g : Good(n, g)}
<1>1. Len(d) \in Nat
  OBVIOUS
<1>2. ASSUME Missing # {} PROVE FALSE
  <2>1. Missing \in SUBSET Nat
    BY <1>1
  <2>2. PICK m \in Missing : \A k \in Missing : m <= k
    <3> HIDE DEF Missing
    <3> QED
      BY <1>2, <2>1, LeastNatural
  <2>3. m \in 0 .. Len(d) /\ ~\E g : Good(m, g)
    BY <2>2
  <2>4. CASE m = 0
    <3> DEFINE h == [k \in 0 .. 0 |-> list]
    <3>1. Good(0, h)
      OBVIOUS
    <3> QED
      BY <2>3, <2>4, <3>1
  <2>5. CASE m # 0
    <3>1. m - 1 \in 0 .. Len(d) /\ ~(m <= m - 1)
      BY <1>1, <2>3, <2>5
    <3>2. m - 1 \notin Missing
      BY <2>2, <3>1
    <3>3. PICK g : Good(m - 1, g)
      BY <3>1, <3>2
    <3> DEFINE h == [k \in 0 .. m |-> IF k = m THEN Replaced(g[m - 1], d[m]) ELSE g[k]]
    <3>4. ASSUME NEW k \in 0 .. m
          PROVE  h[k] = IF k = 0 THEN list ELSE Replaced(h[k - 1], d[k])
      <4>1. CASE k = m
        <5>1. h[k - 1] = g[k - 1] /\ h[k] = Replaced(g[k - 1], d[k]) /\ k # 0
          BY <1>1, <2>3, <2>5, <4>1
        <5> QED
          BY <5>1
      <4>2. CASE k # m
        <5>1. k \in 0 .. m - 1 /\ h[k] = g[k] /\ (k # 0 => h[k - 1] = g[k - 1])
          BY <1>1, <2>3, <2>5, <4>2
        <5>2. g[k] = IF k = 0 THEN list ELSE Replaced(g[k - 1], d[k])
          BY <3>3, <5>1
        <5> QED
          BY <5>1, <5>2
      <4> QED
        BY <4>1, <4>2
    <3>5. Good(m, h)
      <4>1. h = [k \in 0 .. m |-> h[k]]
        OBVIOUS
      <4> HIDE DEF h
      <4> QED
        BY <3>4, <4>1
    <3> QED
      BY <2>3, <3>5
  <2> QED
    BY <2>4, <2>5
<1>3. Len(d) \notin Missing
  BY <1>2
<1>4. PICK g : Good(Len(d), g)
  BY <1>1, <1>3
<1> QED
  BY <1>4 DEF IsStages

LEMMA AllReplacedIs ==
    ASSUME NEW list, NEW d \in Seq(Child)
    PROVE  \E g : IsStages(g, list, d) /\ AllReplaced(list, d) = g[Len(d)]
<1> DEFINE h == CHOOSE g : IsStages(g, list, d)
<1>1. IsStages(h, list, d)
  BY StagesExist
<1>2. AllReplaced(list, d) = h[Len(d)]
  BY DEF AllReplaced, IsStages
<1> QED
  BY <1>1, <1>2

\* A 204 response puts its children on the list, takes none from it, keeps the
\* ids distinct, and no child is there that was neither on the list nor in the
\* response.
LEMMA AllReplacedProperties ==
    ASSUME NEW list \in Seq(Child), NEW d \in Seq(Child)
    PROVE  LET r == AllReplaced(list, d) IN
           /\ r \in Seq(Child)
           /\ \A x, t : Lists(r, x, t) => Lists(list, x, t) \/ Lists(d, x, t)
           /\ \A x : Has(list, x) \/ Has(d, x) => Has(r, x)
           /\ Distinct(list) => Distinct(r)
<1>1. PICK g : IsStages(g, list, d) /\ AllReplaced(list, d) = g[Len(d)]
  BY AllReplacedIs
<1> DEFINE Good(n) ==
        /\ g[n] \in Seq(Child)
        /\ \A x, t : Lists(g[n], x, t) => Lists(list, x, t) \/ Lists(d, x, t)
        /\ \A x : Has(list, x) => Has(g[n], x)
        /\ \A k \in 1 .. n : Has(g[n], d[k].id)
        /\ Distinct(list) => Distinct(g[n])
<1> DEFINE Bad == {n \in 0 .. Len(d) : ~Good(n)}
<1>2. Len(d) \in Nat
  OBVIOUS
<1>3. g[0] = list
  BY <1>1, <1>2 DEF IsStages
<1>4. ASSUME NEW n \in 1 .. Len(d) PROVE g[n] = Replaced(g[n - 1], d[n])
  BY <1>1, <1>2 DEF IsStages
<1>5. Good(0)
  BY <1>3
<1>6. ASSUME NEW n \in 1 .. Len(d), Good(n - 1) PROVE Good(n)
  <2>1. d[n] \in Child
    BY <1>2
  <2>2. g[n - 1] \in Seq(Child)
    BY <1>6
  <2> DEFINE r == Replaced(g[n - 1], d[n])
  <2>3. /\ r \in Seq(Child)
        /\ \A x, t : Lists(r, x, t) => Lists(g[n - 1], x, t) \/ d[n] = [id |-> x, tg |-> t]
        /\ \A x : Has(g[n - 1], x) \/ x = d[n].id => Has(r, x)
        /\ Distinct(g[n - 1]) => Distinct(r)
    BY <2>1, <2>2, ReplacedProperties
  <2>4. g[n] = r
    BY <1>4
  <2> HIDE DEF r
  <2>5. ASSUME NEW x, NEW t, Lists(g[n], x, t) PROVE Lists(list, x, t) \/ Lists(d, x, t)
    <3>1. Lists(g[n - 1], x, t) \/ d[n] = [id |-> x, tg |-> t]
      BY <2>3, <2>4, <2>5
    <3>2. Lists(g[n - 1], x, t) => Lists(list, x, t) \/ Lists(d, x, t)
      BY <1>6
    <3>3. d[n] = [id |-> x, tg |-> t] => Lists(d, x, t)
      BY DEF Lists
    <3> QED
      BY <3>1, <3>2, <3>3
  <2>6. ASSUME NEW k \in 1 .. n PROVE Has(g[n], d[k].id)
    <3>1. CASE k = n
      BY <2>3, <2>4, <3>1
    <3>2. CASE k # n
      <4>1. k \in 1 .. n - 1
        BY <1>2, <3>2
      <4>2. Has(g[n - 1], d[k].id)
        BY <1>6, <4>1
      <4> QED
        BY <2>3, <2>4, <4>2
    <3> QED
      BY <3>1, <3>2
  <2>7. ASSUME NEW x, Has(list, x) PROVE Has(g[n], x)
    <3>1. Has(g[n - 1], x)
      BY <1>6, <2>7
    <3> QED
      BY <2>3, <2>4, <3>1
  <2>8. Distinct(list) => Distinct(g[n])
    <3>1. Distinct(list) => Distinct(g[n - 1])
      BY <1>6
    <3> QED
      BY <2>3, <2>4, <3>1
  <2> QED
    BY <2>3, <2>4, <2>5, <2>6, <2>7, <2>8
<1> HIDE DEF Good
<1>7. ASSUME Bad # {} PROVE FALSE
  <2>1. Bad \in SUBSET Nat
    BY <1>2
  <2>2. PICK m \in Bad : \A k \in Bad : m <= k
    <3> HIDE DEF Bad
    <3> QED
      BY <1>7, <2>1, LeastNatural
  <2>3. m \in 0 .. Len(d) /\ ~Good(m) /\ m # 0
    BY <1>5, <2>2
  <2>4. m \in 1 .. Len(d) /\ m - 1 \in 0 .. Len(d) /\ ~(m <= m - 1)
    BY <1>2, <2>3
  <2>5. Good(m - 1)
    BY <2>2, <2>4
  <2> QED
    BY <1>6, <2>3, <2>4, <2>5
<1>8. Good(Len(d))
  BY <1>2, <1>7
<1>9. ASSUME NEW x, Has(d, x) PROVE Has(g[Len(d)], x)
  <2>1. PICK k \in 1 .. Len(d) : d[k].id = x
    BY <1>9 DEF Has
  <2> QED
    BY <1>8, <2>1 DEF Good
<1> QED
  BY <1>1, <1>8, <1>9 DEF Good

-----------------------------------------------------------------------------
(* The responses under way.                                                 *)

LEMMA TailOf ==
    ASSUME NEW q \in Seq(Responses), q # <<>>
    PROVE  /\ Head(q) = q[1] /\ Head(q) \in Responses
           /\ Tail(q) \in Seq(Responses)
           /\ Len(Tail(q)) = Len(q) - 1 /\ Len(q) \in Nat \ {0}
           /\ \A j \in 1 .. Len(q) - 1 : Tail(q)[j] = q[j + 1]
  BY HeadTailProperties, EmptySeq

LEMMA StaysTail ==
    ASSUME NEW q \in Seq(Responses), q # <<>>, NEW x,
           NEW n \in 0 .. Len(q) - 1, NEW i \in 0 .. n
    PROVE  Stays(Tail(q), x, i, n) <=> Stays(q, x, i + 1, n + 1)
<1>1. Len(q) \in Nat /\ \A j \in 1 .. Len(q) - 1 : Tail(q)[j] = q[j + 1]
  BY TailOf
<1>2. ASSUME Stays(q, x, i + 1, n + 1), NEW j \in i + 1 .. n PROVE ~Removes(Tail(q)[j], x)
  <2>1. j \in 1 .. Len(q) - 1 /\ j + 1 \in (i + 1) + 1 .. n + 1
    BY <1>1
  <2> QED
    BY <1>1, <1>2, <2>1 DEF Stays
<1>3. ASSUME Stays(Tail(q), x, i, n), NEW j \in (i + 1) + 1 .. n + 1 PROVE ~Removes(q[j], x)
  <2>1. j - 1 \in 1 .. Len(q) - 1 /\ j - 1 \in i + 1 .. n /\ (j - 1) + 1 = j
    BY <1>1
  <2> QED
    BY <1>1, <1>3, <2>1 DEF Stays
<1> QED
  BY <1>2, <1>3 DEF Stays

\* What is on the list after response m.
ListsAfter(list, m, x, t) == \/ Lists(list, x, t) /\ ~Removes(m, x)
                             \/ Adds(m, x, t)

\* What is on the list after the first response and n others.
LEMMA PresentTail ==
    ASSUME NEW list, NEW after, NEW q \in Seq(Responses), q # <<>>, NEW x, NEW t,
           NEW n \in 0 .. Len(q) - 1
    PROVE  /\ Present(after, Tail(q), x, t, n)
              /\ (Lists(after, x, t) => ListsAfter(list, Head(q), x, t))
                  => Present(list, q, x, t, n + 1)
           /\ Present(list, q, x, t, n + 1)
                  => \/ Present(after, Tail(q), x, t, n)
                     \/ ListsAfter(list, Head(q), x, t) /\ Stays(Tail(q), x, 0, n)
<1>0. /\ Len(q) \in Nat /\ Head(q) = q[1]
      /\ \A j \in 1 .. Len(q) - 1 : Tail(q)[j] = q[j + 1]
  BY TailOf
<1>1. Stays(q, x, 0, n + 1) <=> ~Removes(q[1], x) /\ Stays(q, x, 1, n + 1)
  <2>1. ASSUME NEW j \in 1 .. n + 1 PROVE j = 1 \/ j \in 1 + 1 .. n + 1
    BY <1>0
  <2>2. 1 \in 0 + 1 .. n + 1 /\ \A j \in 1 + 1 .. n + 1 : j \in 0 + 1 .. n + 1
    BY <1>0
  <2> QED
    BY <2>1, <2>2 DEF Stays
<1>2. Stays(Tail(q), x, 0, n) <=> Stays(q, x, 1, n + 1)
  <2>1. Stays(Tail(q), x, 0, n) <=> Stays(q, x, 0 + 1, n + 1)
    BY <1>0, StaysTail
  <2> QED
    BY <2>1
<1>3. ASSUME Present(after, Tail(q), x, t, n),
             Lists(after, x, t) => ListsAfter(list, Head(q), x, t)
      PROVE  Present(list, q, x, t, n + 1)
  <2>1. CASE Lists(after, x, t) /\ Stays(Tail(q), x, 0, n)
    <3>1. Stays(q, x, 1, n + 1) /\ 1 \in 1 .. n + 1
      BY <1>0, <1>2, <2>1
    <3> QED
      BY <1>0, <1>1, <1>3, <2>1, <3>1 DEF Present, ListsAfter
  <2>2. ASSUME NEW i \in 1 .. n, Adds(Tail(q)[i], x, t), Stays(Tail(q), x, i, n)
        PROVE  Present(list, q, x, t, n + 1)
    <3>1. i \in 1 .. Len(q) - 1 /\ i \in 0 .. n /\ i + 1 \in 1 .. n + 1
      BY <1>0
    <3>2. Adds(q[i + 1], x, t) /\ Stays(q, x, i + 1, n + 1)
      BY <1>0, <2>2, <3>1, StaysTail
    <3> QED
      BY <3>1, <3>2 DEF Present
  <2> QED
    BY <1>3, <2>1, <2>2 DEF Present
<1>4. ASSUME Present(list, q, x, t, n + 1)
      PROVE  \/ Present(after, Tail(q), x, t, n)
             \/ ListsAfter(list, Head(q), x, t) /\ Stays(Tail(q), x, 0, n)
  <2>1. CASE Lists(list, x, t) /\ Stays(q, x, 0, n + 1)
    BY <1>0, <1>1, <1>2, <2>1 DEF ListsAfter
  <2>2. ASSUME NEW i \in 1 .. n + 1, Adds(q[i], x, t), Stays(q, x, i, n + 1)
        PROVE  \/ Present(after, Tail(q), x, t, n)
               \/ ListsAfter(list, Head(q), x, t) /\ Stays(Tail(q), x, 0, n)
    <3>1. CASE i = 1
      BY <1>0, <1>2, <2>2, <3>1 DEF ListsAfter
    <3>2. CASE i # 1
      <4>1. /\ i - 1 \in 1 .. Len(q) - 1 /\ i - 1 \in 1 .. n /\ i - 1 \in 0 .. n
            /\ (i - 1) + 1 = i
        BY <1>0, <3>2
      <4>2. Adds(Tail(q)[i - 1], x, t) /\ Stays(Tail(q), x, i - 1, n)
        BY <1>0, <2>2, <4>1, StaysTail
      <4> QED
        BY <4>1, <4>2 DEF Present
    <3> QED
      BY <3>1, <3>2
  <2> QED
    BY <1>4, <2>1, <2>2 DEF Present
<1> QED
  BY <1>3, <1>4

LEMMA StaysAppend ==
    ASSUME NEW q \in Seq(Responses), NEW m \in Responses, NEW x, NEW i \in 0 .. Len(q)
    PROVE  Stays(Append(q, m), x, i, Len(q) + 1)
              <=> Stays(q, x, i, Len(q)) /\ ~Removes(m, x)
<1> DEFINE a == Append(q, m)
<1>0. /\ Len(q) \in Nat
      /\ \A j \in 1 .. Len(q) : a[j] = q[j]
      /\ a[Len(q) + 1] = m
  BY AppendProperties
<1> HIDE DEF a
<1>1. ASSUME NEW j \in i + 1 .. Len(q) + 1
      PROVE  \/ j = Len(q) + 1
             \/ j \in i + 1 .. Len(q) /\ a[j] = q[j]
  BY <1>0
<1>2. /\ Len(q) + 1 \in i + 1 .. Len(q) + 1
      /\ \A j \in i + 1 .. Len(q) : j \in i + 1 .. Len(q) + 1 /\ a[j] = q[j]
  BY <1>0
<1>3. Stays(a, x, i, Len(q) + 1) <=> Stays(q, x, i, Len(q)) /\ ~Removes(m, x)
  BY <1>0, <1>1, <1>2 DEF Stays
<1> QED
  BY <1>3 DEF a

\* One more response.
LEMMA PresentAppend ==
    ASSUME NEW list, NEW q \in Seq(Responses), NEW m \in Responses, NEW x, NEW t
    PROVE  /\ \A n \in 0 .. Len(q) :
                 Present(list, Append(q, m), x, t, n) <=> Present(list, q, x, t, n)
           /\ Present(list, Append(q, m), x, t, Len(q) + 1)
                 <=> \/ Adds(m, x, t)
                     \/ Present(list, q, x, t, Len(q)) /\ ~Removes(m, x)
<1> DEFINE a == Append(q, m)
<1>0. /\ Len(q) \in Nat /\ Len(a) = Len(q) + 1
      /\ \A j \in 1 .. Len(q) : a[j] = q[j]
      /\ a[Len(q) + 1] = m
  BY AppendProperties
<1> HIDE DEF a
<1>1. ASSUME NEW n \in 0 .. Len(q), NEW i \in 0 .. n
      PROVE  Stays(a, x, i, n) <=> Stays(q, x, i, n)
  <2>1. ASSUME NEW j \in i + 1 .. n PROVE a[j] = q[j]
    BY <1>0
  <2> QED
    BY <2>1 DEF Stays
<1>2. ASSUME NEW n \in 0 .. Len(q) PROVE Present(list, a, x, t, n) <=> Present(list, q, x, t, n)
  <2>1. ASSUME NEW i \in 1 .. n PROVE a[i] = q[i] /\ i \in 0 .. n
    BY <1>0
  <2>2. 0 \in 0 .. n
    BY <1>0
  <2> QED
    BY <1>1, <2>1, <2>2 DEF Present
<1>3. ASSUME NEW i \in 0 .. Len(q)
      PROVE  Stays(a, x, i, Len(q) + 1) <=> Stays(q, x, i, Len(q)) /\ ~Removes(m, x)
  BY StaysAppend DEF a
<1>4. Present(list, a, x, t, Len(q) + 1)
         <=> \/ Adds(m, x, t)
             \/ Present(list, q, x, t, Len(q)) /\ ~Removes(m, x)
  <2>1. ASSUME Adds(m, x, t) PROVE Present(list, a, x, t, Len(q) + 1)
    <3>1. Len(q) + 1 \in 1 .. Len(q) + 1 /\ Stays(a, x, Len(q) + 1, Len(q) + 1)
      BY <1>0 DEF Stays
    <3> QED
      BY <1>0, <2>1, <3>1 DEF Present
  <2>2. ASSUME Present(list, q, x, t, Len(q)), ~Removes(m, x)
        PROVE  Present(list, a, x, t, Len(q) + 1)
    <3>1. CASE Lists(list, x, t) /\ Stays(q, x, 0, Len(q))
      BY <1>0, <1>3, <2>2, <3>1 DEF Present
    <3>2. ASSUME NEW i \in 1 .. Len(q), Adds(q[i], x, t), Stays(q, x, i, Len(q))
          PROVE  Present(list, a, x, t, Len(q) + 1)
      <4>1. i \in 0 .. Len(q) /\ i \in 1 .. Len(q) + 1 /\ a[i] = q[i]
        BY <1>0
      <4> QED
        BY <1>3, <2>2, <3>2, <4>1 DEF Present
    <3> QED
      BY <2>2, <3>1, <3>2 DEF Present
  <2>3. ASSUME Present(list, a, x, t, Len(q) + 1), ~Adds(m, x, t)
        PROVE  Present(list, q, x, t, Len(q)) /\ ~Removes(m, x)
    <3>1. CASE Lists(list, x, t) /\ Stays(a, x, 0, Len(q) + 1)
      BY <1>0, <1>3, <3>1 DEF Present
    <3>2. ASSUME NEW i \in 1 .. Len(q) + 1, Adds(a[i], x, t), Stays(a, x, i, Len(q) + 1)
          PROVE  Present(list, q, x, t, Len(q)) /\ ~Removes(m, x)
      <4>1. i \in 0 .. Len(q) /\ i \in 1 .. Len(q) /\ a[i] = q[i]
        BY <1>0, <2>3, <3>2
      <4> QED
        BY <1>3, <3>2, <4>1 DEF Present
    <3> QED
      BY <2>3, <3>1, <3>2 DEF Present
  <2> QED
    BY <2>1, <2>2, <2>3
<1> QED
  BY <1>2, <1>4 DEF a

-----------------------------------------------------------------------------
(* What the steps do.                                                       *)

\* Nothing happens to the list, its record and the responses under way.
Quiet ==
    /\ UNCHANGED <<children, c2d, registered, sidString>>
    /\ faults \subseteq faults'
    /\ avnetConnected' \in BOOLEAN /\ (avnetConnected' => avnetConnected)
    /\ session' \in BOOLEAN /\ previous_connection_state' \in BOOLEAN
    /\ up' \in Seq(Requests)

LEMMA RequestTypes ==
    /\ Hello \in Seq(Requests) /\ Asks(Hello)
    /\ <<>> \in Seq(Requests)
    /\ <<[mt |-> 204]>> \in Seq(Requests) /\ Asks(<<[mt |-> 204]>>)
    /\ \A i \in Ids, g \in Tags : <<[mt |-> 221, id |-> i, tg |-> g]>> \in Seq(Requests)
    /\ \A i \in Ids : <<[mt |-> 222, id |-> i]>> \in Seq(Requests)
<1>1. Hello \in Seq(Requests) /\ Asks(Hello)
  BY DEF Hello, Requests, Asks
<1>2. <<[mt |-> 204]>> \in Seq(Requests) /\ Asks(<<[mt |-> 204]>>)
  BY DEF Requests, Asks
<1>3. ASSUME NEW i \in Ids, NEW g \in Tags
      PROVE  <<[mt |-> 221, id |-> i, tg |-> g]>> \in Seq(Requests)
  BY DEF Requests
<1>4. ASSUME NEW i \in Ids PROVE <<[mt |-> 222, id |-> i]>> \in Seq(Requests)
  BY DEF Requests
<1> QED
  BY <1>1, <1>2, <1>3, <1>4

LEMMA AsksConcat ==
    ASSUME NEW u \in Seq(Requests), NEW v \in Seq(Requests), Asks(u) \/ Asks(v)
    PROVE  Asks(u \o v)
<1>1. /\ Len(u \o v) = Len(u) + Len(v)
      /\ Len(u) \in Nat /\ Len(v) \in Nat
      /\ \A i \in 1 .. Len(u) + Len(v) :
            (u \o v)[i] = IF i <= Len(u) THEN u[i] ELSE v[i - Len(u)]
  BY ConcatProperties
<1>2. ASSUME NEW k \in 1 .. Len(u), u[k].mt \in {200, 204} PROVE Asks(u \o v)
  <2>1. k \in 1 .. Len(u \o v) /\ (u \o v)[k] = u[k]
    BY <1>1
  <2> QED
    BY <1>2, <2>1 DEF Asks
<1>3. ASSUME NEW k \in 1 .. Len(v), v[k].mt \in {200, 204} PROVE Asks(u \o v)
  <2>1. /\ Len(u) + k \in 1 .. Len(u \o v) /\ Len(u) + k \in 1 .. Len(u) + Len(v)
        /\ ~(Len(u) + k <= Len(u)) /\ (Len(u) + k) - Len(u) = k
    BY <1>1
  <2>2. (u \o v)[Len(u) + k] = v[k]
    BY <1>1, <2>1
  <2> QED
    BY <1>3, <2>1, <2>2 DEF Asks
<1> QED
  BY <1>2, <1>3 DEF Asks

LEMMA AsksTail ==
    ASSUME NEW u \in Seq(Requests), u # <<>>
    PROVE  /\ Tail(u) \in Seq(Requests)
           /\ Asks(u) => Head(u).mt \in {200, 204} \/ Asks(Tail(u))
<1>1. /\ Tail(u) \in Seq(Requests) /\ Len(Tail(u)) = Len(u) - 1 /\ Len(u) \in Nat
      /\ \A k \in 1 .. Len(Tail(u)) : Tail(u)[k] = u[k + 1]
      /\ Head(u) = u[1]
  BY HeadTailProperties
<1>2. ASSUME NEW k \in 1 .. Len(u), u[k].mt \in {200, 204}, k # 1 PROVE Asks(Tail(u))
  <2>1. k - 1 \in 1 .. Len(Tail(u)) /\ (k - 1) + 1 = k
    BY <1>1, <1>2
  <2>2. Tail(u)[k - 1] = u[k]
    BY <1>1, <2>1
  <2> QED
    BY <1>2, <2>1, <2>2 DEF Asks
<1> QED
  BY <1>1, <1>2 DEF Asks

LEMMA SentType ==
    ASSUME TypeInv, NEW u \in Sent
    PROVE  u \in Seq(Requests)
<1>1. PICK k \in 0 .. Len(up) : u = SubSeq(up, 1, k)
  BY DEF Sent
<1>2. Len(up) \in Nat /\ \A i \in 1 .. Len(up) : up[i] \in Requests
  BY DEF TypeInv
<1>3. k \in Int /\ 1 \in Int /\ \A i \in 1 .. k : up[i] \in Requests
  BY <1>1, <1>2
<1> QED
  BY <1>1, <1>3, SubSeqProperties

\* A publish, with the announcement it may make.
LEMMA AnnounceType ==
    ASSUME TypeInv, NEW s \in BOOLEAN, NEW sent \in Seq(Requests), NEW connected \in BOOLEAN,
           NEW msgs \in Seq(Requests), Announce(s, sent, connected, msgs)
    PROVE  /\ avnetConnected' \in BOOLEAN /\ (avnetConnected' => connected)
           /\ ~Changed(s) => avnetConnected' = connected
           /\ previous_connection_state' = s
           /\ up' \in Seq(Requests)
           /\ Asks(sent) \/ (s /\ Changed(s)) \/ (s /\ Asks(msgs)) => Asks(up')
<1>1. /\ avnetConnected' \in BOOLEAN /\ (avnetConnected' => connected)
      /\ ~Changed(s) => avnetConnected' = connected
      /\ previous_connection_state' = s
  BY DEF Announce, AfterAnnounce
<1> DEFINE a == Announced(s)
           m == IF s THEN msgs ELSE <<>>
<1>2. a \in Seq(Requests) /\ (s /\ Changed(s) => Asks(a))
  BY RequestTypes DEF Announced
<1>3. m \in Seq(Requests) /\ (s /\ Asks(msgs) => Asks(m))
  BY RequestTypes
<1>4. up' = sent \o a \o m
  BY DEF Announce
<1> HIDE DEF a, m
<1>5. sent \o a \in Seq(Requests) /\ (Asks(sent) \/ Asks(a) => Asks(sent \o a))
  BY <1>2, AsksConcat, ConcatProperties
<1>6. up' \in Seq(Requests) /\ (Asks(sent \o a) \/ Asks(m) => Asks(up'))
  BY <1>3, <1>4, <1>5, AsksConcat, ConcatProperties
<1> QED
  BY <1>1, <1>2, <1>3, <1>5, <1>6

LEMMA QuietSteps ==
    ASSUME TypeInv,
           \/ dx_avnetConnect
           \/ \E i \in Ids, t \in Tags : dx_avnetCreateChildOnIoTConnect(i, t)
           \/ \E i \in Ids : dx_avnetDeleteChildOnIoTConnect(i)
           \/ dx_isAzureConnected \/ SessionUp \/ SessionDown \/ SilentDrop \/ Lose
    PROVE  Quiet
<1> USE DEF platformVars, deviceVars
<1>0. /\ session \in BOOLEAN /\ avnetConnected \in BOOLEAN
      /\ previous_connection_state \in BOOLEAN /\ up \in Seq(Requests)
  BY DEF TypeInv
<1>9. <<>> \in Seq(Requests)
  BY RequestTypes
<1>1. CASE dx_avnetConnect
  BY <1>0, <1>1 DEF dx_avnetConnect, Quiet
<1>2. ASSUME NEW i \in Ids, NEW t \in Tags, dx_avnetCreateChildOnIoTConnect(i, t)
      PROVE  Quiet
  <2> DEFINE u == <<[mt |-> 221, id |-> i, tg |-> t]>>
  <2>1. u \in Seq(Requests)
    BY RequestTypes
  <2>2. /\ Announce(session, up, avnetConnected, u)
        /\ UNCHANGED <<sidString, children, session, platformVars, faults>>
    BY <1>2 DEF dx_avnetCreateChildOnIoTConnect, dx_azurePublish
  <2> HIDE DEF u
  <2> QED
    BY <1>0, <2>1, <2>2, AnnounceType DEF Quiet
<1>3. ASSUME NEW i \in Ids, dx_avnetDeleteChildOnIoTConnect(i) PROVE Quiet
  <2> DEFINE u == <<[mt |-> 222, id |-> i]>>
  <2>1. u \in Seq(Requests)
    BY RequestTypes
  <2>2. /\ Announce(session, up, avnetConnected, u)
        /\ UNCHANGED <<sidString, children, session, platformVars, faults>>
    BY <1>3 DEF dx_avnetDeleteChildOnIoTConnect, dx_azurePublish
  <2> HIDE DEF u
  <2> QED
    BY <1>0, <2>1, <2>2, AnnounceType DEF Quiet
<1>4. CASE dx_isAzureConnected
  <2>1. /\ Announce(session, up, avnetConnected, <<>>)
        /\ UNCHANGED <<sidString, children, session, platformVars, faults>>
    BY <1>4 DEF dx_isAzureConnected, dx_azurePublish
  <2> QED
    BY <1>0, <1>9, <2>1, AnnounceType DEF Quiet
<1>5. CASE SessionUp
  <2>1. /\ Announce(TRUE, up, avnetConnected, <<>>)
        /\ UNCHANGED <<sidString, children, platformVars, faults>>
        /\ session' \in BOOLEAN
    BY <1>5 DEF SessionUp
  <2> QED
    BY <1>0, <1>9, <2>1, AnnounceType DEF Quiet
<1>6. CASE SessionDown
  <2>1. /\ UNCHANGED <<sidString, children, platformVars, faults>>
        /\ session' \in BOOLEAN
    BY <1>6 DEF SessionDown
  <2>2. PICK sent \in Sent : Announce(FALSE, sent, avnetConnected, <<>>)
    BY <1>6 DEF SessionDown
  <2>3. sent \in Seq(Requests)
    BY SentType
  <2> QED
    BY <1>0, <1>9, <2>1, <2>2, <2>3, AnnounceType DEF Quiet
<1>7. CASE SilentDrop
  BY <1>0, <1>7, SentType DEF SilentDrop, Fault, Quiet
<1>8. CASE Lose
  BY <1>0, <1>8, AsksTail DEF Lose, Fault, Quiet
<1> QED
  BY <1>1, <1>2, <1>3, <1>4, <1>5, <1>6, <1>7, <1>8

LEMMA HasLists ==
    ASSUME NEW s \in Seq(Child), NEW x
    PROVE  Has(s, x) <=> \E t \in Tags : Lists(s, x, t)
<1>1. ASSUME Has(s, x) PROVE \E t \in Tags : Lists(s, x, t)
  <2>1. PICK k \in 1 .. Len(s) : s[k].id = x
    BY <1>1 DEF Has
  <2>2. s[k] \in Child
    OBVIOUS
  <2>3. s[k] = [id |-> x, tg |-> s[k].tg] /\ s[k].tg \in Tags
    BY <2>1, <2>2 DEF Child, Kids!Child
  <2> QED
    BY <2>3 DEF Lists
<1>2. ASSUME NEW t \in Tags, Lists(s, x, t) PROVE Has(s, x)
  BY <1>2 DEF Lists, Has
<1> QED
  BY <1>1, <1>2

\* A response says what kind of response it is.
LEMMA ResponseKinds ==
    ASSUME NEW m \in Responses
    PROVE  /\ m.ct \in {0, 200, 204, 221, 222}
           /\ m.ct = 200 => m \in HelloResponses
           /\ m.ct = 204 => m.d \in Seq(Child)
           /\ m.ct = 221 => m.s \in {0, 8} /\ m.d \in Child
           /\ m.ct = 222 => m.s \in {0, 1} /\ m.d.id \in Ids
  BY DEF Responses, HelloResponses, ListResponses, AddResponses, DeleteResponses

\* What ReceiveMessageCallback does to the list.
LEMMA ProcessList ==
    ASSUME TypeInv, NEW m \in Responses, Process(m)
    PROVE  /\ children' \in Seq(Child)
           /\ \A x : /\ Has(children, x) /\ ~Removes(m, x) => Has(children', x)
                     /\ \A t : Adds(m, x, t) => Has(children', x)
           /\ Distinct(children) =>
                 \A x, t : Lists(children', x, t) => ListsAfter(children, m, x, t)
           /\ /\ Distinct(children)
              /\ m.ct = 221 => \A x, t : Adds(m, x, t) => ~Has(children, x)
              => Distinct(children')
<1>0. children \in Seq(Child)
  BY DEF TypeInv
<1>1. CASE children' = children /\ ~\E x, t : Adds(m, x, t) \/ Removes(m, x)
  BY <1>0, <1>1 DEF ListsAfter
<1>2. CASE IoTCProcess204Response(m)
  <2>1. m.ct = 204 /\ children' = AllReplaced(children, m.d) /\ m.d \in Seq(Child)
    BY <1>2, ResponseKinds DEF IoTCProcess204Response
  <2>2. /\ children' \in Seq(Child)
        /\ \A x, t : Lists(children', x, t) => Lists(children, x, t) \/ Lists(m.d, x, t)
        /\ \A x : Has(children, x) \/ Has(m.d, x) => Has(children', x)
        /\ Distinct(children) => Distinct(children')
    BY <1>0, <2>1, AllReplacedProperties
  <2>3. ASSUME NEW x, NEW t
        PROVE  ~Removes(m, x) /\ (Adds(m, x, t) <=> Lists(m.d, x, t))
    BY <2>1 DEF Adds, Removes
  <2>4. ASSUME NEW x, NEW t, Lists(m.d, x, t) PROVE Has(m.d, x)
    BY <2>4 DEF Lists, Has
  <2> QED
    BY <2>2, <2>3, <2>4 DEF ListsAfter
<1>3. CASE m.ct = 221 /\ m.s = 0 /\ children' = Append(children, m.d)
  <2>1. m.d \in Child
    BY <1>3, ResponseKinds
  <2>2. /\ children' \in Seq(Child)
        /\ \A x, t : Lists(children', x, t) <=> Lists(children, x, t) \/ m.d = [id |-> x, tg |-> t]
        /\ \A x : Has(children', x) <=> Has(children, x) \/ m.d.id = x
        /\ Distinct(children) /\ ~Has(children, m.d.id) => Distinct(children')
    BY <1>0, <1>3, <2>1, AppendLists
  <2>3. ASSUME NEW x, NEW t
        PROVE  ~Removes(m, x) /\ (Adds(m, x, t) <=> m.d = [id |-> x, tg |-> t])
    BY <1>3 DEF Adds, Removes
  <2>4. m.d = [id |-> m.d.id, tg |-> m.d.tg]
    BY <2>1 DEF Child, Kids!Child
  <2>5. Adds(m, m.d.id, m.d.tg)
    BY <2>3, <2>4
  <2>6. ASSUME NEW x, NEW t, Adds(m, x, t) PROVE Has(children', x)
    <3>1. m.d = [id |-> x, tg |-> t]
      BY <2>3, <2>6
    <3>2. m.d.id = x
      BY <3>1
    <3> QED
      BY <2>2, <3>2
  <2>7. ASSUME NEW x, NEW t, Lists(children', x, t) PROVE ListsAfter(children, m, x, t)
    BY <2>2, <2>3, <2>7 DEF ListsAfter
  <2>8. ASSUME \A x, t : Adds(m, x, t) => ~Has(children, x) PROVE ~Has(children, m.d.id)
    BY <2>5, <2>8
  <2> QED
    BY <1>3, <2>2, <2>6, <2>7, <2>8
<1>4. CASE m.ct = 222 /\ m.s = 0 /\ children' = Kids!Without(children, m.d.id)
  <2>1. /\ children' \in Seq(Child)
        /\ \A x, t : Lists(children', x, t) => Lists(children, x, t)
        /\ \A x : x # m.d.id /\ Has(children, x) => Has(children', x)
        /\ Distinct(children) => Distinct(children') /\ ~Has(children', m.d.id)
    BY <1>0, <1>4, WithoutProperties
  <2>2. ASSUME NEW x, NEW t
        PROVE  ~Adds(m, x, t) /\ (Removes(m, x) <=> x = m.d.id)
    BY <1>4 DEF Adds, Removes
  <2>3. ASSUME NEW x, NEW t, Lists(children', x, t) PROVE Has(children', x)
    BY <2>3 DEF Lists, Has
  <2> QED
    BY <1>4, <2>1, <2>2, <2>3 DEF ListsAfter
<1>5. \/ children' = children /\ ~\E x, t : Adds(m, x, t) \/ Removes(m, x)
      \/ IoTCProcess204Response(m)
      \/ m.ct = 221 /\ m.s = 0 /\ children' = Append(children, m.d)
      \/ m.ct = 222 /\ m.s = 0 /\ children' = Kids!Without(children, m.d.id)
  <2>1. CASE Ignore(m) \/ IoTCProcessHelloResponse(m)
    <3>1. m.ct \notin {204, 221, 222} /\ children' = children
      BY <2>1 DEF Ignore, IoTCProcessHelloResponse
    <3> QED
      BY <3>1 DEF Adds, Removes
  <2>2. CASE IoTCProcess221Response(m) /\ m.s # 0
    <3>1. m.ct = 221 /\ children' = children
      BY <2>2 DEF IoTCProcess221Response
    <3>2. ASSUME NEW x, NEW t PROVE ~Adds(m, x, t) /\ ~Removes(m, x)
      BY <2>2, <3>1 DEF Adds, Removes
    <3> QED
      BY <3>1, <3>2
  <2>3. CASE IoTCProcess222Response(m) /\ m.s # 0
    <3>1. m.ct = 222 /\ children' = children
      BY <2>3 DEF IoTCProcess222Response
    <3>2. ASSUME NEW x, NEW t PROVE ~Adds(m, x, t) /\ ~Removes(m, x)
      BY <2>3, <3>1 DEF Adds, Removes
    <3> QED
      BY <3>1, <3>2
  <2>4. CASE IoTCProcess221Response(m) /\ m.s = 0
    BY <2>4 DEF IoTCProcess221Response
  <2>5. CASE IoTCProcess222Response(m) /\ m.s = 0
    BY <2>5 DEF IoTCProcess222Response
  <2> QED
    BY <2>1, <2>2, <2>3, <2>4, <2>5 DEF Process
<1> QED
  BY <1>1, <1>2, <1>3, <1>4, <1>5

\* What it does to the rest.
LEMMA ProcessRest ==
    ASSUME TypeInv, NEW m \in Responses, Process(m)
    PROVE  /\ UNCHANGED <<session, registered>>
           /\ avnetConnected' \in BOOLEAN
           /\ previous_connection_state' \in BOOLEAN
           /\ up' \in Seq(Requests)
           /\ sidString' = (sidString \/ (m.ct = 200 /\ m.sid))
           /\ avnetConnected' => avnetConnected \/ Connects(m)
<1>0. /\ session \in BOOLEAN /\ avnetConnected \in BOOLEAN /\ sidString \in BOOLEAN
      /\ previous_connection_state \in BOOLEAN /\ up \in Seq(Requests)
  BY DEF TypeInv
<1>1. UNCHANGED <<session, registered>>
  BY DEF Process
<1>2. CASE IoTCProcessHelloResponse(m)
  <2>1. /\ m.ct = 200 /\ m \in HelloResponses
        /\ sidString' = (sidString \/ m.sid)
    BY <1>2, ResponseKinds DEF IoTCProcessHelloResponse
  <2>2. CASE m.dtg = "valid" /\ ~avnetConnected /\ HasDValue(m.hasD)
    <3> DEFINE u == <<[mt |-> 204]>>
    <3>1. Announce(session, up, avnetConnected, u)
      BY <1>2, <2>2 DEF IoTCProcessHelloResponse, dx_azurePublish
    <3>2. u \in Seq(Requests)
      BY RequestTypes
    <3> HIDE DEF u
    <3>3. /\ avnetConnected' \in BOOLEAN /\ (avnetConnected' => avnetConnected)
          /\ previous_connection_state' \in BOOLEAN
          /\ up' \in Seq(Requests)
      BY <1>0, <3>1, <3>2, AnnounceType
    <3> QED
      BY <1>1, <2>1, <2>2, <3>3
  <2>3. CASE ~(m.dtg = "valid" /\ ~avnetConnected /\ HasDValue(m.hasD))
    <3>1. /\ avnetConnected' = HelloConnects(m)
          /\ UNCHANGED <<previous_connection_state, up>>
      BY <1>2, <2>3 DEF IoTCProcessHelloResponse
    <3>2. m.hasD \in {"false", "true", "zero", "one"}
      BY <2>1 DEF HelloResponses
    <3>3. HelloConnects(m) \in BOOLEAN /\ (HelloConnects(m) => avnetConnected \/ Connects(m))
      BY <1>0, <2>1, <3>2 DEF HelloConnects, HasDValue, Connects
    <3> QED
      BY <1>0, <1>1, <2>1, <3>1, <3>3
  <2> QED
    BY <2>2, <2>3
<1>3. CASE \/ Ignore(m) \/ IoTCProcess204Response(m) \/ IoTCProcess221Response(m)
           \/ IoTCProcess222Response(m)
  <2>1. /\ m.ct # 200 /\ UNCHANGED <<sidString, previous_connection_state, up>>
        /\ avnetConnected' \in BOOLEAN /\ (avnetConnected' => avnetConnected \/ m.ct = 204)
    <3>1. CASE Ignore(m)
      BY <1>0, <3>1 DEF Ignore
    <3>2. CASE IoTCProcess204Response(m)
      BY <1>0, <3>2 DEF IoTCProcess204Response
    <3>3. CASE IoTCProcess221Response(m)
      BY <1>0, <3>3 DEF IoTCProcess221Response
    <3>4. CASE IoTCProcess222Response(m)
      BY <1>0, <3>4 DEF IoTCProcess222Response
    <3> QED
      BY <1>3, <3>1, <3>2, <3>3, <3>4
  <2> QED
    BY <1>0, <1>1, <2>1 DEF Connects
<1> QED
  BY <1>2, <1>3 DEF Process

\* The platform lists all its record and nothing else.
LEMMA ListingsAre ==
    ASSUME TypeInv, NEW d \in Listings
    PROVE  /\ d \in Seq(Child)
           /\ \A x \in DOMAIN registered : Lists(d, x, registered[x])
           /\ \A x, t : Lists(d, x, t) => x \in DOMAIN registered /\ t = registered[x]
<1> DEFINE D == DOMAIN registered
           n == Cardinality(D)
<1>1. IsFiniteSet(D) /\ n \in Nat /\ Cardinality(1 .. n) = n /\ IsFiniteSet(1 .. n)
  <2>1. IsFiniteSet(D)
    BY AvnetAssumption, FS_Subset DEF TypeInv
  <2>2. n \in Nat
    BY <2>1, FS_CardinalityType
  <2> QED
    BY <2>1, <2>2, FS_Interval
<1>2. PICK ids \in SetToSeqs(D) :
          d = [k \in DOMAIN ids |-> [id |-> ids[k], tg |-> registered[ids[k]]]]
  BY DEF Listings
<1>3. ids \in [1 .. n -> D] /\ \A i, j \in 1 .. n : i # j => ids[i] # ids[j]
  BY <1>2 DEF SetToSeqs
<1> HIDE DEF n
<1>4. ids \in Injection(1 .. n, D)
  BY <1>3 DEF Injection, IsInjective
<1>5. ids \in Surjection(1 .. n, D)
  BY <1>1, <1>4, FS_Injection DEF n
<1>6. d = [k \in 1 .. n |-> [id |-> ids[k], tg |-> registered[ids[k]]]]
  BY <1>2, <1>3
<1>7. ASSUME NEW k \in 1 .. n
      PROVE  d[k] = [id |-> ids[k], tg |-> registered[ids[k]]] /\ d[k] \in Child
  <2>1. ids[k] \in D /\ ids[k] \in Ids /\ registered[ids[k]] \in Tags
    BY <1>3 DEF TypeInv
  <2> QED
    BY <1>6, <2>1 DEF Child, Kids!Child
<1>8. d \in Seq(Child) /\ Len(d) = n
  BY <1>1, <1>6, <1>7
<1>9. ASSUME NEW x \in D PROVE Lists(d, x, registered[x])
  <2>1. PICK k \in 1 .. n : ids[k] = x
    BY <1>5 DEF Surjection
  <2> QED
    BY <1>7, <1>8, <2>1 DEF Lists
<1>10. ASSUME NEW x, NEW t, Lists(d, x, t) PROVE x \in D /\ t = registered[x]
  <2>1. PICK k \in 1 .. n : d[k] = [id |-> x, tg |-> t]
    BY <1>8, <1>10 DEF Lists
  <2>2. [id |-> ids[k], tg |-> registered[ids[k]]] = [id |-> x, tg |-> t]
    BY <1>7, <2>1
  <2>3. ids[k] = x /\ registered[ids[k]] = t
    BY <2>2
  <2> QED
    BY <1>3, <2>3
<1> QED
  BY <1>8, <1>9, <1>10

\* The platform sends response m, and its record is what m says.
Answers(m) ==
    /\ m \in Responses
    /\ c2d' = Append(c2d, m)
    /\ DOMAIN registered' \subseteq Ids
    /\ registered' \in [DOMAIN registered' -> Tags]
    /\ \A x \in DOMAIN registered :
          ~Removes(m, x) => x \in DOMAIN registered' /\ registered'[x] = registered[x]
    /\ \A x \in DOMAIN registered' :
          \/ x \in DOMAIN registered /\ registered'[x] = registered[x] /\ ~Removes(m, x)
          \/ Adds(m, x, registered'[x])
    /\ \A x, t : Adds(m, x, t) => x \in DOMAIN registered' /\ registered'[x] = t
    /\ \A x, t : m.ct = 221 /\ Adds(m, x, t) => x \notin DOMAIN registered
    /\ Connects(m) => \A x \in DOMAIN registered' : Adds(m, x, registered'[x])

\* A response that changes nothing.
LEMMA AnswersNothing ==
    ASSUME TypeInv, NEW m \in Responses, c2d' = Append(c2d, m), UNCHANGED registered,
           m.ct # 204, ~(m.ct \in {221, 222} /\ m.s = 0),
           Connects(m) => DOMAIN registered = {}
    PROVE  Answers(m)
<1>1. ASSUME NEW x, NEW t PROVE ~Adds(m, x, t) /\ ~Removes(m, x)
  BY DEF Adds, Removes
<1> QED
  BY <1>1 DEF Answers, TypeInv

LEMMA HelloAnswers ==
    ASSUME TypeInv, AnswerHello
    PROVE  \E m : Answers(m)
<1>1. PICK sid \in Sids, dtg \in Dtgs, form \in HasDForms :
          c2d' = Append(c2d, [ct |-> 200, sid |-> sid, dtg |-> dtg, hasD |-> HasD(form)])
  BY DEF AnswerHello, Answer
<1> DEFINE m == [ct |-> 200, sid |-> sid, dtg |-> dtg, hasD |-> HasD(form)]
<1>2. HasD(form) \in {"false", "true", "zero", "one"}
  BY DEF HasD
<1>3. HasD(form) = "false" => DOMAIN registered = {}
  BY DEF HasD
<1>4. m \in Responses
  BY <1>2 DEF Responses, HelloResponses
<1>5. m.ct = 200 /\ (Connects(m) => DOMAIN registered = {})
  BY <1>3 DEF Connects
<1>6. c2d' = Append(c2d, m) /\ UNCHANGED registered
  BY <1>1 DEF AnswerHello
<1> HIDE DEF m
<1> QED
  BY <1>4, <1>5, <1>6, AnswersNothing

LEMMA ChildInfoAnswers ==
    ASSUME TypeInv, AnswerChildInfo
    PROVE  \E m : Answers(m)
<1>1. PICK d \in Listings : c2d' = Append(c2d, [ct |-> 204, d |-> d])
  BY DEF AnswerChildInfo, Answer
<1> DEFINE m == [ct |-> 204, d |-> d]
<1>2. /\ d \in Seq(Child)
      /\ \A x \in DOMAIN registered : Lists(d, x, registered[x])
      /\ \A x, t : Lists(d, x, t) => x \in DOMAIN registered /\ t = registered[x]
  BY ListingsAre
<1>3. m \in Responses /\ m.ct = 204
  BY <1>2 DEF Responses, ListResponses
<1>4. ASSUME NEW x, NEW t PROVE (Adds(m, x, t) <=> Lists(d, x, t)) /\ ~Removes(m, x)
  BY DEF Adds, Removes
<1>5. c2d' = Append(c2d, m) /\ UNCHANGED registered
  BY <1>1 DEF AnswerChildInfo
<1> HIDE DEF m
<1> QED
  BY <1>2, <1>3, <1>4, <1>5 DEF Answers, TypeInv

LEMMA AddAnswers ==
    ASSUME TypeInv, AnswerAdd
    PROVE  \E m : Answers(m)
<1> DEFINE q == Head(up)
<1>1. up \in Seq(Requests) /\ up # <<>> /\ q.mt = 221
  BY DEF AnswerAdd, TypeInv
<1>2. q \in Requests
  BY <1>1
<1>3. q.id \in Ids /\ q.tg \in Tags
  BY <1>1, <1>2 DEF Requests
<1> HIDE DEF q
<1> DEFINE c == [id |-> q.id, tg |-> q.tg]
<1>4. c \in Child
  BY <1>3 DEF Child, Kids!Child
<1>5. CASE q.id \in DOMAIN registered
  <2> DEFINE m == [ct |-> 221, s |-> 8, d |-> c]
  <2>1. c2d' = Append(c2d, m) /\ UNCHANGED registered
    BY <1>5 DEF AnswerAdd, Answer, q
  <2>2. m \in Responses
    BY <1>4 DEF Responses, AddResponses
  <2>3. m.ct = 221 /\ m.s = 8 /\ ~Connects(m)
    BY DEF Connects
  <2> HIDE DEF m
  <2> QED
    BY <2>1, <2>2, <2>3, AnswersNothing
<1>6. CASE q.id \notin DOMAIN registered
  <2> DEFINE m == [ct |-> 221, s |-> 0, d |-> c]
  <2>1. /\ c2d' = Append(c2d, m)
        /\ registered' = [i \in DOMAIN registered \cup {q.id} |->
                             IF i = q.id THEN q.tg ELSE registered[i]]
    BY <1>6 DEF AnswerAdd, Answer, q
  <2>2. m \in Responses
    BY <1>4 DEF Responses, AddResponses
  <2>3. m.ct = 221 /\ ~Connects(m)
    BY DEF Connects
  <2>4. ASSUME NEW x, NEW t
        PROVE  (Adds(m, x, t) <=> x = q.id /\ t = q.tg) /\ ~Removes(m, x)
    BY DEF Adds, Removes
  <2> HIDE DEF m
  <2>5. DOMAIN registered' = DOMAIN registered \cup {q.id}
    BY <2>1
  <2>6. ASSUME NEW x \in DOMAIN registered
        PROVE  x # q.id /\ registered'[x] = registered[x] /\ registered[x] \in Tags
    BY <1>6, <2>1 DEF TypeInv
  <2>7. registered'[q.id] = q.tg
    BY <2>1
  <2>8. registered' \in [DOMAIN registered' -> Tags] /\ DOMAIN registered' \subseteq Ids
    BY <1>3, <2>1, <2>5 DEF TypeInv
  <2> QED
    BY <1>6, <2>1, <2>2, <2>3, <2>4, <2>5, <2>6, <2>7, <2>8 DEF Answers
<1> QED
  BY <1>5, <1>6

LEMMA DeleteAnswers ==
    ASSUME TypeInv, AnswerDelete
    PROVE  \E m : Answers(m)
<1> DEFINE q == Head(up)
<1>1. up \in Seq(Requests) /\ up # <<>> /\ q.mt = 222
  BY DEF AnswerDelete, TypeInv
<1>2. q \in Requests
  BY <1>1
<1>3. q.id \in Ids
  BY <1>1, <1>2 DEF Requests
<1> HIDE DEF q
<1>4. registered' = [i \in DOMAIN registered \ {q.id} |-> registered[i]]
  BY DEF AnswerDelete, q
<1>5. CASE q.id \notin DOMAIN registered
  <2> DEFINE m == [ct |-> 222, s |-> 1, d |-> [id |-> q.id]]
  <2>1. c2d' = Append(c2d, m)
    BY <1>5 DEF AnswerDelete, Answer, q
  <2>2. UNCHANGED registered
    BY <1>4, <1>5 DEF TypeInv
  <2>3. m \in Responses
    BY <1>3 DEF Responses, DeleteResponses
  <2>4. m.ct = 222 /\ m.s = 1 /\ ~Connects(m)
    BY DEF Connects
  <2> HIDE DEF m
  <2> QED
    BY <2>1, <2>2, <2>3, <2>4, AnswersNothing
<1>6. CASE q.id \in DOMAIN registered
  <2> DEFINE m == [ct |-> 222, s |-> 0, d |-> [id |-> q.id]]
  <2>1. c2d' = Append(c2d, m)
    BY <1>6 DEF AnswerDelete, Answer, q
  <2>2. m \in Responses
    BY <1>3 DEF Responses, DeleteResponses
  <2>3. m.ct = 222 /\ ~Connects(m)
    BY DEF Connects
  <2>4. ASSUME NEW x, NEW t PROVE ~Adds(m, x, t) /\ (Removes(m, x) <=> x = q.id)
    BY DEF Adds, Removes
  <2> HIDE DEF m
  <2>5. DOMAIN registered' = DOMAIN registered \ {q.id}
    BY <1>4
  <2>6. ASSUME NEW x \in DOMAIN registered, x # q.id PROVE registered'[x] = registered[x]
    BY <1>4, <2>6
  <2>7. registered' \in [DOMAIN registered' -> Tags] /\ DOMAIN registered' \subseteq Ids
    BY <1>4, <2>5 DEF TypeInv
  <2>8. /\ \A x \in DOMAIN registered :
              ~Removes(m, x) => x \in DOMAIN registered' /\ registered'[x] = registered[x]
        /\ \A x \in DOMAIN registered' :
              x \in DOMAIN registered /\ registered'[x] = registered[x] /\ ~Removes(m, x)
    BY <2>4, <2>5, <2>6
  <2>9. Answers(m)
    BY <2>1, <2>2, <2>3, <2>4, <2>7, <2>8 DEF Answers
  <2> QED
    BY <2>9
<1> QED
  BY <1>5, <1>6

LEMMA AnswerSteps ==
    ASSUME TypeInv, Platform \/ OtherMessage
    PROVE  /\ \E m : Answers(m)
           /\ UNCHANGED deviceVars
           /\ faults \subseteq faults'
           /\ up' \in Seq(Requests)
<1>0. up \in Seq(Requests)
  BY DEF TypeInv
<1>1. CASE Platform
  <2>1. up # <<>> /\ up' = Tail(up) /\ UNCHANGED <<deviceVars, faults>>
    BY <1>1 DEF Platform, AnswerHello, AnswerChildInfo, AnswerAdd, AnswerDelete, Answer
  <2>2. \E m : Answers(m)
    BY <1>1, HelloAnswers, ChildInfoAnswers, AddAnswers, DeleteAnswers DEF Platform
  <2> QED
    BY <1>0, <2>1, <2>2, AsksTail
<1>2. CASE OtherMessage
  <2> DEFINE m == [ct |-> 0]
  <2>1. /\ c2d' = Append(c2d, m) /\ UNCHANGED <<deviceVars, up, registered>>
        /\ faults \subseteq faults'
    BY <1>2 DEF OtherMessage, Fault
  <2>2. m \in Responses /\ m.ct = 0 /\ ~Connects(m)
    BY DEF Responses, Connects
  <2> HIDE DEF m
  <2>3. Answers(m)
    BY <2>1, <2>2, AnswersNothing
  <2> QED
    BY <1>0, <2>1, <2>3
<1> QED
  BY <1>1, <1>2

-----------------------------------------------------------------------------
(* Type correctness.                                                        *)

\* A response is handled: once, or once more because its settlement was lost.
Handles(m) ==
    /\ c2d # <<>> /\ m = Head(c2d) /\ Process(m)
    /\ \/ c2d' = Tail(c2d) /\ faults' = faults
       \/ c2d' = c2d /\ faults' = faults \cup {"redelivery"}

LEMMA Steps ==
    ASSUME TypeInv, [Next]_vars
    PROVE  \/ Quiet
           \/ Restart
           \/ \E m : Handles(m)
           \/ Platform \/ OtherMessage
           \/ Edit
<1>1. CASE UNCHANGED vars
  BY <1>1 DEF vars, deviceVars, platformVars, Quiet, TypeInv
<1>2. CASE ReceiveMessageCallback \/ Redelivery
  BY <1>2 DEF ReceiveMessageCallback, Redelivery, Fault, Handles
<1> QED
  BY <1>1, <1>2, QuietSteps DEF Next

LEMMA HandlesType ==
    ASSUME TypeInv, NEW m, Handles(m)
    PROVE  /\ m \in Responses /\ c2d \in Seq(Responses)
           /\ c2d' \in Seq(Responses)
           /\ Tells(c2d) => m.ct \in {200, 204} \/ Tells(c2d')
<1>1. c2d \in Seq(Responses) /\ c2d # <<>> /\ m = Head(c2d)
  BY DEF TypeInv, Handles
<1>2. /\ m = c2d[1] /\ m \in Responses /\ Tail(c2d) \in Seq(Responses)
      /\ Len(Tail(c2d)) = Len(c2d) - 1 /\ Len(c2d) \in Nat \ {0}
      /\ \A j \in 1 .. Len(c2d) - 1 : Tail(c2d)[j] = c2d[j + 1]
  BY <1>1, TailOf
<1>3. ASSUME NEW k \in 1 .. Len(c2d), c2d[k].ct \in {200, 204}, k # 1 PROVE Tells(Tail(c2d))
  <2>1. k - 1 \in 1 .. Len(c2d) - 1 /\ (k - 1) + 1 = k
    BY <1>2, <1>3
  <2>2. Tail(c2d)[k - 1] = c2d[k]
    BY <1>2, <2>1
  <2> QED
    BY <1>2, <1>3, <2>1, <2>2 DEF Tells
<1>4. c2d' \in {c2d, Tail(c2d)}
  BY DEF Handles
<1>5. Tells(c2d) => m.ct \in {200, 204} \/ Tells(Tail(c2d))
  <2> SUFFICES ASSUME NEW k \in 1 .. Len(c2d), c2d[k].ct \in {200, 204}
               PROVE  m.ct \in {200, 204} \/ Tells(Tail(c2d))
    BY DEF Tells
  <2> QED
    BY <1>2, <1>3
<1> QED
  BY <1>1, <1>2, <1>4, <1>5

LEMMA TypeStep == TypeInv /\ [Next]_vars => TypeInv'
<1> SUFFICES ASSUME TypeInv, [Next]_vars PROVE TypeInv'
  OBVIOUS
<1>1. CASE Quiet
  BY <1>1 DEF Quiet, TypeInv
<1>2. CASE Restart
  <2>1. up' \in Seq(Requests)
    BY <1>2, SentType DEF Restart
  <2>2. UNCHANGED <<c2d, registered>>
    BY <1>2 DEF Restart, platformVars
  <2>3. children' \in Seq(Child)
    BY <1>2 DEF Restart
  <2> QED
    BY <1>2, <2>1, <2>2, <2>3 DEF Restart, TypeInv
<1>3. ASSUME NEW m, Handles(m) PROVE TypeInv'
  <2>1. m \in Responses /\ c2d' \in Seq(Responses)
    BY <1>3, HandlesType
  <2>2. Process(m)
    BY <1>3 DEF Handles
  <2>3. children' \in Seq(Child)
    BY <2>1, <2>2, ProcessList
  <2>4. /\ UNCHANGED <<session, registered>>
        /\ avnetConnected' \in BOOLEAN /\ previous_connection_state' \in BOOLEAN
        /\ up' \in Seq(Requests)
        /\ sidString' = (sidString \/ (m.ct = 200 /\ m.sid))
    BY <2>1, <2>2, ProcessRest
  <2>5. sidString' \in BOOLEAN
    BY <2>4
  <2> QED
    BY <2>1, <2>3, <2>4, <2>5 DEF TypeInv
<1>4. CASE Platform \/ OtherMessage
  <2>1. PICK m : Answers(m)
    BY <1>4, AnswerSteps
  <2>2. UNCHANGED deviceVars /\ up' \in Seq(Requests)
    BY <1>4, AnswerSteps
  <2>3. c2d' \in Seq(Responses)
    BY <2>1, AppendProperties DEF Answers, TypeInv
  <2> QED
    BY <2>1, <2>2, <2>3 DEF Answers, TypeInv, deviceVars
<1>5. CASE Edit
  <2>1. PICK i \in DOMAIN registered, t \in Tags : registered' = [registered EXCEPT ![i] = t]
    BY <1>5 DEF Edit
  <2>2. DOMAIN registered' = DOMAIN registered /\ registered' \in [DOMAIN registered' -> Tags]
    BY <2>1 DEF TypeInv
  <2> QED
    BY <1>5, <2>2 DEF Edit, deviceVars, TypeInv
<1> QED
  BY <1>1, <1>2, <1>3, <1>4, <1>5, Steps

LEMMA TypeCorrect == Spec => []TypeInv
<1>1. Init => TypeInv
  <2> SUFFICES ASSUME Init PROVE TypeInv
    OBVIOUS
  <2>1. PICK known \in SUBSET Ids : registered \in [known -> Tags]
    BY DEF Init
  <2>2. DOMAIN registered \subseteq Ids /\ registered \in [DOMAIN registered -> Tags]
    BY <2>1
  <2>3. children \in Seq(Child) /\ up \in Seq(Requests) /\ c2d \in Seq(Responses)
    BY DEF Init
  <2> QED
    BY <2>2, <2>3 DEF Init, TypeInv
<1> QED
  BY <1>1, TypeStep, PTL DEF Spec

-----------------------------------------------------------------------------
(* The handshake.                                                           *)

\* A step that leaves the session, the flag and the responses alone, and takes no
\* request away.
Idle ==
    /\ UNCHANGED <<session, previous_connection_state, avnetConnected, lacks, c2d>>
    /\ faults \subseteq faults'
    /\ Asks(up) => Asks(up')

\* Publishing while the session is the one announced.
LEMMA PublishIdle ==
    ASSUME TypeInv, previous_connection_state = session, NEW msgs \in Seq(Requests),
           dx_azurePublish(msgs)
    PROVE  /\ UNCHANGED <<previous_connection_state, avnetConnected>>
           /\ Asks(up) \/ (session /\ Asks(msgs)) => Asks(up')
<1>1. /\ session \in BOOLEAN /\ avnetConnected \in BOOLEAN /\ up \in Seq(Requests)
      /\ ~Changed(session) /\ Announce(session, up, avnetConnected, msgs)
  BY DEF TypeInv, Changed, dx_azurePublish
<1> QED
  BY <1>1, AnnounceType

\* A hello or a 204 request that the platform handles becomes its response.
LEMMA PlatformTells ==
    ASSUME TypeInv, Platform
    PROVE  Asks(up) \/ Tells(c2d) => Asks(up') \/ Tells(c2d')
<1>1. PICK m : Answer(m) /\ (Head(up).mt \in {200, 204} => m.ct \in {200, 204})
  <2>1. CASE AnswerHello
    BY <2>1 DEF AnswerHello
  <2>2. CASE AnswerChildInfo
    BY <2>2 DEF AnswerChildInfo
  <2>3. CASE AnswerAdd
    BY <2>3 DEF AnswerAdd
  <2>4. CASE AnswerDelete
    BY <2>4 DEF AnswerDelete
  <2> QED
    BY <2>1, <2>2, <2>3, <2>4 DEF Platform
<1>2. /\ up \in Seq(Requests) /\ up # <<>> /\ up' = Tail(up)
      /\ c2d \in Seq(Responses) /\ c2d' = Append(c2d, m)
  BY <1>1 DEF Answer, TypeInv
<1>3. /\ Len(c2d') = Len(c2d) + 1 /\ Len(c2d) \in Nat
      /\ \A k \in 1 .. Len(c2d) : c2d'[k] = c2d[k]
      /\ c2d'[Len(c2d) + 1] = m
  BY <1>2
<1>4. /\ \A k \in 1 .. Len(c2d) : k \in 1 .. Len(c2d')
      /\ Len(c2d) + 1 \in 1 .. Len(c2d')
  BY <1>3
<1>5. Tells(c2d) \/ m.ct \in {200, 204} => Tells(c2d')
  BY <1>3, <1>4 DEF Tells
<1>6. Asks(up) => Head(up).mt \in {200, 204} \/ Asks(up')
  BY <1>2, AsksTail
<1> QED
  BY <1>1, <1>5, <1>6

LEMMA HandshakeStep == TypeInv /\ HandshakeInv /\ [Next]_vars => HandshakeInv'
<1> SUFFICES ASSUME TypeInv, HandshakeInv, [Next]_vars,
                    faults' \cap {"loss", "silent"} = {}
             PROVE  /\ previous_connection_state' = session'
                    /\ session' /\ ~avnetConnected' /\ "dtg" \notin lacks' =>
                           Asks(up') \/ Tells(c2d')
  BY DEF HandshakeInv
<1> USE DEF platformVars, deviceVars
<1>0. ASSUME faults \subseteq faults'
      PROVE  /\ previous_connection_state = session
             /\ session /\ ~avnetConnected /\ "dtg" \notin lacks => Asks(up) \/ Tells(c2d)
  BY <1>0 DEF HandshakeInv
<1>1. CASE Idle
  BY <1>0, <1>1 DEF Idle, Tells
<1>2. CASE UNCHANGED vars
  BY <1>1, <1>2 DEF vars, Idle
<1>3. CASE dx_avnetConnect
  BY <1>1, <1>3 DEF dx_avnetConnect, Idle
<1>4. ASSUME NEW i \in Ids, NEW t \in Tags, dx_avnetCreateChildOnIoTConnect(i, t) PROVE Idle
  <2> DEFINE u == <<[mt |-> 221, id |-> i, tg |-> t]>>
  <2>1. u \in Seq(Requests)
    BY RequestTypes
  <2>2. dx_azurePublish(u) /\ UNCHANGED <<lacks, session, c2d, faults>>
    BY <1>4 DEF dx_avnetCreateChildOnIoTConnect
  <2> HIDE DEF u
  <2> QED
    BY <1>0, <2>1, <2>2, PublishIdle DEF Idle
<1>5. ASSUME NEW i \in Ids, dx_avnetDeleteChildOnIoTConnect(i) PROVE Idle
  <2> DEFINE u == <<[mt |-> 222, id |-> i]>>
  <2>1. u \in Seq(Requests)
    BY RequestTypes
  <2>2. dx_azurePublish(u) /\ UNCHANGED <<lacks, session, c2d, faults>>
    BY <1>5 DEF dx_avnetDeleteChildOnIoTConnect
  <2> HIDE DEF u
  <2> QED
    BY <1>0, <2>1, <2>2, PublishIdle DEF Idle
<1>6. CASE dx_isAzureConnected
  BY <1>0, <1>6 DEF dx_isAzureConnected, Changed
<1>7. CASE SessionUp
  <2>1. /\ Announce(TRUE, up, avnetConnected, <<>>) /\ session' = TRUE /\ ~session
        /\ faults \subseteq faults'
    BY <1>7 DEF SessionUp
  <2>2. Changed(TRUE)
    BY <1>0, <2>1 DEF Changed
  <2>3. <<>> \in Seq(Requests) /\ up \in Seq(Requests) /\ avnetConnected \in BOOLEAN
    BY RequestTypes DEF TypeInv
  <2>4. previous_connection_state' = TRUE /\ Asks(up')
    BY <2>1, <2>2, <2>3, AnnounceType
  <2> QED
    BY <2>1, <2>4
<1>8. CASE SessionDown
  BY <1>8 DEF SessionDown, Announce
<1>9. CASE SilentDrop \/ Lose
  BY <1>9 DEF SilentDrop, Lose, Fault
<1>10. CASE Restart
  BY <1>10 DEF Restart
<1>11. ASSUME NEW m, Handles(m)
       PROVE  /\ previous_connection_state' = session'
              /\ session' /\ ~avnetConnected' /\ "dtg" \notin lacks' =>
                     Asks(up') \/ Tells(c2d')
  <2>1. /\ m \in Responses
        /\ Tells(c2d) => m.ct \in {200, 204} \/ Tells(c2d')
    BY <1>11, HandlesType
  <2>2. Process(m) /\ faults \subseteq faults' /\ UNCHANGED session
    BY <1>11 DEF Handles, Process
  <2>3. previous_connection_state = session
    BY <1>0, <2>2
  <2>4. CASE IoTCProcessHelloResponse(m)
    <3>1. "dtg" \notin lacks' => m.dtg = "valid"
      BY <2>4 DEF IoTCProcessHelloResponse, Lacks
    <3>2. CASE m.dtg = "valid" /\ ~avnetConnected /\ HasDValue(m.hasD)
      <4> DEFINE u == <<[mt |-> 204]>>
      <4>1. u \in Seq(Requests) /\ Asks(u)
        BY RequestTypes
      <4>2. dx_azurePublish(u)
        BY <2>4, <3>2 DEF IoTCProcessHelloResponse
      <4> HIDE DEF u
      <4>3. UNCHANGED previous_connection_state /\ (session => Asks(up'))
        BY <2>3, <4>1, <4>2, PublishIdle
      <4> QED
        BY <2>2, <2>3, <4>3
    <3>3. CASE ~(m.dtg = "valid" /\ ~avnetConnected /\ HasDValue(m.hasD))
      <4>1. avnetConnected' = HelloConnects(m) /\ UNCHANGED previous_connection_state
        BY <2>4, <3>3 DEF IoTCProcessHelloResponse
      <4>2. m.dtg = "valid" => HelloConnects(m)
        BY <3>3 DEF HelloConnects
      <4> QED
        BY <2>2, <2>3, <3>1, <4>1, <4>2
    <3> QED
      BY <3>2, <3>3
  <2>5. CASE IoTCProcess204Response(m)
    BY <2>2, <2>3, <2>5 DEF IoTCProcess204Response
  <2>6. CASE Ignore(m) \/ IoTCProcess221Response(m) \/ IoTCProcess222Response(m)
    <3>1. /\ m.ct \notin {200, 204}
          /\ UNCHANGED <<avnetConnected, lacks, previous_connection_state, up>>
      BY <2>6 DEF Ignore, IoTCProcess221Response, IoTCProcess222Response
    <3> QED
      BY <1>0, <2>1, <2>2, <2>3, <3>1
  <2> QED
    BY <2>2, <2>4, <2>5, <2>6 DEF Process
<1>12. CASE ReceiveMessageCallback \/ Redelivery
  BY <1>11, <1>12 DEF ReceiveMessageCallback, Redelivery, Fault, Handles
<1>13. CASE Platform
  <2>1. UNCHANGED <<deviceVars, faults>>
    BY <1>13 DEF Platform
  <2> QED
    BY <1>0, <1>13, <2>1, PlatformTells
<1>14. CASE OtherMessage
  <2>1. /\ UNCHANGED <<deviceVars, up>> /\ faults \subseteq faults'
        /\ c2d' = Append(c2d, [ct |-> 0]) /\ c2d \in Seq(Responses)
    BY <1>14 DEF OtherMessage, Fault, TypeInv
  <2>2. \A k \in 1 .. Len(c2d) : k \in 1 .. Len(c2d') /\ c2d'[k] = c2d[k]
    BY <2>1
  <2>3. Tells(c2d) => Tells(c2d')
    BY <2>2 DEF Tells
  <2>4. Asks(up) => Asks(up')
    BY <2>1 DEF Asks
  <2> QED
    BY <1>0, <2>1, <2>3, <2>4
<1>15. CASE Edit
  BY <1>1, <1>15 DEF Edit, Fault, Idle
<1> QED
  BY <1>1, <1>2, <1>3, <1>4, <1>5, <1>6, <1>7, <1>8, <1>9, <1>10, <1>12, <1>13, <1>14, <1>15
     DEF Next

\* The handshake never stops half-way: while a device with a session is not connected
\* to the platform, a hello or a 204 request or a response to one is under way, unless
\* the last hello response had no valid dtg, a message was lost or a session was
\* dropped without notice.  AvnetReconnectCallback asks at the start of a session,
\* because the state last announced is then the opposite, and each response but the
\* last leads to another request: whatever the platform sends, in whatever order
\* responses of earlier sessions, or to a process that was restarted, come in.
THEOREM HandshakeCorrect == Spec => []HandshakeGoesOn
<1>1. Init => HandshakeInv
  BY DEF Init, HandshakeInv
<1>2. TypeInv /\ HandshakeInv => HandshakeGoesOn
  <2> SUFFICES ASSUME TypeInv, HandshakeInv PROVE HandshakeGoesOn
    OBVIOUS
  <2>1. DOMAIN up = 1 .. Len(up) /\ DOMAIN c2d = 1 .. Len(c2d)
    BY DEF TypeInv
  <2>2. Asks(up) => \E k \in DOMAIN up : up[k].mt \in {200, 204}
    BY <2>1 DEF Asks
  <2>3. Tells(c2d) => \E k \in DOMAIN c2d : c2d[k].ct \in {200, 204}
    BY <2>1 DEF Tells
  <2> QED
    BY <2>2, <2>3, Zenon DEF HandshakeInv, HandshakeGoesOn
<1> QED
  BY <1>1, <1>2, HandshakeStep, TypeCorrect, PTL DEF Spec

-----------------------------------------------------------------------------
(* The list of children.                                                    *)

\* The list a restarted process begins with has no child that the old one had
\* not.
LEMMA PresentEmpty ==
    ASSUME NEW list, NEW q, NEW x, NEW t, NEW n, Present(<<>>, q, x, t, n)
    PROVE  Present(list, q, x, t, n)
<1>1. ~Lists(<<>>, x, t)
  BY DEF Lists
<1> QED
  BY <1>1 DEF Present

\* A response handled once leaves no child to come that was not to come before.
LEMMA HandlesPresent ==
    ASSUME TypeInv, NEW m, Handles(m), c2d' = Tail(c2d), Distinct(children),
           NEW x, NEW t, NEW n \in 0 .. Len(c2d) - 1, Present(children', c2d', x, t, n)
    PROVE  Present(children, c2d, x, t, n + 1)
<1>1. c2d \in Seq(Responses) /\ c2d # <<>> /\ m = Head(c2d) /\ Process(m) /\ m \in Responses
  BY HandlesType DEF Handles
<1>2. Lists(children', x, t) => ListsAfter(children, m, x, t)
  BY <1>1, ProcessList
<1> DEFINE after == children'
<1>3. /\ Present(after, Tail(c2d), x, t, n)
      /\ Lists(after, x, t) => ListsAfter(children, Head(c2d), x, t)
  BY <1>1, <1>2
<1> HIDE DEF after
<1> QED
  BY <1>1, <1>3, PresentTail

LEMMA DistinctStep == TypeInv /\ DistinctInv /\ [Next]_vars => DistinctInv'
<1> SUFFICES ASSUME TypeInv, DistinctInv, [Next]_vars, "redelivery" \notin faults'
             PROVE  /\ Distinct(children')
                    /\ AddsAreNew(children', c2d')
                    /\ \A x \in Ids, t \in Tags :
                          Present(children', c2d', x, t, Len(c2d')) => x \in DOMAIN registered'
  BY DEF DistinctInv
<1>0. /\ c2d \in Seq(Responses) /\ Len(c2d) \in Nat /\ children \in Seq(Child)
      /\ "redelivery" \notin faults =>
            /\ Distinct(children)
            /\ AddsAreNew(children, c2d)
            /\ \A x \in Ids, t \in Tags :
                  Present(children, c2d, x, t, Len(c2d)) => x \in DOMAIN registered
  BY DEF TypeInv, DistinctInv
<1>1. CASE Quiet
  BY <1>0, <1>1 DEF Quiet
<1>2. CASE Restart
  <2>1. children' = <<>> /\ UNCHANGED <<c2d, registered>> /\ faults \subseteq faults'
    BY <1>2 DEF Restart, Fault, platformVars
  <2>2. Distinct(<<>>)
    BY DEF Distinct
  <2>3. AddsAreNew(<<>>, c2d)
    BY <1>0, <2>1, PresentEmpty DEF AddsAreNew
  <2> QED
    BY <1>0, <2>1, <2>2, <2>3, PresentEmpty
<1>3. ASSUME NEW m, Handles(m)
      PROVE  /\ Distinct(children')
             /\ AddsAreNew(children', c2d')
             /\ \A x \in Ids, t \in Tags :
                   Present(children', c2d', x, t, Len(c2d')) => x \in DOMAIN registered'
  <2>1. /\ c2d # <<>> /\ m = Head(c2d) /\ Process(m) /\ m \in Responses
        /\ c2d' = Tail(c2d) /\ "redelivery" \notin faults /\ UNCHANGED registered
    BY <1>3, HandlesType DEF Handles, Process
  <2>2. /\ m = c2d[1] /\ c2d' \in Seq(Responses)
        /\ Len(c2d') = Len(c2d) - 1 /\ Len(c2d) \in Nat \ {0}
        /\ \A j \in 1 .. Len(c2d) - 1 : c2d'[j] = c2d[j + 1]
    BY <1>0, <2>1, TailOf
  <2>3. ASSUME m.ct = 221, NEW x, NEW t, Adds(m, x, t) PROVE ~Has(children, x)
    <3>1. m.d \in Child /\ m.d = [id |-> x, tg |-> t]
      BY <2>1, <2>3, ResponseKinds DEF Adds
    <3>2. x \in Ids /\ t \in Tags
      BY <3>1 DEF Child, Kids!Child
    <3>3. 1 \in 1 .. Len(c2d) /\ 1 - 1 = 0
      BY <2>2
    <3>4. ASSUME NEW u \in Tags, Lists(children, x, u) PROVE FALSE
      <4>1. Present(children, c2d, x, u, 0)
        BY <3>4 DEF Present, Stays
      <4>2. ~Present(children, c2d, x, u, 1 - 1)
        BY <1>0, <2>1, <2>2, <2>3, <3>2, <3>3 DEF AddsAreNew
      <4> QED
        BY <3>3, <4>1, <4>2
    <3> QED
      BY <1>0, <3>4, HasLists
  <2>4. Distinct(children')
    BY <1>0, <2>1, <2>3, ProcessList
  <2>5. ASSUME NEW n \in 1 .. Len(c2d'), NEW x \in Ids, NEW t \in Tags, NEW u \in Tags,
               c2d'[n].ct = 221, Adds(c2d'[n], x, t), Present(children', c2d', x, u, n - 1)
        PROVE  FALSE
    <3>1. /\ n - 1 \in 0 .. Len(c2d) - 1 /\ n + 1 \in 1 .. Len(c2d)
          /\ (n - 1) + 1 = n /\ (n + 1) - 1 = n /\ c2d'[n] = c2d[n + 1]
      BY <2>2
    <3>2. Present(children, c2d, x, u, (n - 1) + 1)
      BY <1>0, <1>3, <2>1, <2>5, <3>1, HandlesPresent
    <3>3. ~Present(children, c2d, x, u, (n + 1) - 1)
      BY <1>0, <2>1, <2>5, <3>1 DEF AddsAreNew
    <3> QED
      BY <3>1, <3>2, <3>3
  <2>6. ASSUME NEW x \in Ids, NEW t \in Tags, Present(children', c2d', x, t, Len(c2d'))
        PROVE  x \in DOMAIN registered'
    <3>1. Len(c2d') \in 0 .. Len(c2d) - 1 /\ Len(c2d') + 1 = Len(c2d)
      BY <2>2
    <3>2. Present(children, c2d, x, t, Len(c2d') + 1)
      BY <1>0, <1>3, <2>1, <2>6, <3>1, HandlesPresent
    <3> QED
      BY <1>0, <2>1, <3>1, <3>2
  <2> QED
    BY <2>4, <2>5, <2>6 DEF AddsAreNew
<1>4. CASE Platform \/ OtherMessage
  <2>1. PICK m : Answers(m)
    BY <1>4, AnswerSteps
  <2>2. children' = children /\ "redelivery" \notin faults
    BY <1>4, AnswerSteps DEF deviceVars
  <2>3. m \in Responses /\ c2d' = Append(c2d, m)
    BY <2>1 DEF Answers
  <2>4. /\ Len(c2d') = Len(c2d) + 1
        /\ \A k \in 1 .. Len(c2d) : c2d'[k] = c2d[k]
        /\ c2d'[Len(c2d) + 1] = m
    BY <1>0, <2>3, AppendProperties
  <2>5. ASSUME NEW x, NEW t
        PROVE  /\ \A n \in 0 .. Len(c2d) :
                     Present(children, c2d', x, t, n) <=> Present(children, c2d, x, t, n)
               /\ Present(children, c2d', x, t, Len(c2d) + 1)
                     <=> \/ Adds(m, x, t)
                         \/ Present(children, c2d, x, t, Len(c2d)) /\ ~Removes(m, x)
    BY <1>0, <2>3, PresentAppend
  <2>6. ASSUME NEW n \in 1 .. Len(c2d'), NEW x \in Ids, NEW t \in Tags, NEW u \in Tags,
               c2d'[n].ct = 221, Adds(c2d'[n], x, t), Present(children, c2d', x, u, n - 1)
        PROVE  FALSE
    <3>1. n - 1 \in 0 .. Len(c2d)
      BY <1>0, <2>4
    <3>2. Present(children, c2d, x, u, n - 1)
      BY <2>5, <2>6, <3>1
    <3>3. CASE n \in 1 .. Len(c2d)
      BY <1>0, <2>2, <2>4, <2>6, <3>2, <3>3 DEF AddsAreNew
    <3>4. CASE n = Len(c2d) + 1
      <4>1. n - 1 = Len(c2d) /\ c2d'[n] = m
        BY <1>0, <2>4, <3>4
      <4>2. x \in DOMAIN registered
        BY <1>0, <2>2, <3>2, <4>1
      <4> QED
        BY <2>1, <2>6, <4>1, <4>2 DEF Answers
    <3> QED
      BY <1>0, <2>4, <3>3, <3>4
  <2>7. ASSUME NEW x \in Ids, NEW t \in Tags, Present(children, c2d', x, t, Len(c2d'))
        PROVE  x \in DOMAIN registered'
    <3>1. Adds(m, x, t) \/ (x \in DOMAIN registered /\ ~Removes(m, x))
      BY <1>0, <2>2, <2>4, <2>5, <2>7
    <3> QED
      BY <2>1, <3>1 DEF Answers
  <2> QED
    BY <1>0, <2>2, <2>6, <2>7 DEF AddsAreNew
<1>5. CASE Edit
  <2>1. /\ UNCHANGED <<children, c2d>> /\ faults \subseteq faults'
        /\ DOMAIN registered' = DOMAIN registered
    BY <1>5 DEF Edit, Fault, deviceVars
  <2> QED
    BY <1>0, <2>1
<1> QED
  BY <1>1, <1>2, <1>3, <1>4, <1>5, Steps

LEMMA DistinctInvariant == Spec => []DistinctInv
<1>1. Init => DistinctInv
  <2> SUFFICES ASSUME Init PROVE DistinctInv
    OBVIOUS
  <2>1. children = <<>> /\ c2d = <<>>
    BY DEF Init
  <2>2. ASSUME NEW x, NEW t PROVE ~Present(<<>>, <<>>, x, t, 0)
    BY DEF Present, Lists
  <2>3. Distinct(<<>>) /\ AddsAreNew(<<>>, <<>>)
    BY DEF Distinct, AddsAreNew
  <2> QED
    BY <2>1, <2>2, <2>3 DEF DistinctInv
<1> QED
  BY <1>1, DistinctStep, TypeCorrect, PTL DEF Spec

\* No id is on the list twice, unless a response was delivered twice:
\* IoTCProcess221Response appends without looking for the id, and may, because
\* the platform reports success only for a child that is neither on the list nor
\* put there by a response still under way.
THEOREM ChildrenDistinctCorrect == Spec => []ChildrenDistinct
<1>1. TypeInv /\ DistinctInv => ChildrenDistinct
  <2> SUFFICES ASSUME TypeInv, DistinctInv PROVE ChildrenDistinct
    OBVIOUS
  <2>1. DOMAIN children = 1 .. Len(children)
    BY DEF TypeInv
  <2> QED
    BY <2>1 DEF DistinctInv, Distinct, ChildrenDistinct
<1> QED
  BY <1>1, TypeCorrect, DistinctInvariant, PTL

\* The three parts of ListInv, for what may be the state after a step.
OnRecord(list, q, r) ==
    \A x \in Ids, t \in Tags :
        Present(list, q, x, t, Len(q)) => x \in DOMAIN r /\ r[x] = t
OnList(list, q, r) == \A x \in DOMAIN r : Present(list, q, x, r[x], Len(q))
CompleteFrom(q, r, n) ==
    \A x \in DOMAIN r : \E i \in n .. Len(q) :
        Adds(q[i], x, r[x]) /\ Stays(q, x, i, Len(q))

LEMMA HandlesAgree ==
    ASSUME TypeInv, NEW m, Handles(m), c2d' = Tail(c2d), Distinct(children),
           OnRecord(children, c2d, registered),
           avnetConnected => OnList(children, c2d, registered),
           \A n \in 1 .. Len(c2d) : Connects(c2d[n]) => CompleteFrom(c2d, registered, n)
    PROVE  /\ OnRecord(children', c2d', registered')
           /\ avnetConnected' => OnList(children', c2d', registered')
           /\ \A n \in 1 .. Len(c2d') : Connects(c2d'[n]) => CompleteFrom(c2d', registered', n)
<1>1. /\ c2d \in Seq(Responses) /\ c2d # <<>> /\ m = Head(c2d) /\ Process(m) /\ m \in Responses
      /\ UNCHANGED registered
  BY HandlesType DEF Handles, Process
<1>2. /\ m = c2d[1] /\ c2d' \in Seq(Responses)
      /\ Len(c2d') = Len(c2d) - 1 /\ Len(c2d) \in Nat \ {0}
      /\ \A j \in 1 .. Len(c2d) - 1 : c2d'[j] = c2d[j + 1]
  BY <1>1, TailOf
<1>3. ASSUME NEW x \in Ids, NEW t \in Tags, Present(children', c2d', x, t, Len(c2d'))
      PROVE  x \in DOMAIN registered /\ registered[x] = t
  <2>1. Len(c2d') \in 0 .. Len(c2d) - 1 /\ Len(c2d') + 1 = Len(c2d)
    BY <1>2
  <2>2. Present(children, c2d, x, t, Len(c2d') + 1)
    BY <1>3, <2>1, HandlesPresent
  <2> QED
    BY <2>1, <2>2 DEF OnRecord
<1>4. ASSUME avnetConnected', NEW x \in DOMAIN registered
      PROVE  Present(children', c2d', x, registered[x], Len(c2d'))
  <2> DEFINE t == registered[x]
  <2>1. avnetConnected \/ Connects(m)
    BY <1>1, <1>4, ProcessRest
  <2>2. Present(children, c2d, x, t, Len(c2d))
    <3>1. CASE avnetConnected
      BY <3>1 DEF OnList
    <3>2. CASE Connects(m)
      <4>1. 1 \in 1 .. Len(c2d)
        BY <1>2
      <4>2. CompleteFrom(c2d, registered, 1)
        BY <1>2, <3>2, <4>1
      <4> QED
        BY <4>2 DEF CompleteFrom, Present
    <3> QED
      BY <2>1, <3>1, <3>2
  <2>3. x \in Ids
    BY DEF TypeInv
  <2> HIDE DEF t
  <2> DEFINE after == children'
             n == Len(c2d')
  <2>4. n \in 0 .. Len(c2d) - 1 /\ n + 1 = Len(c2d)
    BY <1>2
  <2>5. \/ Present(after, Tail(c2d), x, t, n)
        \/ ListsAfter(children, Head(c2d), x, t) /\ Stays(Tail(c2d), x, 0, n)
    <3> HIDE DEF after, n
    <3>1. Present(children, c2d, x, t, n + 1)
      BY <2>2, <2>4
    <3> QED
      BY <1>1, <2>4, <3>1, PresentTail
  <2>6. CASE ListsAfter(children, m, x, t) /\ Stays(c2d', x, 0, n)
    <3>1. Has(children', x)
      <4>1. CASE Adds(m, x, t)
        BY <1>1, <4>1, ProcessList
      <4>2. CASE Lists(children, x, t) /\ ~Removes(m, x)
        <5>1. Has(children, x)
          BY <4>2 DEF Lists, Has
        <5> QED
          BY <1>1, <4>2, <5>1, ProcessList
      <4> QED
        BY <2>6, <4>1, <4>2 DEF ListsAfter
    <3>2. children' \in Seq(Child)
      BY <1>1, ProcessList
    <3>3. PICK u \in Tags : Lists(children', x, u)
      BY <3>1, <3>2, HasLists
    <3>4. Present(children', c2d', x, u, n)
      BY <2>6, <3>3 DEF Present
    <3>5. registered[x] = u
      BY <1>3, <2>3, <3>4
    <3> QED
      BY <3>4, <3>5
  <2> QED
    BY <1>1, <2>5, <2>6 DEF t
<1>5. ASSUME NEW n \in 1 .. Len(c2d'), Connects(c2d'[n]), NEW x \in DOMAIN registered
      PROVE  \E i \in n .. Len(c2d') :
                Adds(c2d'[i], x, registered[x]) /\ Stays(c2d', x, i, Len(c2d'))
  <2>1. n + 1 \in 1 .. Len(c2d) /\ c2d'[n] = c2d[n + 1]
    BY <1>2
  <2>2. CompleteFrom(c2d, registered, n + 1)
    BY <1>5, <2>1
  <2>3. PICK i \in n + 1 .. Len(c2d) :
             Adds(c2d[i], x, registered[x]) /\ Stays(c2d, x, i, Len(c2d))
    BY <2>2 DEF CompleteFrom
  <2> DEFINE l == Len(c2d) - 1
  <2>4. /\ i - 1 \in n .. Len(c2d') /\ i - 1 \in 0 .. l /\ i - 1 \in 1 .. Len(c2d) - 1
        /\ l \in 0 .. Len(c2d) - 1 /\ (i - 1) + 1 = i /\ l + 1 = Len(c2d) /\ l = Len(c2d')
    BY <1>2
  <2> HIDE DEF l
  <2>5. Stays(Tail(c2d), x, i - 1, l) <=> Stays(c2d, x, (i - 1) + 1, l + 1)
    BY <1>1, <2>4, StaysTail
  <2>6. Adds(c2d'[i - 1], x, registered[x]) /\ Stays(c2d', x, i - 1, Len(c2d'))
    BY <1>2, <2>3, <2>4, <2>5
  <2> QED
    BY <2>4, <2>6
<1> QED
  BY <1>1, <1>3, <1>4, <1>5 DEF OnRecord, OnList, CompleteFrom

LEMMA AnswersAgree ==
    ASSUME TypeInv, NEW m, Answers(m), UNCHANGED <<children, avnetConnected>>,
           OnRecord(children, c2d, registered),
           avnetConnected => OnList(children, c2d, registered),
           \A n \in 1 .. Len(c2d) : Connects(c2d[n]) => CompleteFrom(c2d, registered, n)
    PROVE  /\ OnRecord(children', c2d', registered')
           /\ avnetConnected' => OnList(children', c2d', registered')
           /\ \A n \in 1 .. Len(c2d') : Connects(c2d'[n]) => CompleteFrom(c2d', registered', n)
<1>1. /\ m \in Responses /\ c2d' = Append(c2d, m) /\ c2d \in Seq(Responses)
      /\ Len(c2d) \in Nat
  BY DEF Answers, TypeInv
<1>2. /\ Len(c2d') = Len(c2d) + 1
      /\ \A k \in 1 .. Len(c2d) : c2d'[k] = c2d[k]
      /\ c2d'[Len(c2d) + 1] = m
  BY <1>1, AppendProperties
<1>3. ASSUME NEW x, NEW t
      PROVE  Present(children, c2d', x, t, Len(c2d'))
                <=> \/ Adds(m, x, t)
                    \/ Present(children, c2d, x, t, Len(c2d)) /\ ~Removes(m, x)
  BY <1>1, <1>2, PresentAppend
<1>4. ASSUME NEW x \in Ids, NEW t \in Tags, Present(children, c2d', x, t, Len(c2d'))
      PROVE  x \in DOMAIN registered' /\ registered'[x] = t
  <2>1. CASE Adds(m, x, t)
    BY <2>1 DEF Answers
  <2>2. CASE Present(children, c2d, x, t, Len(c2d)) /\ ~Removes(m, x)
    <3>1. x \in DOMAIN registered /\ registered[x] = t
      BY <2>2 DEF OnRecord
    <3> QED
      BY <2>2, <3>1 DEF Answers
  <2> QED
    BY <1>3, <1>4, <2>1, <2>2
<1>5. ASSUME NEW x \in DOMAIN registered'
      PROVE  \/ /\ x \in DOMAIN registered /\ registered'[x] = registered[x]
                /\ ~Removes(m, x)
             \/ Adds(m, x, registered'[x])
  BY DEF Answers
<1>6. ASSUME avnetConnected, NEW x \in DOMAIN registered'
      PROVE  Present(children, c2d', x, registered'[x], Len(c2d'))
  BY <1>3, <1>5, <1>6 DEF OnList
<1>7. ASSUME NEW n \in 1 .. Len(c2d'), Connects(c2d'[n]), NEW x \in DOMAIN registered'
      PROVE  \E i \in n .. Len(c2d') :
                Adds(c2d'[i], x, registered'[x]) /\ Stays(c2d', x, i, Len(c2d'))
  <2>1. CASE Adds(m, x, registered'[x])
    <3>1. Len(c2d') \in n .. Len(c2d') /\ c2d'[Len(c2d')] = m
      BY <1>1, <1>2
    <3>2. Stays(c2d', x, Len(c2d'), Len(c2d'))
      BY <1>1, <1>2 DEF Stays
    <3> QED
      BY <2>1, <3>1, <3>2
  <2>2. CASE ~Adds(m, x, registered'[x])
    <3>1. x \in DOMAIN registered /\ registered'[x] = registered[x] /\ ~Removes(m, x)
      BY <1>5, <2>2
    <3>2. n # Len(c2d) + 1
      BY <1>2, <1>7, <2>2 DEF Answers
    <3>3. n \in 1 .. Len(c2d) /\ c2d'[n] = c2d[n]
      BY <1>1, <1>2, <3>2
    <3>4. PICK i \in n .. Len(c2d) :
               Adds(c2d[i], x, registered[x]) /\ Stays(c2d, x, i, Len(c2d))
      BY <1>7, <3>1, <3>3 DEF CompleteFrom
    <3>5. /\ i \in 0 .. Len(c2d) /\ i \in 1 .. Len(c2d) /\ i \in n .. Len(c2d')
          /\ c2d'[i] = c2d[i]
      BY <1>1, <1>2, <3>3
    <3>6. Stays(Append(c2d, m), x, i, Len(c2d) + 1)
      BY <1>1, <3>1, <3>4, <3>5, StaysAppend
    <3>7. Adds(c2d'[i], x, registered'[x]) /\ Stays(c2d', x, i, Len(c2d'))
      BY <1>1, <1>2, <3>1, <3>4, <3>5, <3>6
    <3> QED
      BY <3>5, <3>7
  <2> QED
    BY <2>1, <2>2
<1> QED
  BY <1>4, <1>6, <1>7 DEF OnRecord, OnList, CompleteFrom

LEMMA ListStep == TypeInv /\ DistinctInv /\ ListInv /\ [Next]_vars => ListInv'
<1> DEFINE Good(list, q, r, connected) ==
              /\ OnRecord(list, q, r)
              /\ connected => OnList(list, q, r)
              /\ \A n \in 1 .. Len(q) : Connects(q[n]) => CompleteFrom(q, r, n)
<1> SUFFICES ASSUME TypeInv, DistinctInv, ListInv, [Next]_vars,
                    faults' \cap {"edit", "redelivery"} = {}
             PROVE  Good(children', c2d', registered', avnetConnected')
  BY DEF ListInv, Complete, OnRecord, OnList, CompleteFrom
<1>0. faults \cap {"edit", "redelivery"} = {} =>
          Good(children, c2d, registered, avnetConnected) /\ Distinct(children)
  BY DEF ListInv, DistinctInv, Complete, OnRecord, OnList, CompleteFrom
<1>1. CASE Quiet
  <2>1. /\ UNCHANGED <<children, c2d, registered>> /\ faults \subseteq faults'
        /\ avnetConnected' => avnetConnected
    BY <1>1 DEF Quiet
  <2> QED
    BY <1>0, <2>1
<1>2. CASE Restart
  <2>1. /\ children' = <<>> /\ UNCHANGED <<c2d, registered>> /\ avnetConnected' = FALSE
        /\ faults \subseteq faults'
    BY <1>2 DEF Restart, Fault, platformVars
  <2>2. OnRecord(<<>>, c2d, registered)
    BY <1>0, <2>1, PresentEmpty DEF OnRecord
  <2> QED
    BY <1>0, <2>1, <2>2
<1>3. ASSUME NEW m, Handles(m) PROVE Good(children', c2d', registered', avnetConnected')
  <2>1. c2d' = Tail(c2d) /\ faults' = faults
    BY <1>3 DEF Handles
  <2>2. Good(children, c2d, registered, avnetConnected) /\ Distinct(children)
    BY <1>0, <2>1
  <2> QED
    BY <1>3, <2>1, <2>2, HandlesAgree
<1>4. CASE Platform \/ OtherMessage
  <2>1. PICK m : Answers(m)
    BY <1>4, AnswerSteps
  <2>2. UNCHANGED <<children, avnetConnected>> /\ faults \subseteq faults'
    BY <1>4, AnswerSteps DEF deviceVars
  <2>3. Good(children, c2d, registered, avnetConnected)
    BY <1>0, <2>2
  <2> QED
    BY <2>1, <2>2, <2>3, AnswersAgree
<1>5. CASE Edit
  BY <1>5 DEF Edit, Fault
<1> QED
  BY <1>1, <1>2, <1>3, <1>4, <1>5, Steps

\* Once nothing is under way, a device that takes itself for connected has on its
\* list the children of the platform's record, with their tags, if the record was
\* changed only at its own request and every response was delivered once: however
\* additions, deletions, lists of children, reconnects and restarts interleave,
\* handling the responses still under way turns the list into the record.
THEOREM ListAgreesCorrect == Spec => []ListAgrees
<1>1. Init => ListInv
  <2> SUFFICES ASSUME Init PROVE ListInv
    OBVIOUS
  <2>1. children = <<>> /\ c2d = <<>> /\ avnetConnected = FALSE
    BY DEF Init
  <2>2. ASSUME NEW x, NEW t PROVE ~Present(<<>>, <<>>, x, t, 0)
    BY DEF Present, Lists
  <2> QED
    BY <2>1, <2>2 DEF ListInv
<1>2. TypeInv /\ ListInv => ListAgrees
  <2> SUFFICES ASSUME TypeInv, ListInv, avnetConnected, c2d = <<>>,
                      faults \cap {"edit", "redelivery"} = {}
               PROVE  ToSet(children) = {[id |-> i, tg |-> registered[i]] : i \in DOMAIN registered}
    BY DEF ListAgrees
  <2>1. Len(c2d) = 0 /\ children \in Seq(Child) /\ DOMAIN children = 1 .. Len(children)
    BY DEF TypeInv
  <2>2. ASSUME NEW x, NEW t PROVE Present(children, c2d, x, t, Len(c2d)) <=> Lists(children, x, t)
    BY <2>1 DEF Present, Stays
  <2>3. ASSUME NEW k \in 1 .. Len(children)
        PROVE  \E i \in DOMAIN registered : children[k] = [id |-> i, tg |-> registered[i]]
    <3>1. children[k] \in Child
      BY <2>1
    <3>2. PICK x \in Ids, t \in Tags : children[k] = [id |-> x, tg |-> t]
      BY <3>1 DEF Child, Kids!Child
    <3>3. Lists(children, x, t)
      BY <3>2 DEF Lists
    <3>4. x \in DOMAIN registered /\ registered[x] = t
      BY <2>2, <3>3 DEF ListInv
    <3> QED
      BY <3>2, <3>4
  <2>4. ASSUME NEW i \in DOMAIN registered
        PROVE  \E k \in 1 .. Len(children) : children[k] = [id |-> i, tg |-> registered[i]]
    <3>1. Lists(children, i, registered[i])
      BY <2>2 DEF ListInv
    <3> QED
      BY <3>1 DEF Lists
  <2> DEFINE record == {[id |-> i, tg |-> registered[i]] : i \in DOMAIN registered}
  <2>5. ToSet(children) = {children[k] : k \in 1 .. Len(children)}
    BY <2>1 DEF ToSet
  <2>6. ASSUME NEW c \in record PROVE c \in ToSet(children)
    BY <2>4, <2>5
  <2>7. ASSUME NEW c \in ToSet(children) PROVE c \in record
    BY <2>3, <2>5
  <2>8. ToSet(children) \subseteq record /\ record \subseteq ToSet(children)
    BY <2>6, <2>7, Zenon
  <2> HIDE DEF record
  <2>9. ToSet(children) = record
    BY <2>8
  <2> QED
    BY <2>9 DEF record
<1> QED
  BY <1>1, <1>2, ListStep, TypeCorrect, DistinctInvariant, PTL DEF Spec
=============================================================================
