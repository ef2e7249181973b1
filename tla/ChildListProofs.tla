-------------------------- MODULE ChildListProofs --------------------------
(***************************************************************************)
(* The linked list of gateway children is well formed, whatever the nodes, *)
(* ids and tags.  NoLeak is the part that needs the other two: a set of    *)
(* nodes that is closed after a step gives one that was closed before it.  *)
(***************************************************************************)
EXTENDS ChildList, SequenceTheorems, FiniteSetTheorems, WellFoundedInduction, TLAPS

ListInv == TypeOK /\ DoublyLinked /\ NoLeak

\* NoLeak, said without Listed: only the whole heap is closed.
LEMMA NoLeakMeans ==
    NoLeak <=> \A S \in SUBSET Allocated : Closed(S) => S = Allocated
  BY DEF NoLeak, Listed

\* The same after a step.
LEMMA NoLeakMeansNext ==
    NoLeak' <=> \A S \in SUBSET Allocated' : Closed(S)' => S = Allocated'
  BY DEF NoLeak, Listed

\* What Closed says after a step.
LEMMA ClosedNext ==
    ASSUME NEW S, Closed(S)'
    PROVE  /\ gwChildrenListHead' # NULL => gwChildrenListHead' \in S
           /\ \A n \in S : heap'[n].next # NULL => heap'[n].next \in S
  BY DEF Closed

\* The pointers of a well formed list.
LEMMA Pointers ==
    ASSUME ListInv
    PROVE  /\ NULL \notin Allocated /\ Allocated \subseteq Nodes
           /\ gwChildrenListHead \in Allocated \cup {NULL}
           /\ \A n \in Allocated : /\ heap[n].next \in Allocated \cup {NULL}
                                   /\ heap[n].prev \in Allocated \cup {NULL}
                                   /\ heap[n].id \in Ids
                                   /\ heap[n].tg \in Tags
                                   /\ heap[n].next # NULL => heap[heap[n].next].prev = n
                                   /\ heap[n].prev # NULL => heap[heap[n].prev].next = n
                                   /\ heap[n].prev = NULL => gwChildrenListHead = n
           /\ gwChildrenListHead # NULL => heap[gwChildrenListHead].prev = NULL
<1>1. \A n \in Allocated : heap[n] \in gw_child_list_node_t
  BY DEF ListInv, TypeOK
<1>2. NULL \notin Allocated /\ Allocated \subseteq Nodes
  BY NodesAssumption DEF ListInv, TypeOK
<1> QED
  BY <1>1, <1>2 DEF ListInv, DoublyLinked, gw_child_list_node_t

\* A first node makes a well formed list.
LEMMA InsertFirstInv ==
    ASSUME ListInv, NEW i \in Ids, NEW t \in Tags, NEW n \in Nodes \ Allocated,
           InsertFirst(n, i, t)
    PROVE  ListInv'
<1>1. Allocated = {}
  <2>1. Closed({})
    BY DEF Closed, InsertFirst
  <2> QED
    BY <2>1, NoLeakMeans DEF ListInv
<1>2. heap' = [m \in {n} |-> [next |-> NULL, prev |-> NULL, id |-> i, tg |-> t]]
  BY <1>1 DEF InsertFirst, IoTCListGetNewNode
<1>3. Allocated' = {n} /\ heap'[n] = [next |-> NULL, prev |-> NULL, id |-> i, tg |-> t]
  BY <1>2 DEF Allocated
<1>4. TypeOK'
  BY <1>2, <1>3 DEF InsertFirst, TypeOK, gw_child_list_node_t
<1>5. DoublyLinked'
  BY <1>3, NodesAssumption DEF InsertFirst, DoublyLinked
<1>6. NoLeak'
  BY <1>3, NodesAssumption, NoLeakMeansNext DEF InsertFirst, Closed
<1> QED
  BY <1>4, <1>5, <1>6 DEF ListInv

\* So does a node behind the last one: a set closed after it, without the new
\* node, was closed before it.
LEMMA InsertBehindInv ==
    ASSUME ListInv, NEW i \in Ids, NEW t \in Tags, NEW n \in Nodes \ Allocated,
           NEW last \in Allocated, InsertBehind(last, n, i, t)
    PROVE  ListInv'
<1>0. last # n /\ n # NULL /\ heap \in [Allocated -> gw_child_list_node_t]
  BY NodesAssumption DEF ListInv, TypeOK
<1>1. Allocated' = Allocated \cup {n}
  BY DEF InsertBehind, Allocated, IoTCListGetNewNode
<1>2. heap'[n] = [next |-> NULL, prev |-> last, id |-> i, tg |-> t]
  BY <1>0 DEF InsertBehind, IoTCListGetNewNode
<1>3. heap'[last] = [heap[last] EXCEPT !.next = n]
  BY <1>0 DEF InsertBehind, IoTCListGetNewNode
<1>4. \A m \in Allocated : m # last => heap'[m] = heap[m]
  BY <1>0 DEF InsertBehind, IoTCListGetNewNode
<1>10. heap[last].next = NULL /\ gwChildrenListHead' = gwChildrenListHead
  BY DEF InsertBehind
<1>5. heap[last] \in gw_child_list_node_t
  BY <1>0
<1>6. /\ heap'[last].next = n
      /\ heap'[last].prev = heap[last].prev
      /\ heap'[n].next = NULL
      /\ heap'[n].prev = last
  BY <1>2, <1>3, <1>5 DEF gw_child_list_node_t
<1>7. TypeOK'
  <2>1. \A m \in Allocated' : heap'[m] \in gw_child_list_node_t
    <3> TAKE m \in Allocated'
    <3>1. CASE m = n
      BY <3>1, <1>2, Pointers DEF gw_child_list_node_t
    <3>2. CASE m = last
      BY <3>2, <1>3, <1>5 DEF gw_child_list_node_t
    <3>3. CASE m # n /\ m # last
      BY <3>3, <1>0, <1>1, <1>4
    <3> QED
      BY <3>1, <3>2, <3>3
  <2>2. heap' \in [DOMAIN heap' -> gw_child_list_node_t]
    <3>2. heap' = [m \in DOMAIN heap' |-> heap'[m]]
      BY DEF InsertBehind, IoTCListGetNewNode
    <3> QED
      BY <2>1, <3>2 DEF Allocated
  <2> QED
    BY <1>1, <1>10, <2>2, Pointers DEF TypeOK, Allocated
<1>8. DoublyLinked'
  <2>1. gwChildrenListHead' # NULL => /\ gwChildrenListHead' \in Allocated'
                                      /\ heap'[gwChildrenListHead'].prev = NULL
    BY <1>1, <1>4, <1>10, <1>6, Pointers
  <2>2. ASSUME NEW m \in Allocated'
        PROVE  /\ heap'[m].next # NULL => /\ heap'[m].next \in Allocated'
                                          /\ heap'[heap'[m].next].prev = m
               /\ heap'[m].prev # NULL => /\ heap'[m].prev \in Allocated'
                                          /\ heap'[heap'[m].prev].next = m
               /\ heap'[m].prev = NULL => gwChildrenListHead' = m
    <3>1. CASE m = n
      BY <3>1, <1>0, <1>1, <1>10, <1>6, Pointers
    <3>2. CASE m = last
      BY <3>2, <1>0, <1>1, <1>4, <1>10, <1>6, Pointers
    <3>3. CASE m # n /\ m # last
      BY <3>3, <1>0, <1>1, <1>4, <1>10, <1>6, Pointers
    <3> QED
      BY <3>1, <3>2, <3>3
  <2> QED
    BY <2>1, <2>2 DEF DoublyLinked
<1>9. NoLeak'
  <2> SUFFICES ASSUME NEW S \in SUBSET Allocated', Closed(S)' PROVE S = Allocated'
    BY NoLeakMeansNext
  <2>0. \A m \in S : heap'[m].next # NULL => heap'[m].next \in S
    BY ClosedNext
  <2>1. Closed(S \ {n})
    <3>1. gwChildrenListHead # NULL => gwChildrenListHead \in S \ {n}
      BY ClosedNext, <1>10, Pointers
    <3>2. ASSUME NEW m \in S \ {n}, heap[m].next # NULL PROVE heap[m].next \in S \ {n}
      BY <3>2, <2>0, <1>10, Pointers, <1>1, <1>4
    <3> QED
      BY <3>1, <3>2 DEF Closed
  <2>2. S \ {n} = Allocated
    BY <1>1, <2>1, NoLeakMeans DEF ListInv
  <2>3. n \in S
    BY <1>0, <1>6, <2>2, <2>0
  <2> QED
    BY <1>1, <2>2, <2>3
<1> QED
  BY <1>7, <1>8, <1>9 DEF ListInv

\* What the three cases of IoTCListDeleteNode have in common.
Unlinked(n) ==
    LET before == heap[n].prev
        after  == heap[n].next
    IN  /\ Allocated' = Allocated \ {n}
        /\ heap' \in [Allocated' -> gw_child_list_node_t]
        /\ gwChildrenListHead' = IF before = NULL THEN after ELSE gwChildrenListHead
        /\ \A m \in Allocated \ {n} :
            /\ heap'[m].next = IF m = before THEN after ELSE heap[m].next
            /\ heap'[m].prev = IF m = after THEN before ELSE heap[m].prev
            /\ heap'[m].id = heap[m].id /\ heap'[m].tg = heap[m].tg

\* Writing a pointer of a node leaves its other fields.
LEMMA Write ==
    ASSUME NEW r \in gw_child_list_node_t, NEW x \in Nodes \cup {NULL}
    PROVE  /\ [r EXCEPT !.next = x] \in gw_child_list_node_t
           /\ [r EXCEPT !.next = x].next = x
           /\ [r EXCEPT !.next = x].prev = r.prev
           /\ [r EXCEPT !.next = x].id = r.id
           /\ [r EXCEPT !.next = x].tg = r.tg
           /\ [r EXCEPT !.prev = x] \in gw_child_list_node_t
           /\ [r EXCEPT !.prev = x].prev = x
           /\ [r EXCEPT !.prev = x].next = r.next
           /\ [r EXCEPT !.prev = x].id = r.id
           /\ [r EXCEPT !.prev = x].tg = r.tg
  BY DEF gw_child_list_node_t

\* A node is unlinked when its neighbours are relinked and it is freed.
LEMMA RelinkUnlinks ==
    ASSUME ListInv, NEW n \in Allocated,
           NEW h \in [Allocated -> gw_child_list_node_t], heap' = Free(h, n),
           gwChildrenListHead' = IF heap[n].prev = NULL THEN heap[n].next ELSE gwChildrenListHead,
           \A m \in Allocated \ {n} :
                /\ h[m].next = IF m = heap[n].prev THEN heap[n].next ELSE heap[m].next
                /\ h[m].prev = IF m = heap[n].next THEN heap[n].prev ELSE heap[m].prev
                /\ h[m].id = heap[m].id /\ h[m].tg = heap[m].tg
    PROVE  Unlinked(n)
<1>1. heap' = [m \in Allocated \ {n} |-> h[m]]
  BY DEF Free
<1>2. Allocated' = Allocated \ {n}
  BY <1>1 DEF Allocated
<1>3. heap' \in [Allocated' -> gw_child_list_node_t]
  BY <1>1, <1>2
<1>4. \A m \in Allocated \ {n} : heap'[m] = h[m]
  BY <1>1
<1> QED
  BY <1>2, <1>3, <1>4 DEF Unlinked

\* Each case unlinks its node.
LEMMA DeleteUnlinks ==
    ASSUME ListInv, NEW n \in Allocated, IoTCListDeleteNode(n)
    PROVE  Unlinked(n)
<1> DEFINE before == heap[n].prev
           after  == heap[n].next
<1>1. heap \in [Allocated -> gw_child_list_node_t]
  BY DEF ListInv, TypeOK
<1>2. /\ n # NULL /\ (gwChildrenListHead = n <=> before = NULL)
      /\ before \in Allocated \cup {NULL} /\ before \in Nodes \cup {NULL}
      /\ after \in Allocated \cup {NULL} /\ after \in Nodes \cup {NULL}
      /\ NULL \notin Allocated
  BY Pointers
<1> HIDE DEF before, after
<1>3. CASE DeleteHead(n)
  <2>1. before = NULL /\ gwChildrenListHead' = after
    BY <1>2, <1>3 DEF DeleteHead, after
  <2>2. CASE after = NULL
    <3>1. heap' = Free(heap, n)
      BY <1>3, <2>2 DEF DeleteHead, after
    <3> QED
      BY <1>1, <1>2, <2>1, <2>2, <3>1, RelinkUnlinks DEF before, after
  <2>3. CASE after # NULL
    <3> DEFINE h == [heap EXCEPT ![after].prev = NULL]
    <3>1. heap' = Free(h, n)
      BY <1>3, <2>3 DEF DeleteHead, after
    <3>2. \A m \in Allocated : h[m] = IF m = after THEN [heap[m] EXCEPT !.prev = NULL] ELSE heap[m]
      BY <1>1
    <3>3. h \in [Allocated -> gw_child_list_node_t]
      <4>1. \A m \in Allocated : h[m] \in gw_child_list_node_t
        BY <1>1, <3>2, Write
      <4> QED
        BY <1>1, <4>1
    <3>4. \A m \in Allocated : /\ h[m].next = heap[m].next
                               /\ h[m].prev = IF m = after THEN NULL ELSE heap[m].prev
                               /\ h[m].id = heap[m].id /\ h[m].tg = heap[m].tg
      BY <1>1, <3>2, Write
    <3> HIDE DEF h
    <3>5. \A m \in Allocated \ {n} :
                /\ h[m].next = IF m = before THEN after ELSE heap[m].next
                /\ h[m].prev = IF m = after THEN before ELSE heap[m].prev
                /\ h[m].id = heap[m].id /\ h[m].tg = heap[m].tg
      BY <1>2, <2>1, <3>4
    <3> QED
      BY <2>1, <3>1, <3>3, <3>5, RelinkUnlinks DEF before, after
  <2> QED
    BY <2>2, <2>3
<1>4. CASE DeleteLast(n)
  <2> DEFINE h == [heap EXCEPT ![before].next = NULL]
  <2>1. /\ heap' = Free(h, n) /\ after = NULL /\ before # NULL
        /\ gwChildrenListHead' = gwChildrenListHead
    BY <1>2, <1>4 DEF DeleteLast, before, after
  <2>2. \A m \in Allocated : h[m] = IF m = before THEN [heap[m] EXCEPT !.next = NULL] ELSE heap[m]
    BY <1>1
  <2>3. h \in [Allocated -> gw_child_list_node_t]
    <3>1. \A m \in Allocated : h[m] \in gw_child_list_node_t
      BY <1>1, <2>2, Write
    <3> QED
      BY <1>1, <3>1
  <2>4. \A m \in Allocated : /\ h[m].prev = heap[m].prev
                             /\ h[m].next = IF m = before THEN NULL ELSE heap[m].next
                             /\ h[m].id = heap[m].id /\ h[m].tg = heap[m].tg
    BY <1>1, <2>2, Write
  <2> HIDE DEF h
  <2>5. \A m \in Allocated \ {n} :
              /\ h[m].next = IF m = before THEN after ELSE heap[m].next
              /\ h[m].prev = IF m = after THEN before ELSE heap[m].prev
              /\ h[m].id = heap[m].id /\ h[m].tg = heap[m].tg
    BY <1>2, <2>1, <2>4
  <2> QED
    BY <2>1, <2>3, <2>5, RelinkUnlinks DEF before, after
<1>5. CASE DeleteInner(n)
  <2> DEFINE g == [heap EXCEPT ![before].next = after]
             h == [g EXCEPT ![after].prev = before]
  <2>1. /\ heap' = Free(h, n) /\ before # NULL
        /\ gwChildrenListHead' = gwChildrenListHead
    BY <1>2, <1>5 DEF DeleteInner, before, after
  <2>2. \A m \in Allocated : g[m] = IF m = before THEN [heap[m] EXCEPT !.next = after] ELSE heap[m]
    BY <1>1
  <2>3. g \in [Allocated -> gw_child_list_node_t]
    BY <1>1, <1>2, Write
  <2>4. \A m \in Allocated : /\ g[m].prev = heap[m].prev
                             /\ g[m].next = IF m = before THEN after ELSE heap[m].next
                             /\ g[m].id = heap[m].id /\ g[m].tg = heap[m].tg
    BY <1>1, <1>2, <2>2, Write
  <2> HIDE DEF g
  <2>5. \A m \in Allocated : h[m] = IF m = after THEN [g[m] EXCEPT !.prev = before] ELSE g[m]
    BY <2>3
  <2>6. h \in [Allocated -> gw_child_list_node_t]
    <3>1. \A m \in Allocated : h[m] \in gw_child_list_node_t
      BY <1>2, <2>3, <2>5, Write
    <3> QED
      BY <2>3, <3>1
  <2>7. \A m \in Allocated : /\ h[m].next = g[m].next
                             /\ h[m].prev = IF m = after THEN before ELSE g[m].prev
                             /\ h[m].id = g[m].id /\ h[m].tg = g[m].tg
    BY <1>2, <2>3, <2>5, Write
  <2> HIDE DEF h
  <2> QED
    BY <2>1, <2>4, <2>6, <2>7, RelinkUnlinks DEF before, after
<1> QED
  BY <1>3, <1>4, <1>5 DEF IoTCListDeleteNode

\* A list stays well formed when a node is unlinked.
LEMMA UnlinkedInv ==
    ASSUME ListInv, NEW n \in Allocated, Unlinked(n)
    PROVE  ListInv'
<1> DEFINE before == heap[n].prev
           after  == heap[n].next
<1>1. /\ Allocated' = Allocated \ {n}
      /\ heap' \in [Allocated' -> gw_child_list_node_t]
      /\ gwChildrenListHead' = IF before = NULL THEN after ELSE gwChildrenListHead
  BY DEF Unlinked
<1>2. \A m \in Allocated \ {n} :
        /\ heap'[m].next = IF m = before THEN after ELSE heap[m].next
        /\ heap'[m].prev = IF m = after THEN before ELSE heap[m].prev
  BY DEF Unlinked
<1>3. n # NULL /\ (gwChildrenListHead = n <=> before = NULL)
  BY Pointers
<1>4. TypeOK'
  BY <1>1, Pointers DEF TypeOK, Allocated
<1>5. DoublyLinked'
  <2>1. gwChildrenListHead' # NULL => /\ gwChildrenListHead' \in Allocated'
                                      /\ heap'[gwChildrenListHead'].prev = NULL
    BY <1>1, <1>2, <1>3, Pointers
  <2>2. ASSUME NEW m \in Allocated \ {n}
        PROVE  /\ heap'[m].next # NULL => /\ heap'[m].next \in Allocated \ {n}
                                          /\ heap'[heap'[m].next].prev = m
               /\ heap'[m].prev # NULL => /\ heap'[m].prev \in Allocated \ {n}
                                          /\ heap'[heap'[m].prev].next = m
               /\ heap'[m].prev = NULL => gwChildrenListHead' = m
    <3>1. heap'[m].next # NULL => /\ heap'[m].next \in Allocated \ {n}
                                  /\ heap'[heap'[m].next].prev = m
      BY <1>2, <1>3, Pointers
    <3>2. heap'[m].prev # NULL => /\ heap'[m].prev \in Allocated \ {n}
                                  /\ heap'[heap'[m].prev].next = m
      BY <1>2, <1>3, Pointers
    <3>3. heap'[m].prev = NULL => gwChildrenListHead' = m
      BY <1>1, <1>2, <1>3, Pointers
    <3> QED
      BY <3>1, <3>2, <3>3
  <2> QED
    BY <1>1, <2>1, <2>2 DEF DoublyLinked
<1>6. NoLeak'
  <2> SUFFICES ASSUME NEW S \in SUBSET Allocated', Closed(S)' PROVE S = Allocated'
    BY NoLeakMeansNext
  <2>1. /\ gwChildrenListHead' # NULL => gwChildrenListHead' \in S
        /\ \A m \in S : heap'[m].next # NULL => heap'[m].next \in S
    BY ClosedNext
  <2>2. before # NULL => before \in S
    <3> SUFFICES ASSUME before # NULL, before \notin S PROVE FALSE
      OBVIOUS
    <3>1. Closed(S)
      BY <1>1, <1>2, <2>1 DEF Closed
    <3> QED
      BY <1>1, <3>1, NoLeakMeans DEF ListInv
  <2>3. after # NULL => after \in S \cup {n}
    BY <1>1, <1>2, <2>1, <2>2
  <2>4. Closed(S \cup {n})
    <3>1. gwChildrenListHead # NULL => gwChildrenListHead \in S \cup {n}
      BY <1>1, <1>3, <2>1
    <3>2. ASSUME NEW m \in S, heap[m].next # NULL PROVE heap[m].next \in S \cup {n}
      BY <1>1, <1>2, <2>1, <3>2, Pointers
    <3> QED
      BY <2>3, <3>1, <3>2 DEF Closed
  <2> QED
    BY <1>1, <2>4, NoLeakMeans DEF ListInv
<1> QED
  BY <1>4, <1>5, <1>6 DEF ListInv

\* IoTClistDelete frees every node.
LEMMA ClearInv ==
    ASSUME ListInv, IoTClistDelete
    PROVE  ListInv'
<1>1. heap' = [n \in {} |-> heap[n]] /\ gwChildrenListHead' = NULL
  BY DEF ListInv, NoLeak, IoTClistDelete
<1>2. Allocated' = {}
  BY <1>1 DEF Allocated
<1> QED
  BY <1>1, <1>2, NoLeakMeansNext DEF ListInv, TypeOK, DoublyLinked, gw_child_list_node_t

LEMMA ListInvHolds == Spec => []ListInv
<1>1. Init => ListInv
  <2> SUFFICES ASSUME Init PROVE ListInv
    OBVIOUS
  <2>1. Allocated = {}
    BY DEF Init, Allocated
  <2> QED
    BY <2>1, NoLeakMeans DEF Init, ListInv, TypeOK, DoublyLinked
<1>2. ListInv /\ [Next]_vars => ListInv'
  <2> SUFFICES ASSUME ListInv, [Next]_vars PROVE ListInv'
    OBVIOUS
  <2>1. ASSUME NEW i \in Ids, NEW t \in Tags, IoTCListInsertNode(i, t) PROVE ListInv'
    BY <2>1, InsertFirstInv, InsertBehindInv DEF IoTCListInsertNode
  <2>2. ASSUME NEW i \in Ids, IoTCListDeleteNodeById(i) PROVE ListInv'
    <3>1. CASE UNCHANGED vars
      BY <3>1 DEF vars, ListInv, TypeOK, DoublyLinked, NoLeak, Listed, Closed, Allocated
    <3>2. CASE \E n \in Allocated : IoTCListDeleteNode(n)
      BY <3>2, DeleteUnlinks, UnlinkedInv
    <3> QED
      BY <2>2, <3>1, <3>2 DEF IoTCListDeleteNodeById
  <2>3. CASE UNCHANGED vars
    BY <2>3 DEF vars, ListInv, TypeOK, DoublyLinked, NoLeak, Listed, Closed, Allocated
  <2> QED
    BY <2>1, <2>2, <2>3, ClearInv DEF Next
<1> QED
  BY <1>1, <1>2, PTL DEF Spec

\* However many children come and go, in any order and whatever their ids, no
\* pointer of the list dangles and the two directions agree: the list routines
\* of dx_avnet_iot_connect.c never follow a NULL or freed pointer.
THEOREM LinksCorrect == Spec => []DoublyLinked
  BY ListInvHolds, PTL DEF ListInv

\* Every node IoTCListGetNewNode allocates stays reachable from the head until
\* it is freed.
THEOREM NoLeakCorrect == Spec => []NoLeak
  BY ListInvHolds, PTL DEF ListInv

-----------------------------------------------------------------------------
(* The list as a sequence.                                                  *)

\* s holds the nodes from the head on, in order.
IsList(s) ==
    /\ s \in Seq(Allocated)
    /\ \A j, k \in 1 .. Len(s) : s[j] = s[k] => j = k
    /\ gwChildrenListHead = IF Len(s) = 0 THEN NULL ELSE s[1]
    /\ \A k \in 1 .. Len(s) : heap[s[k]].next = IF k = Len(s) THEN NULL ELSE s[k + 1]

\* A set of natural numbers has a least one.
LEMMA LeastNatural ==
    ASSUME NEW T \in SUBSET Nat, T # {}
    PROVE  \E m \in T : \A k \in T : m <= k
<1> DEFINE R == {p \in Nat \X Nat : p[1] < p[2]}
<1>1. IsWellFoundedOn(R, Nat)
  BY NatLessThanWellFounded DEF OpToRel
<1>2. \A k, m \in Nat : k < m => <<k, m>> \in R
  OBVIOUS
<1> HIDE DEF R
<1>3. PICK m \in T : \A k \in T : ~ (<<k, m>> \in R)
  BY <1>1, WFMin, Zenon
<1>4. ASSUME NEW k \in T PROVE m <= k
  <2>1. k \in Nat /\ m \in Nat /\ ~(k < m)
    BY <1>2, <1>3
  <2> QED
    BY <2>1
<1> QED
  BY <1>4

\* g is the walk over n pointers.
IsWalk(g, n) ==
    g = [k \in 0 .. n |-> IF k = 0 THEN gwChildrenListHead
                          ELSE IF g[k - 1] \in Allocated THEN heap[g[k - 1]].next ELSE NULL]

\* There is one for every n: a walk over m - 1 pointers goes on by one.
LEMMA WalkExists ==
    ASSUME NEW n \in Nat
    PROVE  \E g : IsWalk(g, n)
<1> DEFINE Missing == {k \in Nat : ~\E g : IsWalk(g, k)}
<1>1. ASSUME Missing # {} PROVE FALSE
  <2>1. PICK m \in Missing : \A k \in Missing : m <= k
    <3>1. Missing \in SUBSET Nat
      OBVIOUS
    <3> HIDE DEF Missing
    <3> QED
      BY <1>1, <3>1, LeastNatural
  <2>2. m \in Nat /\ ~\E g : IsWalk(g, m)
    BY <2>1
  <2>3. CASE m = 0
    <3> DEFINE h == [k \in 0 .. 0 |-> gwChildrenListHead]
    <3>1. IsWalk(h, 0)
      BY DEF IsWalk
    <3> QED
      BY <2>2, <2>3, <3>1
  <2>4. CASE m # 0
    <3>1. m - 1 \in Nat /\ ~(m <= m - 1)
      BY <2>2, <2>4
    <3>2. m - 1 \notin Missing
      BY <2>1, <3>1
    <3>3. PICK g : IsWalk(g, m - 1)
      BY <3>1, <3>2
    <3> DEFINE On(v) == IF v \in Allocated THEN heap[v].next ELSE NULL
               h == [k \in 0 .. m |-> IF k = m THEN On(g[m - 1]) ELSE g[k]]
    <3>4. ASSUME NEW k \in 0 .. m
          PROVE  h[k] = IF k = 0 THEN gwChildrenListHead ELSE On(h[k - 1])
      <4> HIDE DEF On
      <4>1. CASE k = m
        <5>1. h[k - 1] = g[k - 1] /\ h[k] = On(g[k - 1]) /\ k # 0
          BY <2>2, <2>4, <4>1
        <5> QED
          BY <5>1
      <4>2. CASE k # m
        <5>1. k \in 0 .. m - 1 /\ h[k] = g[k] /\ (k # 0 => h[k - 1] = g[k - 1])
          BY <2>2, <2>4, <4>2
        <5>2. g[k] = IF k = 0 THEN gwChildrenListHead ELSE On(g[k - 1])
          BY <3>3, <5>1 DEF IsWalk, On
        <5> QED
          BY <5>1, <5>2
      <4> QED
        BY <4>1, <4>2
    <3>5. IsWalk(h, m)
      <4>1. h = [k \in 0 .. m |-> h[k]]
        OBVIOUS
      <4> HIDE DEF h
      <4> QED
        BY <3>4, <4>1 DEF IsWalk
    <3> QED
      BY <2>2, <3>5
  <2> QED
    BY <2>3, <2>4
<1> QED
  BY <1>1

LEMMA WalkIs == IsWalk(Walk, Cardinality(Nodes)) /\ Cardinality(Nodes) \in Nat
<1>1. Cardinality(Nodes) \in Nat
  BY NodesAssumption, FS_CardinalityType
<1> DEFINE w == CHOOSE g : IsWalk(g, Cardinality(Nodes))
<1>2. IsWalk(w, Cardinality(Nodes))
  BY <1>1, WalkExists
<1>3. Walk = w
  BY DEF Walk, IsWalk
<1> QED
  BY <1>1, <1>2, <1>3

\* The walk visits those nodes and no other, so List is that sequence.
LEMMA ListIs == \A s : TypeOK /\ IsList(s) => List = s
<1> SUFFICES ASSUME NEW s, TypeOK, IsList(s) PROVE List = s
  OBVIOUS
<1> DEFINE L == Len(s)
           N == Cardinality(Nodes)
<1>1. /\ s \in Seq(Allocated) /\ L \in Nat /\ s \in [1 .. L -> Allocated]
      /\ Allocated \subseteq Nodes /\ NULL \notin Allocated
  BY NodesAssumption DEF IsList, TypeOK
<1>2. N \in Nat /\ IsWalk(Walk, N)
  BY WalkIs
<1>3. L <= N
  <2> SUFFICES ASSUME N < L PROVE FALSE
    BY <1>1, <1>2
  <2>1. IsFiniteSet(1 .. L) /\ Cardinality(1 .. L) = L
    <3> HIDE DEF L
    <3>1. IsFiniteSet(1 .. L) /\ Cardinality(1 .. L) = IF 1 > L THEN 0 ELSE L - 1 + 1
      BY <1>1, FS_Interval
    <3> QED
      BY <1>1, <3>1
  <2>2. s \in [1 .. L -> Nodes] /\ IsFiniteSet(Nodes)
    BY <1>1, NodesAssumption
  <2>3. \E x, y \in 1 .. L : x # y /\ s[x] = s[y]
    <3> HIDE DEF L
    <3> QED
      BY <2>1, <2>2, FS_PigeonHole
  <2> QED
    BY <2>3 DEF IsList
<1> DEFINE At(k) == IF k < L THEN s[k + 1] ELSE NULL
           Wrong == {k \in 0 .. N : Walk[k] # At(k)}
<1>4. DOMAIN Walk = 0 .. N
  BY <1>2 DEF IsWalk
<1>5. ASSUME NEW k \in 0 .. N
      PROVE  Walk[k] = IF k = 0 THEN gwChildrenListHead
                       ELSE IF Walk[k - 1] \in Allocated THEN heap[Walk[k - 1]].next ELSE NULL
  BY <1>2 DEF IsWalk
<1>6. ASSUME Wrong # {} PROVE FALSE
  <2>1. PICK m \in Wrong : \A k \in Wrong : m <= k
    <3>1. Wrong \in SUBSET Nat
      BY <1>2
    <3> HIDE DEF Wrong
    <3> QED
      BY <1>6, <3>1, LeastNatural
  <2>2. m \in 0 .. N /\ Walk[m] # At(m)
    BY <2>1
  <2>3. CASE m = 0
    <3>1. Walk[0] = IF L = 0 THEN NULL ELSE s[1]
      BY <1>5, <2>2, <2>3 DEF IsList
    <3>2. At(0) = IF L = 0 THEN NULL ELSE s[1]
      <4> HIDE DEF L
      <4> QED
        BY <1>1
    <3> QED
      BY <2>2, <2>3, <3>1, <3>2
  <2>4. CASE m # 0
    <3>1. m - 1 \in 0 .. N /\ ~(m <= m - 1)
      BY <1>2, <2>2, <2>4
    <3>2. Walk[m - 1] = At(m - 1)
      BY <2>1, <3>1
    <3>3. Walk[m] = IF At(m - 1) \in Allocated THEN heap[At(m - 1)].next ELSE NULL
      BY <1>5, <2>2, <2>4, <3>2
    <3>4. CASE m - 1 < L
      <4>1. m \in 1 .. L /\ (m - 1) + 1 = m
        BY <1>1, <2>2, <2>4, <3>1, <3>4
      <4>2. At(m - 1) = s[m] /\ s[m] \in Allocated
        BY <1>1, <3>4, <4>1
      <4>3. Walk[m] = IF m = L THEN NULL ELSE s[m + 1]
        BY <3>3, <4>1, <4>2 DEF IsList
      <4>4. At(m) = IF m = L THEN NULL ELSE s[m + 1]
        <5> HIDE DEF L
        <5> QED
          BY <1>1, <4>1
      <4> QED
        BY <2>2, <4>3, <4>4
    <3>5. CASE ~(m - 1 < L)
      BY <1>1, <2>2, <3>3, <3>5
    <3> QED
      BY <3>4, <3>5
  <2> QED
    BY <2>3, <2>4
<1>7. \A k \in 0 .. N : Walk[k] = At(k)
  BY <1>6
<1>8. {k \in DOMAIN Walk : Walk[k] # NULL} = 0 .. L - 1
  <2>1. ASSUME NEW k \in 0 .. L - 1 PROVE k \in 0 .. N /\ Walk[k] # NULL
    <3>1. k \in 0 .. N /\ k < L /\ k + 1 \in 1 .. L
      BY <1>1, <1>2, <1>3
    <3>2. Walk[k] = s[k + 1] /\ s[k + 1] \in Allocated
      BY <1>1, <1>7, <3>1
    <3> QED
      BY <1>1, <3>1, <3>2
  <2>2. ASSUME NEW k \in 0 .. N, Walk[k] # NULL PROVE k \in 0 .. L - 1
    BY <1>1, <1>7, <2>2
  <2> QED
    BY <1>4, <2>1, <2>2
<1>9. Cardinality(0 .. L - 1) = L
  BY <1>1, FS_Interval
<1>10. List = [k \in 1 .. L |-> Walk[k - 1]]
  BY <1>8, <1>9 DEF List
<1>11. ASSUME NEW k \in 1 .. L PROVE Walk[k - 1] = s[k]
  <2>1. k - 1 \in 0 .. N /\ k - 1 < L /\ (k - 1) + 1 = k
    BY <1>1, <1>2, <1>3
  <2> QED
    BY <1>7, <2>1
<1>12. s = [k \in 1 .. L |-> s[k]]
  BY <1>1
<1> QED
  BY <1>10, <1>11, <1>12

\* The same after a step.
LEMMA ListIsNext == (\A s : TypeOK /\ IsList(s) => List = s)'
  BY ListIs, PTL

\* Every node is somewhere on it.
LEMMA Covered ==
    ASSUME ListInv, NEW s, IsList(s), NEW n \in Allocated
    PROVE  \E k \in 1 .. Len(s) : s[k] = n
<1> DEFINE S == {s[k] : k \in 1 .. Len(s)}
<1>1. s \in Seq(Allocated) /\ Len(s) \in Nat /\ \A k \in 1 .. Len(s) : s[k] \in Allocated
  BY DEF IsList
<1>2. Closed(S)
  <2>1. gwChildrenListHead # NULL => gwChildrenListHead \in S
    <3>1. gwChildrenListHead # NULL => 1 \in 1 .. Len(s) /\ gwChildrenListHead = s[1]
      BY <1>1 DEF IsList
    <3> QED
      BY <3>1
  <2>2. ASSUME NEW k \in 1 .. Len(s), heap[s[k]].next # NULL PROVE heap[s[k]].next \in S
    <3>1. k # Len(s) /\ heap[s[k]].next = s[k + 1]
      BY <2>2 DEF IsList
    <3>2. k + 1 \in 1 .. Len(s)
      BY <1>1, <3>1
    <3> QED
      BY <3>1, <3>2
  <2> QED
    BY <2>1, <2>2 DEF Closed
<1>3. S = Allocated
  <2>1. S \in SUBSET Allocated
    BY <1>1
  <2> HIDE DEF S
  <2> QED
    BY <1>2, <2>1, NoLeakMeans DEF ListInv
<1> QED
  BY <1>3

\* A new node comes last, and no other node changes what it holds.
LEMMA InsertList ==
    ASSUME ListInv, NEW s, IsList(s), NEW i \in Ids, NEW t \in Tags,
           NEW n \in Nodes \ Allocated,
           InsertFirst(n, i, t) \/ \E last \in Allocated : InsertBehind(last, n, i, t)
    PROVE  /\ IsList(Append(s, n))'
           /\ heap'[n].id = i /\ heap'[n].tg = t
           /\ \A m \in Allocated : heap'[m].id = heap[m].id /\ heap'[m].tg = heap[m].tg
<1> DEFINE L == Len(s)
           a == Append(s, n)
<1>1. /\ s \in Seq(Allocated) /\ L \in Nat /\ NULL \notin Allocated /\ n # NULL
      /\ \A k \in 1 .. L : s[k] \in Allocated
  BY NodesAssumption, Pointers DEF IsList
<1>2. /\ a \in Seq(Allocated \cup {n}) /\ Len(a) = L + 1
      /\ \A k \in 1 .. L : a[k] = s[k]
      /\ a[L + 1] = n
  <2>1. s \in Seq(Allocated \cup {n})
    BY <1>1
  <2> QED
    BY <2>1, AppendProperties
<1>3. gwChildrenListHead = IF L = 0 THEN NULL ELSE s[1]
  BY DEF IsList
<1>4. \A k \in 1 .. L : heap[s[k]].next = IF k = L THEN NULL ELSE s[k + 1]
  BY DEF IsList
<1>5. \A j, k \in 1 .. L : s[j] = s[k] => j = k
  BY DEF IsList
<1> HIDE DEF L, a
<1>6. ASSUME NEW j \in 1 .. Len(a), NEW k \in 1 .. Len(a), a[j] = a[k] PROVE j = k
  <2>1. (j \in 1 .. L \/ j = L + 1) /\ (k \in 1 .. L \/ k = L + 1)
    BY <1>1, <1>2
  <2> QED
    BY <1>1, <1>2, <1>5, <1>6, <2>1
<1>7. CASE InsertFirst(n, i, t)
  <2>1. Allocated = {}
    <3>1. Closed({})
      BY <1>7 DEF Closed, InsertFirst
    <3> QED
      BY <3>1, NoLeakMeans DEF ListInv
  <2>2. L = 0
    <3>1. L # 0 => 1 \in 1 .. L
      BY <1>1
    <3> QED
      BY <1>1, <2>1, <3>1
  <2>3. heap' = [m \in {n} |-> [next |-> NULL, prev |-> NULL, id |-> i, tg |-> t]]
    BY <1>7, <2>1 DEF InsertFirst, IoTCListGetNewNode
  <2>4. /\ Allocated' = {n} /\ gwChildrenListHead' = n
        /\ heap'[n] = [next |-> NULL, prev |-> NULL, id |-> i, tg |-> t]
    BY <1>7, <2>3 DEF Allocated, InsertFirst
  <2>5. Len(a) = 1 /\ a[1] = n /\ a \in Seq(Allocated')
    BY <1>2, <2>1, <2>2, <2>4
  <2>6. IsList(a)'
    <3>1. \A k \in 1 .. Len(a) : heap'[a[k]].next = IF k = Len(a) THEN NULL ELSE a[k + 1]
      BY <2>4, <2>5
    <3> QED
      BY <1>6, <2>4, <2>5, <3>1 DEF IsList
  <2> QED
    BY <2>1, <2>4, <2>6 DEF a
<1>8. ASSUME NEW last \in Allocated, InsertBehind(last, n, i, t)
      PROVE  /\ IsList(a)'
             /\ heap'[n].id = i /\ heap'[n].tg = t
             /\ \A m \in Allocated : heap'[m].id = heap[m].id /\ heap'[m].tg = heap[m].tg
  <2>1. /\ last # n /\ heap \in [Allocated -> gw_child_list_node_t]
        /\ heap[last] \in gw_child_list_node_t
    BY DEF ListInv, TypeOK
  <2>2. Allocated' = Allocated \cup {n}
    BY <1>8 DEF InsertBehind, Allocated, IoTCListGetNewNode
  <2>3. heap'[n] = [next |-> NULL, prev |-> last, id |-> i, tg |-> t]
    BY <1>8, <2>1 DEF InsertBehind, IoTCListGetNewNode
  <2>4. heap'[last] = [heap[last] EXCEPT !.next = n]
    BY <1>8, <2>1 DEF InsertBehind, IoTCListGetNewNode
  <2>5. \A m \in Allocated : m # last => heap'[m] = heap[m]
    BY <1>8, <2>1 DEF InsertBehind, IoTCListGetNewNode
  <2>6. heap[last].next = NULL /\ gwChildrenListHead' = gwChildrenListHead
    BY <1>8 DEF InsertBehind
  <2>7. heap'[last].next = n /\ heap'[last].id = heap[last].id /\ heap'[last].tg = heap[last].tg
    BY <2>1, <2>4 DEF gw_child_list_node_t
  <2>8. L # 0 /\ L \in 1 .. L /\ 1 \in 1 .. L /\ last = s[L]
    <3>1. PICK k \in 1 .. L : s[k] = last
      BY Covered DEF L
    <3>2. k # L => k + 1 \in 1 .. L
      BY <1>1
    <3>3. k = L
      BY <1>1, <1>4, <2>6, <3>1, <3>2
    <3> QED
      BY <1>1, <3>1, <3>3
  <2>9. ASSUME NEW k \in 1 .. Len(a)
        PROVE  heap'[a[k]].next = IF k = Len(a) THEN NULL ELSE a[k + 1]
    <3>1. CASE k = L + 1
      BY <1>1, <1>2, <2>3, <3>1
    <3>2. CASE k = L
      BY <1>1, <1>2, <2>7, <2>8, <3>2
    <3>3. CASE k # L /\ k # L + 1
      <4>1. k \in 1 .. L /\ k + 1 \in 1 .. L /\ k # Len(a)
        BY <1>1, <1>2, <3>3
      <4>2. s[k] # last /\ s[k] \in Allocated
        BY <1>1, <1>5, <2>8, <3>3, <4>1
      <4> QED
        BY <1>2, <1>4, <2>5, <3>3, <4>1, <4>2
    <3> QED
      BY <3>1, <3>2, <3>3
  <2>10. IsList(a)'
    <3>1. a \in Seq(Allocated') /\ Len(a) # 0 /\ gwChildrenListHead' = a[1]
      BY <1>1, <1>2, <1>3, <2>2, <2>6, <2>8
    <3> QED
      BY <1>6, <2>9, <3>1 DEF IsList
  <2> QED
    BY <2>3, <2>5, <2>7, <2>10
<1> QED
  BY <1>7, <1>8 DEF a

\* s without its m-th member.
Drop(s, m) == [k \in 1 .. Len(s) - 1 |-> IF k < m THEN s[k] ELSE s[k + 1]]

LEMMA DropIs ==
    ASSUME NEW A, NEW s \in Seq(A), NEW m \in 1 .. Len(s)
    PROVE  /\ Drop(s, m) \in Seq(A)
           /\ Len(Drop(s, m)) = Len(s) - 1
           /\ \A k \in 1 .. Len(s) - 1 : Drop(s, m)[k] = IF k < m THEN s[k] ELSE s[k + 1]
<1>1. Len(s) \in Nat /\ Len(s) - 1 \in Nat /\ \A k \in 1 .. Len(s) : s[k] \in A
  OBVIOUS
<1>2. ASSUME NEW k \in 1 .. Len(s) - 1 PROVE (IF k < m THEN s[k] ELSE s[k + 1]) \in A
  <2>1. k \in 1 .. Len(s) /\ k + 1 \in 1 .. Len(s)
    BY <1>1
  <2> QED
    BY <1>1, <2>1
<1>3. Drop(s, m) \in [1 .. Len(s) - 1 -> A]
  BY <1>2 DEF Drop
<1> QED
  BY <1>1, <1>3 DEF Drop

\* A node that is unlinked is missing from the list, and no other is.
LEMMA UnlinkList ==
    ASSUME ListInv, NEW s, IsList(s), NEW m \in 1 .. Len(s), Unlinked(s[m])
    PROVE  IsList(Drop(s, m))'
<1> DEFINE L == Len(s)
           n == s[m]
           d == Drop(s, m)
<1>1. /\ s \in Seq(Allocated) /\ L \in Nat \ {0} /\ NULL \notin Allocated
      /\ \A k \in 1 .. L : s[k] \in Allocated
  BY Pointers DEF IsList
<1>2. /\ d \in Seq(Allocated) /\ Len(d) = L - 1
      /\ \A k \in 1 .. L - 1 : d[k] = IF k < m THEN s[k] ELSE s[k + 1]
  BY <1>1, DropIs
<1>3. gwChildrenListHead = s[1] /\ 1 \in 1 .. L
  BY <1>1 DEF IsList
<1>4. \A k \in 1 .. L : heap[s[k]].next = IF k = L THEN NULL ELSE s[k + 1]
  BY DEF IsList
<1>5. \A j, k \in 1 .. L : s[j] = s[k] => j = k
  BY DEF IsList
<1>6. m \in 1 .. L /\ m \in Nat
  BY <1>1
<1> HIDE DEF L, d
<1>7. heap[n].next = IF m = L THEN NULL ELSE s[m + 1]
  BY <1>4, <1>6
<1>8. heap[n].prev = IF m = 1 THEN NULL ELSE s[m - 1]
  <2>1. CASE m = 1
    BY <1>1, <1>3, <2>1, Pointers
  <2>2. CASE m # 1
    <3>1. m - 1 \in 1 .. L /\ m - 1 # L /\ (m - 1) + 1 = m
      BY <1>1, <1>6, <2>2
    <3>2. heap[s[m - 1]].next = n /\ s[m - 1] \in Allocated /\ n # NULL
      BY <1>1, <1>4, <1>6, <3>1
    <3> QED
      BY <2>2, <3>2, Pointers
  <2> QED
    BY <2>1, <2>2
<1>9. /\ Allocated' = Allocated \ {n}
      /\ gwChildrenListHead' = IF heap[n].prev = NULL THEN heap[n].next ELSE gwChildrenListHead
      /\ \A k \in Allocated \ {n} :
            heap'[k].next = IF k = heap[n].prev THEN heap[n].next ELSE heap[k].next
  BY DEF Unlinked
<1>10. ASSUME NEW k \in 1 .. L - 1
       PROVE  /\ k \in 1 .. L /\ k + 1 \in 1 .. L /\ d[k] = IF k < m THEN s[k] ELSE s[k + 1]
              /\ d[k] \in Allocated \ {n}
  <2>1. k \in 1 .. L /\ k + 1 \in 1 .. L /\ d[k] = IF k < m THEN s[k] ELSE s[k + 1]
    BY <1>1, <1>2
  <2>2. CASE k < m
    <3>1. d[k] = s[k] /\ k # m
      BY <1>6, <2>1, <2>2
    <3> QED
      BY <1>1, <1>5, <1>6, <2>1, <3>1
  <2>3. CASE ~(k < m)
    <3>1. d[k] = s[k + 1] /\ k + 1 # m
      BY <1>6, <2>1, <2>3
    <3> QED
      BY <1>1, <1>5, <1>6, <2>1, <3>1
  <2> QED
    BY <2>1, <2>2, <2>3
<1>11. d \in Seq(Allocated \ {n})
  <2>1. d \in [1 .. L - 1 -> Allocated]
    BY <1>1, <1>2
  <2>2. d \in [1 .. L - 1 -> Allocated \ {n}]
    BY <1>10, <2>1
  <2>3. L - 1 \in Nat
    BY <1>1
  <2> HIDE DEF n
  <2> QED
    BY <2>2, <2>3, SeqDef
<1>12. ASSUME NEW j \in 1 .. L - 1, NEW k \in 1 .. L - 1, d[j] = d[k] PROVE j = k
  <2>1. /\ j \in 1 .. L /\ j + 1 \in 1 .. L /\ d[j] = IF j < m THEN s[j] ELSE s[j + 1]
        /\ k \in 1 .. L /\ k + 1 \in 1 .. L /\ d[k] = IF k < m THEN s[k] ELSE s[k + 1]
    BY <1>10
  <2>2. CASE j < m /\ k < m
    BY <1>5, <1>12, <2>1, <2>2
  <2>3. CASE j < m /\ ~(k < m)
    <3>1. s[j] = s[k + 1]
      BY <1>12, <2>1, <2>3
    <3>2. j # k + 1
      BY <1>1, <1>6, <2>1, <2>3
    <3> QED
      BY <1>5, <2>1, <3>1, <3>2
  <2>4. CASE ~(j < m) /\ k < m
    <3>1. s[j + 1] = s[k]
      BY <1>12, <2>1, <2>4
    <3>2. j + 1 # k
      BY <1>1, <1>6, <2>1, <2>4
    <3> QED
      BY <1>5, <2>1, <3>1, <3>2
  <2>5. CASE ~(j < m) /\ ~(k < m)
    <3>1. s[j + 1] = s[k + 1]
      BY <1>12, <2>1, <2>5
    <3>2. j + 1 = k + 1
      BY <1>5, <2>1, <3>1
    <3> QED
      BY <2>1, <3>2
  <2> QED
    BY <2>2, <2>3, <2>4, <2>5
<1>13. ASSUME NEW k \in 1 .. L - 1
       PROVE  heap'[d[k]].next = IF k = L - 1 THEN NULL ELSE d[k + 1]
  <2>1. /\ k \in 1 .. L /\ k + 1 \in 1 .. L /\ d[k] = IF k < m THEN s[k] ELSE s[k + 1]
        /\ heap'[d[k]].next = IF d[k] = heap[n].prev THEN heap[n].next ELSE heap[d[k]].next
    BY <1>9, <1>10
  <2>2. k # L - 1 => k + 1 \in 1 .. L - 1
    BY <1>1
  <2>3. k # L - 1 => d[k + 1] = IF k + 1 < m THEN s[k + 1] ELSE s[(k + 1) + 1]
    BY <1>2, <2>2
  <2>4. CASE k = m - 1
    <3>1. /\ k < m /\ m # 1 /\ d[k] = s[m - 1] /\ (m = L <=> k = L - 1)
          /\ (k + 1) + 1 = m + 1 /\ ~(k + 1 < m)
      BY <1>1, <1>6, <2>1, <2>4
    <3>2. heap'[d[k]].next = IF m = L THEN NULL ELSE s[m + 1]
      BY <1>7, <1>8, <2>1, <3>1
    <3> QED
      BY <2>3, <3>1, <3>2
  <2>5. CASE k < m - 1
    <3>1. k < m /\ k + 1 < m /\ k # L - 1 /\ k # L /\ (m # 1 => m - 1 \in 1 .. L /\ k # m - 1)
      BY <1>1, <1>6, <2>1, <2>5
    <3>2. d[k] = s[k] /\ s[k] # heap[n].prev
      BY <1>1, <1>5, <1>8, <2>1, <3>1
    <3> QED
      BY <1>4, <2>1, <2>3, <3>1, <3>2
  <2>6. CASE k > m - 1
    <3>1. /\ ~(k < m) /\ ~(k + 1 < m) /\ (k = L - 1 <=> k + 1 = L)
          /\ (m # 1 => m - 1 \in 1 .. L /\ k + 1 # m - 1)
      BY <1>1, <1>6, <2>1, <2>6
    <3>2. d[k] = s[k + 1] /\ s[k + 1] # heap[n].prev
      BY <1>1, <1>5, <1>8, <2>1, <3>1
    <3> QED
      BY <1>4, <2>1, <2>3, <3>1, <3>2
  <2> QED
    BY <1>6, <2>4, <2>5, <2>6
<1>14. gwChildrenListHead' = IF L - 1 = 0 THEN NULL ELSE d[1]
  <2>1. L - 1 # 0 => 1 \in 1 .. L - 1
    BY <1>1
  <2>2. L - 1 # 0 => d[1] = IF 1 < m THEN s[1] ELSE s[1 + 1]
    BY <1>2, <2>1
  <2>3. CASE m = 1
    <3>1. gwChildrenListHead' = IF m = L THEN NULL ELSE s[m + 1]
      BY <1>7, <1>8, <1>9, <2>3
    <3> QED
      BY <1>1, <2>2, <2>3, <3>1
  <2>4. CASE m # 1
    <3>1. m - 1 \in 1 .. L /\ L - 1 # 0 /\ 1 < m
      BY <1>1, <1>6, <2>4
    <3>2. heap[n].prev # NULL
      BY <1>1, <1>8, <2>4, <3>1
    <3> QED
      BY <1>3, <1>9, <2>2, <3>1, <3>2
  <2> QED
    BY <2>3, <2>4
<1>15. IsList(d)'
  <2>1. Len(d) = L - 1 /\ d \in Seq(Allocated')
    BY <1>2, <1>9, <1>11
  <2> QED
    BY <1>12, <1>13, <1>14, <2>1 DEF IsList
<1> QED
  BY <1>15 DEF d

-----------------------------------------------------------------------------
(* The children on the list.                                                *)

\* What the nodes of s hold in heap h.
Contents(s, h) == [k \in 1 .. Len(s) |-> [id |-> h[s[k]].id, tg |-> h[s[k]].tg]]

\* The state of the sequence that the list implements.
children == [k \in DOMAIN List |-> [id |-> heap[List[k]].id, tg |-> heap[List[k]].tg]]

LEMMA ChildrenAre == \A s : TypeOK /\ IsList(s) => children = Contents(s, heap)
<1> SUFFICES ASSUME NEW s, TypeOK, IsList(s) PROVE children = Contents(s, heap)
  OBVIOUS
<1>1. List = s /\ DOMAIN s = 1 .. Len(s)
  BY ListIs DEF IsList
<1> QED
  BY <1>1 DEF children, Contents

LEMMA ChildrenAreNext == (\A s : TypeOK /\ IsList(s) => children = Contents(s, heap))'
  BY ChildrenAre, PTL

LEMMA ContentsType ==
    ASSUME ListInv, NEW s, IsList(s)
    PROVE  /\ Contents(s, heap) \in Seq(C!Child) /\ Len(Contents(s, heap)) = Len(s)
           /\ \A k \in 1 .. Len(s) :
                 Contents(s, heap)[k] = [id |-> heap[s[k]].id, tg |-> heap[s[k]].tg]
<1>1. Len(s) \in Nat /\ \A k \in 1 .. Len(s) : s[k] \in Allocated
  BY DEF IsList
<1>2. \A k \in 1 .. Len(s) : heap[s[k]].id \in Ids /\ heap[s[k]].tg \in Tags
  BY <1>1, Pointers
<1>3. Contents(s, heap) \in [1 .. Len(s) -> C!Child]
  BY <1>2 DEF Contents, C!Child
<1> QED
  BY <1>1, <1>3 DEF Contents

\* Without takes out the first child with the id.
LEMMA WithoutIsDrop ==
    ASSUME NEW A, NEW c \in Seq(A), NEW m \in 1 .. Len(c), NEW i, c[m].id = i,
           \A j \in 1 .. m - 1 : c[j].id # i
    PROVE  C!Without(c, i) = Drop(c, m)
<1> DEFINE at == {k \in DOMAIN c : c[k].id = i}
<1>1. DOMAIN c = 1 .. Len(c) /\ Len(c) \in Nat /\ \A k \in 1 .. Len(c) : c[k] \in A
  OBVIOUS
<1>2. m \in at /\ m \in Nat
  BY <1>1
<1>3. ASSUME NEW k \in at PROVE m <= k
  <2>1. k \in 1 .. Len(c) /\ k \notin 1 .. m - 1
    BY <1>1
  <2> QED
    BY <1>1, <1>2, <2>1
<1>4. at \subseteq Nat
  BY <1>1
<1>5. (CHOOSE x \in at : \A y \in at : x <= y) = m
  <2> HIDE DEF at
  <2> DEFINE x == CHOOSE x \in at : \A y \in at : x <= y
  <2>1. x \in at /\ \A y \in at : x <= y
    BY <1>2, <1>3
  <2>2. x <= m /\ m <= x /\ x \in Nat
    BY <1>2, <1>3, <1>4, <2>1
  <2> HIDE DEF x
  <2>3. x = m
    BY <1>2, <2>2
  <2> QED
    BY <2>3 DEF x
<1>6. C!Without(c, i) = SubSeq(c, 1, m - 1) \o SubSeq(c, m + 1, Len(c))
  BY <1>2, <1>5 DEF C!Without, C!RemoveAt, C!Min
<1> HIDE DEF at
<1>7. /\ SubSeq(c, 1, m - 1) \in Seq(A)
      /\ Len(SubSeq(c, 1, m - 1)) = m - 1
      /\ \A k \in 1 .. m - 1 : SubSeq(c, 1, m - 1)[k] = c[k]
  BY <1>1, <1>2, SubSeqProperties
<1>8. /\ SubSeq(c, m + 1, Len(c)) \in Seq(A)
      /\ Len(SubSeq(c, m + 1, Len(c))) = Len(c) - m
      /\ \A k \in 1 .. Len(c) - m : SubSeq(c, m + 1, Len(c))[k] = c[m + k]
  <2>1. m + 1 \in Int /\ Len(c) \in Int /\ \A k \in m + 1 .. Len(c) : c[k] \in A
    BY <1>1, <1>2
  <2>2. /\ SubSeq(c, m + 1, Len(c)) \in Seq(A)
        /\ Len(SubSeq(c, m + 1, Len(c))) = IF m + 1 <= Len(c) THEN Len(c) - (m + 1) + 1 ELSE 0
        /\ \A k \in 1 .. Len(c) - (m + 1) + 1 : SubSeq(c, m + 1, Len(c))[k] = c[m + 1 + k - 1]
    BY <2>1, SubSeqProperties
  <2>3. /\ Len(c) - (m + 1) + 1 = Len(c) - m
        /\ ~(m + 1 <= Len(c)) => Len(c) - m = 0
        /\ \A k \in Nat : m + 1 + k - 1 = m + k
    <3>1. m \in Nat /\ Len(c) \in Nat /\ m <= Len(c)
      BY <1>1, <1>2
    <3> QED
      BY <3>1, Z3
  <2>4. \A k \in 1 .. Len(c) - m : k \in Nat
    BY <1>1, <1>2
  <2> QED
    BY <2>2, <2>3, <2>4
<1> DEFINE p == SubSeq(c, 1, m - 1)
           q == SubSeq(c, m + 1, Len(c))
<1>9. /\ p \in Seq(A) /\ Len(p) = m - 1 /\ (\A k \in 1 .. m - 1 : p[k] = c[k])
      /\ q \in Seq(A) /\ Len(q) = Len(c) - m /\ (\A k \in 1 .. Len(c) - m : q[k] = c[m + k])
      /\ C!Without(c, i) = p \o q
  BY <1>6, <1>7, <1>8
<1> HIDE DEF p, q
<1>10. /\ p \o q \in Seq(A) /\ Len(p \o q) = Len(p) + Len(q)
       /\ \A k \in 1 .. Len(p) + Len(q) :
             (p \o q)[k] = IF k <= Len(p) THEN p[k] ELSE q[k - Len(p)]
  BY <1>9, ConcatProperties
<1>11. Len(p) + Len(q) = Len(c) - 1
  BY <1>1, <1>2, <1>9
<1>12. /\ Drop(c, m) \in Seq(A) /\ Len(Drop(c, m)) = Len(c) - 1
       /\ \A k \in 1 .. Len(c) - 1 : Drop(c, m)[k] = IF k < m THEN c[k] ELSE c[k + 1]
  BY DropIs
<1>13. ASSUME NEW k \in 1 .. Len(c) - 1 PROVE (p \o q)[k] = Drop(c, m)[k]
  <2>1. CASE k < m
    <3>1. k \in 1 .. m - 1 /\ k <= Len(p)
      BY <1>1, <1>2, <1>9, <2>1
    <3> QED
      BY <1>9, <1>10, <1>11, <1>12, <2>1, <3>1
  <2>2. CASE ~(k < m)
    <3>1. /\ k - (m - 1) \in 1 .. Len(c) - m /\ ~(k <= Len(p)) /\ Len(p) = m - 1
          /\ m + (k - (m - 1)) = k + 1
      BY <1>1, <1>2, <1>9, <2>2
    <3> QED
      BY <1>9, <1>10, <1>11, <1>12, <2>2, <3>1
  <2> QED
    BY <2>1, <2>2
<1> DEFINE pq == p \o q
           d  == Drop(c, m)
<1>14. pq \in Seq(A) /\ d \in Seq(A) /\ Len(pq) = Len(d) /\ \A k \in 1 .. Len(d) : pq[k] = d[k]
  BY <1>10, <1>11, <1>12, <1>13
<1> HIDE DEF pq, d
<1>15. pq = d
  BY <1>14, SeqEqual
<1> QED
  BY <1>9, <1>15 DEF pq, d

\* Adding a child.
LEMMA InsertSimulation ==
    ASSUME ListInv, ListInv', NEW s, IsList(s), NEW i \in Ids, NEW t \in Tags,
           IoTCListInsertNode(i, t)
    PROVE  (\E r : IsList(r)') /\ C!Add([id |-> i, tg |-> t])
<1>1. PICK n \in Nodes \ Allocated :
           InsertFirst(n, i, t) \/ \E last \in Allocated : InsertBehind(last, n, i, t)
  BY DEF IoTCListInsertNode
<1> DEFINE a == Append(s, n)
           new == [id |-> i, tg |-> t]
           c == Contents(s, heap)
<1>2. /\ IsList(a)' /\ heap'[n].id = i /\ heap'[n].tg = t
      /\ \A m \in Allocated : heap'[m].id = heap[m].id /\ heap'[m].tg = heap[m].tg
  BY <1>1, InsertList
<1>3. /\ s \in Seq(Allocated) /\ Len(s) \in Nat
      /\ \A k \in 1 .. Len(s) : s[k] \in Allocated
  BY DEF IsList
<1>4. /\ Len(a) = Len(s) + 1 /\ (\A k \in 1 .. Len(s) : a[k] = s[k]) /\ a[Len(s) + 1] = n
  <2>1. s \in Seq(Allocated \cup {n})
    BY <1>3
  <2> QED
    BY <2>1, AppendProperties
<1>5. children = c
  BY ChildrenAre DEF ListInv
<1>6. children' = Contents(a, heap')
  BY <1>2, ChildrenAreNext DEF ListInv
<1>7. /\ c \in Seq(C!Child) /\ Len(c) = Len(s)
      /\ \A k \in 1 .. Len(s) : c[k] = [id |-> heap[s[k]].id, tg |-> heap[s[k]].tg]
  BY ContentsType
<1>8. new \in C!Child
  BY DEF C!Child
<1> HIDE DEF a, c, new
<1>9. /\ Append(c, new) \in Seq(C!Child) /\ Len(Append(c, new)) = Len(c) + 1
      /\ \A k \in 1 .. Len(c) : Append(c, new)[k] = c[k]
      /\ Append(c, new)[Len(c) + 1] = new
  BY <1>7, <1>8, AppendProperties
<1>10. Append(c, new) = [k \in 1 .. Len(s) + 1 |-> Append(c, new)[k]]
  <2> DEFINE e == Append(c, new)
  <2>1. e \in Seq(C!Child) /\ Len(e) = Len(s) + 1
    BY <1>7, <1>9
  <2> HIDE DEF e
  <2>2. e = [k \in 1 .. Len(s) + 1 |-> e[k]]
    BY <1>3, <2>1
  <2> QED
    BY <2>2 DEF e
<1>11. ASSUME NEW k \in 1 .. Len(s) + 1
       PROVE  Append(c, new)[k] = [id |-> heap'[a[k]].id, tg |-> heap'[a[k]].tg]
  <2>1. CASE k = Len(s) + 1
    BY <1>2, <1>4, <1>7, <1>9, <2>1 DEF new
  <2>2. CASE k # Len(s) + 1
    <3>1. k \in 1 .. Len(s)
      BY <1>3, <2>2
    <3>2. a[k] = s[k] /\ s[k] \in Allocated /\ Append(c, new)[k] = c[k]
      BY <1>3, <1>4, <1>7, <1>9, <3>1
    <3> QED
      BY <1>2, <1>7, <3>1, <3>2
  <2> QED
    BY <2>1, <2>2
<1>12. Contents(a, heap') = [k \in 1 .. Len(s) + 1 |-> [id |-> heap'[a[k]].id, tg |-> heap'[a[k]].tg]]
  BY <1>4 DEF Contents
<1>13. children' = Append(children, new)
  BY <1>5, <1>6, <1>10, <1>11, <1>12
<1> QED
  BY <1>2, <1>13 DEF C!Add, children, new

\* Removing the first child with an id.
LEMMA DeleteSimulation ==
    ASSUME ListInv, ListInv', NEW s, IsList(s), NEW i \in Ids, NEW n \in Allocated,
           Found(n, i), IoTCListDeleteNode(n)
    PROVE  (\E r : IsList(r)') /\ C!Remove_(i)
<1> DEFINE c == Contents(s, heap)
<1>1. List = s /\ DOMAIN s = 1 .. Len(s) /\ children = c
  BY ListIs, ChildrenAre DEF ListInv, IsList
<1>2. PICK m \in 1 .. Len(s) :
           n = s[m] /\ heap[n].id = i /\ \A j \in 1 .. m - 1 : heap[s[j]].id # i
  BY <1>1 DEF Found
<1>3. Unlinked(s[m])
  BY <1>2, DeleteUnlinks
<1> DEFINE d == Drop(s, m)
<1>4. IsList(d)'
  BY <1>3, UnlinkList
<1>5. children' = Contents(d, heap')
  BY <1>4, ChildrenAreNext DEF ListInv
<1>6. /\ s \in Seq(Allocated) /\ Len(s) \in Nat
      /\ \A k \in 1 .. Len(s) : s[k] \in Allocated
      /\ \A j, k \in 1 .. Len(s) : s[j] = s[k] => j = k
  BY DEF IsList
<1>7. /\ Len(d) = Len(s) - 1
      /\ \A k \in 1 .. Len(s) - 1 : d[k] = IF k < m THEN s[k] ELSE s[k + 1]
  BY <1>6, DropIs
<1>8. /\ c \in Seq(C!Child) /\ Len(c) = Len(s)
      /\ \A k \in 1 .. Len(s) : c[k] = [id |-> heap[s[k]].id, tg |-> heap[s[k]].tg]
  BY ContentsType
<1> HIDE DEF c, d
<1>9. C!Without(c, i) = Drop(c, m)
  <2>0. ASSUME NEW j \in 1 .. Len(s) PROVE c[j].id = heap[s[j]].id
    <3>1. c[j] = [id |-> heap[s[j]].id, tg |-> heap[s[j]].tg]
      BY <1>8
    <3> QED
      BY <3>1
  <2>1. c[m].id = i
    BY <1>2, <2>0
  <2>2. ASSUME NEW j \in 1 .. m - 1 PROVE c[j].id # i
    <3>1. j \in 1 .. Len(s)
      BY <1>6
    <3> QED
      BY <1>2, <2>0, <3>1
  <2> QED
    BY <1>8, <2>1, <2>2, WithoutIsDrop
<1>10. ASSUME NEW k \in 1 .. Len(s), k # m
       PROVE  [id |-> heap'[s[k]].id, tg |-> heap'[s[k]].tg] = c[k]
  <2>1. s[k] \in Allocated \ {s[m]}
    BY <1>6, <1>10
  <2> QED
    BY <1>3, <1>8, <2>1 DEF Unlinked
<1>11. ASSUME NEW k \in 1 .. Len(s) - 1
       PROVE  [id |-> heap'[d[k]].id, tg |-> heap'[d[k]].tg] = IF k < m THEN c[k] ELSE c[k + 1]
  <2>1. k \in 1 .. Len(s) /\ k + 1 \in 1 .. Len(s) /\ (k < m => k # m) /\ (~(k < m) => k + 1 # m)
    BY <1>6
  <2> QED
    BY <1>7, <1>10, <2>1
<1>12. Contents(d, heap') =
          [k \in 1 .. Len(s) - 1 |-> [id |-> heap'[d[k]].id, tg |-> heap'[d[k]].tg]]
  BY <1>7 DEF Contents
<1>13. Drop(c, m) = [k \in 1 .. Len(s) - 1 |-> IF k < m THEN c[k] ELSE c[k + 1]]
  BY <1>8 DEF Drop
<1>14. children' = C!Without(children, i)
  BY <1>1, <1>5, <1>9, <1>11, <1>12, <1>13
<1> QED
  BY <1>4, <1>14 DEF C!Remove_, children

\* A step that leaves the list alone.
LEMMA StutterSimulation ==
    ASSUME ListInv, ListInv', NEW s, IsList(s), UNCHANGED vars
    PROVE  IsList(s)' /\ children' = children
<1>1. IsList(s)'
  BY DEF IsList, vars, Allocated
<1>2. children = Contents(s, heap) /\ children' = Contents(s, heap')
  BY <1>1, ChildrenAre, ChildrenAreNext DEF ListInv
<1> QED
  BY <1>1, <1>2 DEF vars

\* Looking for a child that is not there.
LEMMA NotFoundSimulation ==
    ASSUME ListInv, ListInv', NEW s, IsList(s), NEW i \in Ids, NotFound(i), UNCHANGED vars
    PROVE  C!Remove_(i)
<1>1. \A k \in DOMAIN children : children[k].id # i
  BY DEF NotFound, children
<1>2. C!Without(children, i) = children
  BY <1>1 DEF C!Without
<1>3. children' = children
  BY StutterSimulation
<1> QED
  BY <1>2, <1>3 DEF C!Remove_, children

LEMMA ClearSimulation ==
    ASSUME ListInv, ListInv', IoTClistDelete
    PROVE  (\E r : IsList(r)') /\ C!Clear
<1>1. gwChildrenListHead' = NULL
  BY DEF IoTClistDelete
<1>2. IsList(<<>>)'
  BY <1>1 DEF IsList
<1>3. children' = Contents(<<>>, heap')
  BY <1>2, ChildrenAreNext DEF ListInv
<1>4. Contents(<<>>, heap') = <<>>
  BY DEF Contents
<1> QED
  BY <1>2, <1>3, <1>4 DEF C!Clear, children

\* The linked list implements a sequence of children, whatever the ids, tags and
\* addresses: IoTCListInsertNode appends, IoTCListDeleteNodeById removes the first
\* child with the id and leaves the others in their order, IoTClistDelete empties
\* the list.
THEOREM ChildrenImplemented == Spec => ImplementsChildren
<1> DEFINE Ordered == \E s : IsList(s)
<1>1. Init => Ordered /\ C!Init
  <2> SUFFICES ASSUME Init PROVE Ordered /\ C!Init
    OBVIOUS
  <2>1. Allocated = {}
    BY DEF Init, Allocated
  <2>2. IsList(<<>>)
    BY DEF IsList, Init
  <2>3. TypeOK
    BY <2>1 DEF Init, TypeOK
  <2>4. children = Contents(<<>>, heap)
    BY <2>2, <2>3, ChildrenAre
  <2>5. Contents(<<>>, heap) = <<>>
    BY DEF Contents
  <2> QED
    BY <2>2, <2>4, <2>5 DEF C!Init, children
<1>2. ListInv /\ ListInv' /\ Ordered /\ [Next]_vars => Ordered' /\ [C!Next]_children
  <2> SUFFICES ASSUME ListInv, ListInv', NEW s, IsList(s), [Next]_vars
               PROVE  (\E r : IsList(r)') /\ (C!Next \/ children' = children)
    OBVIOUS
  <2>1. ASSUME NEW i \in Ids, NEW t \in Tags, IoTCListInsertNode(i, t)
        PROVE  (\E r : IsList(r)') /\ C!Next
    <3>1. [id |-> i, tg |-> t] \in C!Child
      BY DEF C!Child
    <3> QED
      BY <2>1, <3>1, InsertSimulation DEF C!Next
  <2>2. ASSUME NEW i \in Ids, IoTCListDeleteNodeById(i)
        PROVE  (\E r : IsList(r)') /\ C!Next
    <3>1. CASE NotFound(i) /\ UNCHANGED vars
      BY <3>1, NotFoundSimulation, StutterSimulation DEF C!Next
    <3>2. ASSUME NEW n \in Allocated, Found(n, i), IoTCListDeleteNode(n)
          PROVE  (\E r : IsList(r)') /\ C!Next
      BY <3>2, DeleteSimulation DEF C!Next
    <3> QED
      BY <2>2, <3>1, <3>2 DEF IoTCListDeleteNodeById
  <2>3. CASE IoTClistDelete
    BY <2>3, ClearSimulation DEF C!Next
  <2>4. CASE UNCHANGED vars
    BY <2>4, StutterSimulation
  <2> QED
    BY <2>1, <2>2, <2>3, <2>4 DEF Next
<1>3. ImplementsChildren <=> C!Init /\ [][C!Next]_children
  BY DEF ImplementsChildren, C!Spec, children
<1> QED
  BY <1>1, <1>2, <1>3, ListInvHolds, PTL DEF Spec
=============================================================================
