----------------------------- MODULE ChildList -----------------------------
(***************************************************************************)
(* The doubly linked list of gateway children of dx_avnet_iot_connect.c,   *)
(* pointers and heap included.  The list routines run to the end on the    *)
(* event loop, so each is one step; a walk along the next pointers is the  *)
(* sequence of nodes it visits.                                            *)
(***************************************************************************)
EXTENDS Integers, Sequences, FiniteSets

CONSTANTS Ids, Tags,
          Nodes,        \* heap addresses
          NULL

ASSUME NodesAssumption == IsFiniteSet(Nodes) /\ NULL \notin Nodes

VARIABLES gwChildrenListHead,
          heap          \* the allocated nodes: a function from addresses to nodes

vars == <<gwChildrenListHead, heap>>

gw_child_list_node_t ==
    [next : Nodes \cup {NULL}, prev : Nodes \cup {NULL}, id : Ids, tg : Tags]

Allocated == DOMAIN heap

-----------------------------------------------------------------------------
\* The k-th node of the walk from the head, NULL after the last.
Walk ==
    LET p[k \in 0 .. Cardinality(Nodes)] ==
            IF k = 0 THEN gwChildrenListHead
            ELSE IF p[k - 1] \in Allocated THEN heap[p[k - 1]].next ELSE NULL
    IN  p

\* The nodes from the head on, in order.
List == LET n == Cardinality({k \in DOMAIN Walk : Walk[k] # NULL})
        IN  [k \in 1 .. n |-> Walk[k - 1]]

\* The same nodes as a set: the smallest one that holds the head and the next
\* node of each of its members.
Closed(S) ==
    /\ gwChildrenListHead # NULL => gwChildrenListHead \in S
    /\ \A n \in S : heap[n].next # NULL => heap[n].next \in S

Listed == {n \in Allocated : \A S \in SUBSET Allocated : Closed(S) => n \in S}

\* Mutant: the last node with this id.
BugFound(n, i) ==
    \E k \in DOMAIN List :
        /\ n = List[k]
        /\ heap[n].id = i
        /\ \A j \in k + 1 .. Len(List) : heap[List[j]].id # i

\* The first node with this id: what IoTCListFindNodeById returns.
Found(n, i) ==
    \E k \in DOMAIN List :
        /\ n = List[k]
        /\ heap[n].id = i
        /\ \A j \in 1 .. k - 1 : heap[List[j]].id # i

NotFound(i) == \A k \in DOMAIN List : heap[List[k]].id # i

-----------------------------------------------------------------------------
Free(f, n) == [m \in DOMAIN f \ {n} |-> f[m]]

IoTCListGetNewNode(n, i, t) ==
    [m \in Allocated \cup {n} |->
        IF m = n THEN [next |-> NULL, prev |-> NULL, id |-> i, tg |-> t] ELSE heap[m]]

\* A new node n becomes the head of an empty list
InsertFirst(n, i, t) ==
    /\ gwChildrenListHead = NULL
    /\ gwChildrenListHead' = n
    /\ heap' = IoTCListGetNewNode(n, i, t)

\* Mutant: the new node is not linked back.
BugInsertBehind(last, n, i, t) ==
    /\ last \in Listed
    /\ heap[last].next = NULL
    /\ heap' = [IoTCListGetNewNode(n, i, t) EXCEPT ![last].next = n]
    /\ UNCHANGED gwChildrenListHead

\* or follows the last node.
InsertBehind(last, n, i, t) ==
    /\ last \in Listed
    /\ heap[last].next = NULL
    /\ heap' = [IoTCListGetNewNode(n, i, t) EXCEPT ![last].next = n, ![n].prev = last]
    /\ UNCHANGED gwChildrenListHead

IoTCListInsertNode(i, t) ==
    \E n \in Nodes \ Allocated :
        \/ InsertFirst(n, i, t)
        \/ \E last \in Allocated : InsertBehind(last, n, i, t)

\* Mutant: removing the head drops the rest of the list.
BugDeleteHead(n) ==
    /\ gwChildrenListHead = n
    /\ gwChildrenListHead' = NULL
    /\ heap' = Free(heap, n)

\* The three cases of IoTCListDeleteNode: the head,
DeleteHead(n) ==
    /\ gwChildrenListHead = n
    /\ gwChildrenListHead' = heap[n].next
    /\ heap' = Free(IF heap[n].next = NULL THEN heap
                    ELSE [heap EXCEPT ![heap[n].next].prev = NULL], n)

\* the last node,
DeleteLast(n) ==
    /\ gwChildrenListHead # n
    /\ heap[n].next = NULL
    /\ heap' = Free([heap EXCEPT ![heap[n].prev].next = NULL], n)
    /\ UNCHANGED gwChildrenListHead

\* and a node between two others.
DeleteInner(n) ==
    /\ gwChildrenListHead # n
    /\ heap[n].next # NULL
    /\ heap' = Free([heap EXCEPT ![heap[n].prev].next = heap[n].next,
                                ![heap[n].next].prev = heap[n].prev], n)
    /\ UNCHANGED gwChildrenListHead

IoTCListDeleteNode(n) == DeleteHead(n) \/ DeleteLast(n) \/ DeleteInner(n)

IoTCListDeleteNodeById(i) ==
    \/ \E n \in Allocated : Found(n, i) /\ IoTCListDeleteNode(n)
    \/ NotFound(i) /\ UNCHANGED vars

IoTClistDelete ==
    /\ heap' = [n \in Allocated \ Listed |-> heap[n]]
    /\ gwChildrenListHead' = NULL

-----------------------------------------------------------------------------
Init == gwChildrenListHead = NULL /\ heap = [n \in {} |-> NULL]

Next == \/ \E i \in Ids, t \in Tags : IoTCListInsertNode(i, t)
        \/ \E i \in Ids : IoTCListDeleteNodeById(i)
        \/ IoTClistDelete

Spec == Init /\ [][Next]_vars

-----------------------------------------------------------------------------
\* Every allocated node and the head have their C types.
TypeOK == /\ gwChildrenListHead \in Nodes \cup {NULL}
          /\ Allocated \subseteq Nodes
          /\ heap \in [Allocated -> gw_child_list_node_t]

\* No pointer dangles after a node is freed and the two directions agree, so
\* the three cases of IoTCListDeleteNode never follow a NULL or freed pointer:
\* every node but the head has a predecessor that points to it.
DoublyLinked ==
    /\ gwChildrenListHead # NULL =>
        /\ gwChildrenListHead \in Allocated
        /\ heap[gwChildrenListHead].prev = NULL
    /\ \A n \in Allocated :
        /\ heap[n].next # NULL =>
            /\ heap[n].next \in Allocated
            /\ heap[heap[n].next].prev = n
        /\ heap[n].prev # NULL =>
            /\ heap[n].prev \in Allocated
            /\ heap[heap[n].prev].next = n
        /\ heap[n].prev = NULL => gwChildrenListHead = n

\* Every allocated node is on the list: none leaks.
NoLeak == Allocated = Listed

\* The list implements a sequence of children.
C == INSTANCE Children WITH
        children <- [k \in DOMAIN List |-> [id |-> heap[List[k]].id, tg |-> heap[List[k]].tg]]

ImplementsChildren == C!Spec
=============================================================================
