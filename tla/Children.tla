------------------------------ MODULE Children ------------------------------
(***************************************************************************)
(* What the list of gateway children promises: it is a sequence to which   *)
(* entries are appended, from which the first entry with an id is removed, *)
(* and which can be emptied.                                               *)
(***************************************************************************)
EXTENDS SequencesExt

CONSTANTS Ids, Tags

VARIABLE children

Child == [id : Ids, tg : Tags]

\* The sequence without its first child that has this id.
Without(s, i) ==
    LET at == {k \in DOMAIN s : s[k].id = i}
    IN  IF at = {} THEN s ELSE RemoveAt(s, Min(at))

Init == children = <<>>

Add(c) == children' = Append(children, c)

Remove_(i) == children' = Without(children, i)

Clear == children' = <<>>

Next == \/ \E c \in Child : Add(c)
        \/ \E i \in Ids : Remove_(i)
        \/ Clear

Spec == Init /\ [][Next]_children
=============================================================================
