---------------------------- MODULE MCChildList ----------------------------
(* Four nodes: the shortest list in which a node between two others is      *)
(* removed and a node is appended behind what is left.                      *)
EXTENDS ChildList, TLC

NodeSymmetry == Permutations(Nodes)
=============================================================================
