SPECIFICATION Spec
CONSTANTS
    Ids = {1, 2, 3}
    Tags = {a, b}
    Nodes = {n1, n2, n3, n4}
    NULL = NULL
SYMMETRY NodeSymmetry
INVARIANTS DoublyLinked NoLeak
PROPERTY ImplementsChildren
