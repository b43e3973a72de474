\* Three items in three nodes that are freed and allocated again.
CONSTANTS
    n1 = n1
    n2 = n2
    n3 = n3
    a = a
    b = b
    c = c
    Null = Null
    Nodes <- MCNodes
    Items <- MCItems
SPECIFICATION Spec
CHECK_DEADLOCK FALSE
INVARIANTS TypeOK WellLinked
PROPERTIES ImplementsItemSeq
