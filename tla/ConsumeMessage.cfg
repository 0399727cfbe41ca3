CONSTANTS
    n1 = n1
    n2 = n2
    Nodes = {n1, n2}
    Unset = Unset
    MaxMessages = 4
SPECIFICATION Spec
INVARIANTS TypeOK AtMostOnce
PROPERTIES OffsetNeverBack ImplementsTopic
