SPECIFICATION Spec
CONSTANTS
    Element <- MCElement
    comparator <- LaterFirst
    MaxSize = 5
    EndTimes = {1, 2, 3}
INVARIANTS
    AlwaysHeap
PROPERTIES
    ImplementsBag
