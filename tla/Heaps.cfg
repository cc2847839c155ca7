CONSTANTS
    Values = {1, 2, 3}
    Null = null
    InitialSize = 2
    MaxValues = 7
SPECIFICATION Spec
VIEW View
INVARIANTS ForestExact
PROPERTIES ArePriorityQueues
