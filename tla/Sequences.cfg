CONSTANTS
    Nodes = {n1, n2, n3}
    Entries = {e1, e2, e3, e4}
    Data = {1, 2, 3}
    ListPtr = listptr
    Null = null
    Lengths = {0, 1}
    MaxLength = 4
SPECIFICATION MCSpec
SYMMETRY Symmetry
INVARIANTS  ListIterationsExact
PROPERTIES SortSorts 
