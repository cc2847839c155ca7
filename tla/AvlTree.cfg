CONSTANTS
    Nodes = {n1, n2, n3, n4, n5, n6, n7, n8, n9, n10, n11, n12}
    Keys = {1, 2}
    Null = null
SPECIFICATION Spec
VIEW Shape
INVARIANTS BalancedSearchTree
PROPERTIES StableOrder
