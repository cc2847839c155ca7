------------------------------- MODULE MCHeaps -------------------------------
(***************************************************************************)
(* Both heaps for TLC: a behaviour uses one of them.                       *)
(***************************************************************************)
EXTENDS Integers, Sequences, FiniteSets

CONSTANTS Values, Null, InitialSize, MaxValues

VARIABLES
    which,                                              \* the heap in use
    heap_type,
    values, num_values, ret,                            \* the binary heap
    tree, roots, bin_num_values, bin_ret                \* the binomial heap

binary   == <<values, num_values, ret>>
binomial == <<tree, roots, bin_num_values, bin_ret>>
vars     == <<which, heap_type, binary, binomial>>

B == INSTANCE BinaryHeap
N == INSTANCE BinomialHeap WITH num_values <- bin_num_values, ret <- bin_ret

Init == which \in {"binary", "binomial"} /\ B!Init /\ N!Init

Next ==
    /\ \/ which = "binary" /\ B!Next /\ UNCHANGED binomial
       \/ which = "binomial" /\ N!Next /\ UNCHANGED binary
    /\ UNCHANGED which

Spec == Init /\ [][Next]_vars

\* The binary heap and the binomial heap are priority queues: what is popped is
\* least, and a call that finds no memory loses nothing.
ArePriorityQueues == B!ImplementsPriorityQueue /\ N!ImplementsPriorityQueue

\* No tree of the binomial heap is lost, freed too early or out of shape.
ForestExact == N!ForestExact

-----------------------------------------------------------------------------
\* Addresses are only compared: a state of the binomial heap is known by the
\* trees under its roots, with their counts, and the number of allocated ones.
RECURSIVE Shape(_)
Shape(t) ==
    IF t \notin DOMAIN tree THEN <<>>
    ELSE <<tree[t].value, tree[t].refcount,
           [i \in DOMAIN tree[t].subtrees |-> Shape(tree[t].subtrees[i])]>>

View == <<which, heap_type, binary, [i \in DOMAIN roots |-> Shape(roots[i])],
          Cardinality(DOMAIN tree), bin_num_values, bin_ret>>

=============================================================================
