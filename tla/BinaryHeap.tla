------------------------------ MODULE BinaryHeap ------------------------------
(***************************************************************************)
(* The binary heap of src/comm/binary-heap.c: a complete binary tree in an *)
(* array that is doubled when it is full.                                  *)
(***************************************************************************)
EXTENDS Integers, FiniteSets, FiniteSetsExt

CONSTANTS
    Values,         \* ordered as numbers (compare_func)
    Null,           \* BINARY_HEAP_NULL
    InitialSize,    \* 16 in the code
    MaxValues       \* bound: values in the heap

VARIABLES
    heap_type,      \* "MIN" or "MAX"
    values,         \* the array, [0 .. alloced_size - 1 -> Values]
    num_values,
    ret             \* the result of the last call

vars == <<heap_type, values, num_values, ret>>

alloced_size == Cardinality(DOMAIN values)

\* What malloc and realloc return: never read before it is written.
Array(n) == [i \in 0 .. n - 1 |-> Null]

Init ==
    /\ heap_type \in {"MIN", "MAX"}
    /\ values = Array(InitialSize) /\ num_values = 0
    /\ ret = Null

\* binary_heap_cmp
Cmp(v, w) == IF heap_type = "MIN" THEN v - w ELSE w - v

-----------------------------------------------------------------------------
(* Inserting.                                                              *)

Full == num_values >= alloced_size

\* The array binary_heap_insert goes on with.
Grown ==
    IF Full
    THEN [i \in 0 .. 2 * alloced_size - 1 |-> IF i < alloced_size THEN values[i] ELSE Null]
    ELSE values

Parent(i) == (i - 1) \div 2

\* The slots from the bottom up to the one where v stays.
UpPath(v) ==
    LET up[i \in 0 .. num_values] ==
            {i} \cup IF i = 0 THEN {}
                     ELSE IF Cmp(values[Parent(i)], v) < 0 THEN {} ELSE up[Parent(i)]
    IN up[num_values]

\* Each slot of the path takes the value of its parent, the highest takes v.
binary_heap_insert(v) ==
    LET path == UpPath(v) IN
    /\ num_values < MaxValues
    /\ values' = [i \in DOMAIN Grown |->
                    IF i = Min(path) THEN v
                    ELSE IF i \in path THEN values[Parent(i)] ELSE Grown[i]]
    /\ num_values' = num_values + 1
    /\ ret' = 1
    /\ UNCHANGED heap_type

\* No memory for the larger array.
binary_heap_insert_fails ==
    /\ Full
    /\ ret' = 0
    /\ UNCHANGED <<heap_type, values, num_values>>

-----------------------------------------------------------------------------
(* Popping.                                                                *)

\* Mutant: the left child whenever it is before v.
Child_left(i, v, n) ==
    LET c1 == 2 * i + 1  c2 == 2 * i + 2 IN
    IF c1 < n /\ Cmp(v, values[c1]) > 0 THEN c1
    ELSE IF c2 < n /\ Cmp(v, values[c2]) > 0 THEN c2 ELSE i

\* The child of slot i, of n, that v changes places with; i when v stays.
Child(i, v, n) ==
    LET c1 == 2 * i + 1
        c2 == 2 * i + 2
        left == c1 < n /\ Cmp(v, values[c1]) > 0
        right == c2 < n /\ Cmp(IF left THEN values[c1] ELSE v, values[c2]) > 0
    IN IF right THEN c2 ELSE IF left THEN c1 ELSE i

\* The slots from the top down to the one where v stays.
DownPath(v, n) ==
    LET down[i \in 0 .. n] ==
            {i} \cup IF Child(i, v, n) = i THEN {} ELSE down[Child(i, v, n)]
    IN down[0]

\* Each slot of the path takes the value of the next, the lowest takes the last
\* value of the array.
binary_heap_pop ==
    LET n == num_values - 1
        v == values[n]
        path == DownPath(v, n)
    IN /\ num_values > 0
       /\ values' = [i \in DOMAIN values |->
                        IF i = Max(path) THEN v
                        ELSE IF i \in path THEN values[Child(i, v, n)] ELSE values[i]]
       /\ num_values' = n
       /\ ret' = values[0]
       /\ UNCHANGED heap_type

binary_heap_pop_empty ==
    /\ num_values = 0
    /\ ret' = Null
    /\ UNCHANGED <<heap_type, values, num_values>>

-----------------------------------------------------------------------------
binary_heap_num_entries ==
    /\ ret' = num_values
    /\ UNCHANGED <<heap_type, values, num_values>>

\* binary_heap_free, and binary_heap_new for the next heap.
binary_heap_free ==
    /\ values' = Array(InitialSize) /\ num_values' = 0
    /\ ret' = Null
    /\ UNCHANGED heap_type

Next ==
    \/ \E v \in Values : binary_heap_insert(v)
    \/ binary_heap_insert_fails
    \/ binary_heap_pop \/ binary_heap_pop_empty
    \/ binary_heap_num_entries \/ binary_heap_free

Spec == Init /\ [][Next]_vars

-----------------------------------------------------------------------------
(* Properties.                                                             *)

Bag == [v \in Values |-> Cardinality({i \in 0 .. num_values - 1 : values[i] = v})]
Queue == INSTANCE PriorityQueue WITH bag <- Bag, PopAllocates <- FALSE

\* Whatever the order of the calls, the growth and the values left behind in the
\* array, every call returns what a priority queue would.
ImplementsPriorityQueue == Queue!Spec

=============================================================================
