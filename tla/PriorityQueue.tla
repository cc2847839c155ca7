---------------------------- MODULE PriorityQueue ----------------------------
(***************************************************************************)
(* What a heap promises: a bag of values, of which pop takes the first in  *)
(* the order of the heap's type.  A call that finds no memory changes      *)
(* nothing: an insertion returns 0, and a pop, where it allocates, Null.   *)
(***************************************************************************)
EXTENDS Integers, FiniteSets, FiniteSetsExt

CONSTANTS
    Values, Null,
    PopAllocates    \* whether pop needs memory

VARIABLES
    heap_type,  \* "MIN" or "MAX"
    bag,        \* how often each value is in the heap
    ret         \* the result of the last call

vars == <<heap_type, bag, ret>>

Empty == [v \in Values |-> 0]

Init == heap_type \in {"MIN", "MAX"} /\ bag = Empty /\ ret = Null

\* v comes out no later than w.
Before(v, w) == IF heap_type = "MIN" THEN v <= w ELSE v >= w

Size == MapThenSumSet(LAMBDA v : bag[v], Values)

Insert(v) == bag' = [bag EXCEPT ![v] = @ + 1] /\ ret' = 1

Fails(r) == ret' = r /\ UNCHANGED bag

Pop ==
    IF bag = Empty
    THEN Fails(Null)
    ELSE \E v \in Values :
            /\ bag[v] > 0 /\ \A w \in Values : bag[w] > 0 => Before(v, w)
            /\ bag' = [bag EXCEPT ![v] = @ - 1]
            /\ ret' = v

Count == ret' = Size /\ UNCHANGED bag

\* The heap is freed and another one created.
Clear == bag' = Empty /\ ret' = Null

Next ==
    /\ \/ \E v \in Values : Insert(v)
       \/ Fails(0)
       \/ PopAllocates /\ Fails(Null)
       \/ Pop \/ Count \/ Clear
    /\ UNCHANGED heap_type

Spec == Init /\ [][Next]_vars

=============================================================================
