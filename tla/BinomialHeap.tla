----------------------------- MODULE BinomialHeap -----------------------------
(***************************************************************************)
(* The binomial heap of src/comm/binomial-heap.c.  Its trees are counted   *)
(* references: a merge builds new trees that share the subtrees of the old *)
(* ones, and when an allocation fails in the middle it has to give back    *)
(* every tree and every reference it took.                                 *)
(*                                                                         *)
(* The memory is a function from the addresses of the allocated trees to   *)
(* the trees; the order of a tree is the number of its subtrees.           *)
(***************************************************************************)
EXTENDS Integers, Sequences, FiniteSets, SequencesExt, TLC

CONSTANTS
    Values,         \* ordered as numbers (compare_func)
    Null,           \* NULL, and BINOMIAL_HEAP_NULL
    MaxValues       \* bound: values in the heap

VARIABLES
    heap_type,      \* "MIN" or "MAX"
    tree,           \* the allocated trees: [value, refcount, subtrees]
    roots,          \* the tree of each order, or Null
    num_values,
    ret             \* the result of the last call

vars == <<heap_type, tree, roots, num_values, ret>>

None == [t \in {} |-> Null]

Init ==
    /\ heap_type \in {"MIN", "MAX"}
    /\ tree = None /\ roots = <<>> /\ num_values = 0
    /\ ret = Null

\* binomial_heap_cmp
Cmp(v, w) == IF heap_type = "MIN" THEN v - w ELSE w - v

-----------------------------------------------------------------------------
(* References.                                                             *)

\* The address malloc returns, and the memory with tree x at t, and without it.
Fresh(m) == CHOOSE t \in 1 .. Cardinality(DOMAIN m) + 1 : t \notin DOMAIN m
With(m, t, x) == (t :> x) @@ m
Without(m, t) == None @@ Restrict(m, DOMAIN m \ {t})

ref(m, t) == IF t = Null THEN m ELSE [m EXCEPT ![t].refcount = @ + 1]

\* The last reference takes the tree with it, and its references.
RECURSIVE unref(_, _)
unref(m, t) ==
    IF t = Null THEN m
    ELSE IF m[t].refcount > 1 THEN [m EXCEPT ![t].refcount = @ - 1]
    ELSE Without(FoldLeft(unref, m, m[t].subtrees), t)

-----------------------------------------------------------------------------
(* Merging.                                                                *)

\* binomial_tree_merge: a copy of the tree with the smaller root, with the
\* other one as its last subtree.  The result and the memory.
tree_merge(m, t1, t2) ==
    LET swap == Cmp(m[t1].value, m[t2].value) > 0
        least == IF swap THEN t2 ELSE t1
        subs == Append(m[least].subtrees, IF swap THEN t1 ELSE t2)
        new == [value |-> m[least].value, refcount |-> 0, subtrees |-> subs]
    IN [t |-> Fresh(m), m |-> FoldLeft(ref, With(m, Fresh(m), new), subs)]

\* Mutant: the carry keeps its reference.
Undone_carried(m, new_roots, carry) == FoldLeft(unref, m, new_roots)

\* binomial_heap_merge_undo, and the carry.
Undone(m, new_roots, carry) == unref(FoldLeft(unref, m, new_roots), carry)

At(rs, i) == IF i \in DOMAIN rs THEN rs[i] ELSE Null

\* One turn of the loop of binomial_heap_merge for the roots of order i - 1; s
\* has the memory, the new roots, the carry, and how many trees can still be
\* allocated.
MergeTurn(s, i, other, old) ==
    LET vals == SelectSeq(<<At(old, i), At(other, i), s.carry>>, LAMBDA t : t # Null)
        n == Len(vals)
        kept == IF n % 2 = 1 THEN vals[n] ELSE Null
        new == Append(s.new_roots, kept)
        m == ref(s.m, kept)
        merged == tree_merge(m, vals[1], vals[2])
    IN IF s.failed THEN s
       ELSE IF n < 2
       THEN [s EXCEPT !.m = unref(m, s.carry), !.new_roots = new, !.carry = Null]
       ELSE IF s.memory = 0
       THEN [s EXCEPT !.m = Undone(m, new, s.carry), !.failed = TRUE]
       ELSE [s EXCEPT !.m = ref(unref(merged.m, s.carry), merged.t),
                      !.new_roots = new, !.carry = merged.t, !.memory = @ - 1]

\* binomial_heap_merge of the roots old with the roots other, with memory for
\* that many trees.  When it does not fail the old roots are unreferenced.
heap_merge(m, old, other, memory) ==
    LET max == 1 + IF Len(old) > Len(other) THEN Len(old) ELSE Len(other)
        start == [m |-> m, new_roots |-> <<>>, carry |-> Null,
                  memory |-> memory, failed |-> FALSE]
        end == FoldLeft(LAMBDA s, i : MergeTurn(s, i, other, old), start,
                        [i \in 1 .. max |-> i])
    IN IF end.failed THEN end ELSE [end EXCEPT !.m = FoldLeft(unref, end.m, old)]

\* new_roots_length: up to the last root there is.
Trimmed(rs) ==
    LET there == {i \in DOMAIN rs : rs[i] # Null}
    IN SubSeq(rs, 1, IF there = {} THEN 0 ELSE CHOOSE i \in there : \A j \in there : j <= i)

-----------------------------------------------------------------------------
(* The calls.  memory is the number of trees their merge can allocate.     *)

\* The new value is merged as a heap of one tree, whose reference is then
\* dropped.
binomial_heap_insert(v, memory) ==
    LET t == Fresh(tree)
        new == [value |-> v, refcount |-> 1, subtrees |-> <<>>]
        end == heap_merge(With(tree, t, new), roots, <<t>>, memory)
    IN /\ num_values < MaxValues
       /\ tree' = unref(end.m, t)
       /\ IF end.failed
          THEN ret' = 0 /\ UNCHANGED <<roots, num_values>>
          ELSE /\ roots' = Trimmed(end.new_roots)
               /\ num_values' = num_values + 1
               /\ ret' = 1
       /\ UNCHANGED heap_type

\* No memory for the new tree, or for the array of roots.
binomial_heap_insert_fails ==
    /\ ret' = 0
    /\ UNCHANGED <<heap_type, tree, roots, num_values>>

\* Mutant: the first tree there is.
Least_first == CHOOSE i \in DOMAIN roots : roots[i] # Null /\ \A j \in 1 .. i - 1 : roots[j] = Null

\* The first of the trees with the least root.
Least ==
    CHOOSE i \in DOMAIN roots :
        /\ roots[i] # Null
        /\ \A j \in DOMAIN roots : roots[j] # Null =>
              LET c == Cmp(tree[roots[i]].value, tree[roots[j]].value)
              IN c < 0 \/ (c = 0 /\ i <= j)

\* The subtrees of the least tree are merged back into the heap without it.
binomial_heap_pop(memory) ==
    LET least == roots[Least]
        end == heap_merge(tree, [roots EXCEPT ![Least] = Null], tree[least].subtrees, memory)
    IN /\ num_values > 0
       /\ IF end.failed
          THEN /\ tree' = end.m
               /\ ret' = Null /\ UNCHANGED <<roots, num_values>>
          ELSE /\ tree' = unref(end.m, least)
               /\ roots' = Trimmed(end.new_roots)
               /\ num_values' = num_values - 1
               /\ ret' = tree[least].value
       /\ UNCHANGED heap_type

\* The heap is empty, or there is no memory for the array of roots.
binomial_heap_pop_null ==
    /\ ret' = Null
    /\ UNCHANGED <<heap_type, tree, roots, num_values>>

binomial_heap_num_entries ==
    /\ ret' = num_values
    /\ UNCHANGED <<heap_type, tree, roots, num_values>>

\* binomial_heap_free, and binomial_heap_new for the next heap.
binomial_heap_free ==
    /\ tree' = FoldLeft(unref, tree, roots)
    /\ roots' = <<>> /\ num_values' = 0
    /\ ret' = Null
    /\ UNCHANGED heap_type

Next ==
    \/ \E memory \in 0 .. Len(roots) :
          (\E v \in Values : binomial_heap_insert(v, memory)) \/ binomial_heap_pop(memory)
    \/ binomial_heap_insert_fails \/ binomial_heap_pop_null
    \/ binomial_heap_num_entries \/ binomial_heap_free

Spec == Init /\ [][Next]_vars

-----------------------------------------------------------------------------
(* Properties.                                                             *)

\* Each allocated tree has one reference, and counts it.
References(t) ==
    Cardinality({i \in DOMAIN roots : roots[i] = t})
    + Cardinality({u \in DOMAIN tree : t \in Range(tree[u].subtrees)})
RefcountsExact ==
    /\ \A t \in DOMAIN tree : References(t) = 1 /\ tree[t].refcount = 1
    /\ Cardinality(DOMAIN tree) = num_values

\* The tree of order k has subtrees of order 0 to k - 1 and no value before its
\* root, and the array of roots ends with a tree.
BinomialShape ==
    LET order(t) == Len(tree[t].subtrees) IN
    /\ \A i \in DOMAIN roots : roots[i] # Null => order(roots[i]) = i - 1
    /\ \A t \in DOMAIN tree : \A i \in DOMAIN tree[t].subtrees :
          LET sub == tree[t].subtrees[i]
          IN order(sub) = i - 1 /\ Cmp(tree[t].value, tree[sub].value) <= 0
    /\ roots # <<>> => Last(roots) # Null

\* Between calls the allocated trees are exactly those of the heap, whichever
\* allocation of which merge failed: none is lost, none is freed too early, and
\* they are binomial trees.
ForestExact == RefcountsExact /\ BinomialShape

\* The values of the allocated trees.
Bag == [v \in Values |-> Cardinality({t \in DOMAIN tree : tree[t].value = v})]
Queue == INSTANCE PriorityQueue WITH bag <- Bag, PopAllocates <- TRUE

\* Every call returns what a priority queue would, and one that fails in the
\* middle of a merge leaves the heap as it was.
ImplementsPriorityQueue == Queue!Spec

=============================================================================
