----------------------------- MODULE BloomFilter -----------------------------
(***************************************************************************)
(* The Bloom filter of src/comm/bloom-filter.c: two filters, which may     *)
(* have been created with different parameters, and a third one for the    *)
(* result of bloom_filter_union and bloom_filter_intersection.  A table is *)
(* the set of its bits that are set.                                       *)
(***************************************************************************)
EXTENDS Integers, Sequences, FiniteSets, FiniteSetsExt

CONSTANTS
    Values,         \* hashed to themselves
    salts,          \* 64 in the code
    HashBits,       \* the width of an unsigned int
    Params,         \* pairs of a table_size and a num_functions
    Null

VARIABLES
    filter,         \* the three filters: [table_size, num_functions, table]
    inserted        \* history: the values each filter stands for

vars == <<filter, inserted>>

\* bloom_filter_new
NewFilter(p) == [table_size |-> p[1], num_functions |-> p[2], table |-> {}]

Init ==
    /\ \E p, q \in Params : filter = <<NewFilter(p), NewFilter(q), Null>>
    /\ inserted = <<{}, {}, {}>>

\* a ^ b, bit by bit.
Xor(a, b) ==
    MapThenSumSet(LAMBDA k : 2^k * ((a \div 2^k + b \div 2^k) % 2), 0 .. HashBits - 1)

\* The bit of value v for the i-th of f's functions.
Index(f, v, i) == Xor(v, salts[i]) % f.table_size

Indexes(f, v) == {Index(f, v, i) : i \in 1 .. f.num_functions}

Exists(i) == filter[i] # Null

bloom_filter_insert(i, v) ==
    /\ Exists(i)
    /\ filter' = [filter EXCEPT ![i].table = @ \cup Indexes(filter[i], v)]
    /\ inserted' = [inserted EXCEPT ![i] = @ \cup {v}]

bloom_filter_query(f, v) == Indexes(f, v) \subseteq f.table

\* Mutant: tables of the same size are enough.
Compatible_size(f, g) == f.table_size = g.table_size

\* Created with the same values.
Compatible(f, g) == f.table_size = g.table_size /\ f.num_functions = g.num_functions

\* The third filter becomes a new one with that table.
Combine(table, values) ==
    /\ Compatible(filter[1], filter[2])
    /\ filter' = [filter EXCEPT ![3] = [filter[1] EXCEPT !.table = table]]
    /\ inserted' = [inserted EXCEPT ![3] = values]

bloom_filter_union ==
    Combine(filter[1].table \cup filter[2].table, inserted[1] \cup inserted[2])

bloom_filter_intersection ==
    Combine(filter[1].table \cap filter[2].table, inserted[1] \cap inserted[2])

\* bloom_filter_read from one filter and bloom_filter_load into another that was
\* created with the same values.
bloom_filter_load(i, j) ==
    /\ Exists(i) /\ Exists(j) /\ Compatible(filter[i], filter[j])
    /\ filter' = [filter EXCEPT ![j].table = filter[i].table]
    /\ inserted' = [inserted EXCEPT ![j] = inserted[i]]

\* bloom_filter_free, and bloom_filter_new for the next operand.
bloom_filter_free(i) ==
    /\ \E p \in Params : filter' = [filter EXCEPT ![i] = IF i = 3 THEN Null ELSE NewFilter(p)]
    /\ inserted' = [inserted EXCEPT ![i] = {}]

Next ==
    \/ \E i \in 1 .. 3, v \in Values : bloom_filter_insert(i, v)
    \/ bloom_filter_union \/ bloom_filter_intersection
    \/ \E i, j \in 1 .. 3 : bloom_filter_load(i, j)
    \/ \E i \in 1 .. 3 : bloom_filter_free(i)

Spec == Init /\ [][Next]_vars

-----------------------------------------------------------------------------
(* Properties.                                                             *)

\* A value that was inserted is found: in the union if it was inserted into
\* either filter, in the intersection if into both, and after any sequence of
\* insertions, copies and combinations.
NoFalseNegatives ==
    \A i \in 1 .. 3 : Exists(i) =>
        \A v \in inserted[i] : bloom_filter_query(filter[i], v)

=============================================================================
