--------------------------------- MODULE Trie ---------------------------------
(***************************************************************************)
(* The trie of src/comm/trie.c.  A key is a sequence of characters.  Every *)
(* node has one pointer to it, so a node is known by the path that leads   *)
(* to it; its use_count says how many keys go through it.  An insertion    *)
(* may find no memory at any depth and is then rolled back.                *)
(***************************************************************************)
EXTENDS Integers, Sequences, FiniteSets, SequencesExt

CONSTANTS
    Keys,       \* a set of sequences
    Values,
    Null        \* TRIE_NULL

VARIABLES
    node,       \* the allocated nodes, by path: [data, use_count]
    ret         \* the result of the last call

vars == <<node, ret>>

None == [p \in {} |-> Null]

Init == node = None /\ ret = Null

\* The paths of the nodes that a key goes through, its own included.
Path(k) == {SubSeq(k, 1, n) : n \in 0 .. Len(k)}

\* trie_find_end finds a node.
Found(k) == Path(k) \subseteq DOMAIN node

Present(k) == Found(k) /\ node[k].data # Null

\* Nodes m with every node of ps counted once more, created where it is missing.
CountUp(m, ps) ==
    [p \in DOMAIN m \cup ps |->
        IF p \notin DOMAIN m THEN [data |-> Null, use_count |-> 1]
        ELSE IF p \in ps THEN [m[p] EXCEPT !.use_count = @ + 1] ELSE m[p]]

\* Mutant: a node that nobody uses is kept.
CountDown_keeps(m, ps) ==
    [p \in DOMAIN m |-> IF p \in ps THEN [m[p] EXCEPT !.use_count = @ - 1] ELSE m[p]]

\* Every node of ps counted once less, and freed when nobody uses it.
CountDown(m, ps) ==
    [p \in {q \in DOMAIN m : q \in ps => m[q].use_count > 1} |->
        IF p \in ps THEN [m[p] EXCEPT !.use_count = @ - 1] ELSE m[p]]

\* Mutant: a key that is there is counted again.
trie_insert_counts(k, v) ==
    /\ node' = [CountUp(node, Path(k)) EXCEPT ![k].data = v]
    /\ ret' = 1

\* The value of a key that is there is replaced.
trie_insert(k, v) ==
    /\ node' = [(IF Present(k) THEN node ELSE CountUp(node, Path(k))) EXCEPT ![k].data = v]
    /\ ret' = 1

\* No memory for the node of path p: trie_insert_rollback, on the nodes that are
\* there by then.
trie_insert_fails(k, p) ==
    LET above == {q \in Path(k) : Len(q) < Len(p)} IN
    /\ p \in Path(k) \ DOMAIN node
    /\ node' = CountDown(CountUp(node, above), above)
    /\ ret' = 0

\* TRIE_NULL cannot be inserted.
trie_insert_null == ret' = 0 /\ UNCHANGED node

trie_remove(k) ==
    IF Present(k)
    THEN node' = CountDown([node EXCEPT ![k].data = Null], Path(k)) /\ ret' = 1
    ELSE ret' = 0 /\ UNCHANGED node

trie_lookup(k) == ret' = (IF Found(k) THEN node[k].data ELSE Null) /\ UNCHANGED node

trie_num_entries ==
    /\ ret' = IF <<>> \in DOMAIN node THEN node[<<>>].use_count ELSE 0
    /\ UNCHANGED node

\* trie_free, and trie_new for the next trie.
trie_free == node' = None /\ ret' = Null

Next ==
    \/ \E k \in Keys : \/ \E v \in Values : trie_insert(k, v)
                       \/ \E p \in Path(k) : trie_insert_fails(k, p)
                       \/ trie_remove(k) \/ trie_lookup(k)
    \/ trie_insert_null \/ trie_num_entries \/ trie_free

Spec == Init /\ [][Next]_vars

-----------------------------------------------------------------------------
(* Properties.                                                             *)

\* The keys with a value that go through the node of path p.
Through(p) == {k \in Keys : Present(k) /\ p \in Path(k)}

\* The allocated nodes are those that some key with a value goes through, each
\* counted once for every such key: no failed insertion and no removal leaves a
\* node behind or frees one that another key needs.
UseCountsExact ==
    \A p \in DOMAIN node : node[p].use_count = Cardinality(Through(p)) /\ Through(p) # {}

Dict == [k \in {j \in Keys : Present(j)} |-> node[k].data]
Map == INSTANCE Dictionary WITH dict <- Dict, freed <- None, OwnsValues <- FALSE

\* Every call changes the map and returns what a dictionary would.
ImplementsDictionary == Map!Spec

=============================================================================
