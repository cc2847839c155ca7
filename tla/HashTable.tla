------------------------------ MODULE HashTable ------------------------------
(***************************************************************************)
(* The chained hash table of src/comm/hash-table.c with its growth, its    *)
(* free functions and its iterator, for keys that hash to themselves       *)
(* (int_hash).  Every allocation may fail.                                 *)
(*                                                                         *)
(* The iterator keeps a pointer to an entry: it is dropped when something  *)
(* is inserted, and while it is in use the entry it points to is not       *)
(* removed.  Entries that it has returned may be.                          *)
(***************************************************************************)
EXTENDS Integers, Sequences, FiniteSets, SequencesExt

CONSTANTS
    Keys, Values,
    Null,                   \* NULL, and HASH_TABLE_NULL
    hash_table_primes       \* the table sizes, 193, 389, ... in the code

ASSUME HashTableAssumption ==
    /\ Keys \subseteq Nat
    /\ hash_table_primes \in Seq(Nat \ {0}) /\ hash_table_primes # <<>>
    /\ Null \notin Values \cup Keys

VARIABLES
    table,          \* the chains: [0 .. table_size - 1 -> Seq(entries)]
    entries,        \* the number of entries
    prime_index,
    ret,            \* the result of the last call
    freed,          \* the values the last call freed, by key
    iter,           \* the iterator: its next entry and chain, or Null
    todo            \* history: keys the iteration still has to return

vars == <<table, entries, prime_index, ret, freed, iter, todo>>

table_size == Cardinality(DOMAIN table)

Entry(k, v) == [key |-> k, value |-> v]

\* The index of a key in a table of n chains.
Index(k, n) == k % n

\* hash_table_allocate_table
AllocSize(index) ==
    IF index < Len(hash_table_primes) THEN hash_table_primes[index + 1] ELSE entries * 10

EmptyTable(n) == [i \in 0 .. n - 1 |-> <<>>]

None == [k \in {} |-> Null]

Returns(r) == ret' = r /\ freed' = None

Init ==
    /\ table = EmptyTable(hash_table_primes[1]) /\ entries = 0 /\ prime_index = 0
    /\ ret = Null /\ freed = None
    /\ iter = Null /\ todo = {}

-----------------------------------------------------------------------------
\* All entries, and their keys.
EntrySet == UNION {Range(table[i]) : i \in DOMAIN table}
KeySet == {e.key : e \in EntrySet}

\* The entries in the order of a walk through chain after chain.
AllEntries == FlattenSeq([i \in 1 .. table_size |-> table[i - 1]])

At(chain, k) == {i \in DOMAIN chain : chain[i].key = k}

\* Mutant: the entries stay in the chains of the same number.
Rehashed_in_place(n) ==
    [i \in 0 .. n - 1 |-> IF i \in DOMAIN table THEN Reverse(table[i]) ELSE <<>>]

\* hash_table_enlarge: one after the other, the entries go to the front of their
\* new chains.
Rehashed(n) ==
    LET all == AllEntries
        moved[m \in 0 .. Len(all)] ==
            IF m = 0 THEN EmptyTable(n)
            ELSE [moved[m - 1] EXCEPT ![Index(all[m].key, n)] = <<all[m]>> \o @]
    IN moved[Len(all)]

TooFull == (entries * 3) \div table_size > 0

\* The table that hash_table_insert goes on with, once it has grown.
Grown == IF TooFull THEN Rehashed(AllocSize(prime_index + 1)) ELSE table

hash_table_insert(k, v) ==
    LET t == Grown  i == Index(k, Cardinality(DOMAIN t))  at == At(t[i], k) IN
    /\ \/ /\ at # {}
          /\ \E j \in at : /\ table' = [t EXCEPT ![i][j] = Entry(k, v)]
                           /\ freed' = [x \in {k} |-> t[i][j].value]
          /\ UNCHANGED entries
       \/ /\ at = {}
          /\ table' = [t EXCEPT ![i] = <<Entry(k, v)>> \o @]
          /\ entries' = entries + 1 /\ freed' = None
    /\ prime_index' = IF TooFull THEN prime_index + 1 ELSE prime_index
    /\ ret' = 1
    /\ iter' = Null /\ todo' = {}

\* No memory for a larger table, or, after it has grown, for the entry.
hash_table_insert_fails(k) ==
    LET t == Grown  i == Index(k, Cardinality(DOMAIN t)) IN
    /\ \/ TooFull /\ UNCHANGED <<table, prime_index>>
       \/ /\ At(t[i], k) = {}
          /\ table' = t
          /\ prime_index' = IF TooFull THEN prime_index + 1 ELSE prime_index
    /\ Returns(0)
    /\ iter' = Null /\ todo' = {}
    /\ UNCHANGED entries

hash_table_lookup(k) ==
    LET chain == table[Index(k, table_size)]  at == At(chain, k) IN
    /\ Returns(IF at = {} THEN Null ELSE chain[CHOOSE i \in at : TRUE].value)
    /\ UNCHANGED <<table, entries, prime_index, iter, todo>>

hash_table_remove(k) ==
    LET i == Index(k, table_size)  at == At(table[i], k) IN
    /\ iter # Null => iter.next_entry # k
    /\ IF at = {}
       THEN Returns(0) /\ UNCHANGED <<table, entries>>
       ELSE \E j \in at : /\ table' = [table EXCEPT ![i] = RemoveAt(@, j)]
                          /\ entries' = entries - 1
                          /\ ret' = 1 /\ freed' = [x \in {k} |-> table[i][j].value]
    /\ todo' = todo \ {k}
    /\ UNCHANGED <<prime_index, iter>>

hash_table_num_entries ==
    /\ Returns(entries)
    /\ UNCHANGED <<table, entries, prime_index, iter, todo>>

\* hash_table_free, and hash_table_new for the next table.
hash_table_free ==
    /\ table' = EmptyTable(hash_table_primes[1]) /\ entries' = 0 /\ prime_index' = 0
    /\ ret' = Null
    /\ freed' = [k \in KeySet |-> (CHOOSE e \in EntrySet : e.key = k).value]
    /\ iter' = Null /\ todo' = {}

-----------------------------------------------------------------------------
(* The iterator.                                                           *)

\* The first entry of the chains from c on.
FirstFrom(c) ==
    LET later == {i \in c .. table_size - 1 : table[i] # <<>>} IN
    IF later = {} THEN [next_entry |-> Null, next_chain |-> table_size]
    ELSE LET i == CHOOSE i \in later : \A j \in later : i <= j
         IN [next_entry |-> table[i][1].key, next_chain |-> i]

hash_table_iterate ==
    /\ iter' = FirstFrom(0)
    /\ todo' = KeySet
    /\ Returns(Null)
    /\ UNCHANGED <<table, entries, prime_index>>

\* Mutant: goes on behind the next chain.
NextChain_skips(c) == c + 2

NextChain(c) == c + 1

hash_table_iter_next ==
    /\ iter # Null
    /\ IF iter.next_entry = Null
       THEN Returns(Null) /\ UNCHANGED <<iter, todo>>
       ELSE LET chain == table[iter.next_chain]
                i == CHOOSE i \in DOMAIN chain : chain[i].key = iter.next_entry
            IN /\ Returns(chain[i].value)
               /\ todo' = todo \ {iter.next_entry}
               /\ iter' = IF i < Len(chain)
                          THEN [iter EXCEPT !.next_entry = chain[i + 1].key]
                          ELSE FirstFrom(NextChain(iter.next_chain))
    /\ UNCHANGED <<table, entries, prime_index>>

-----------------------------------------------------------------------------
Next ==
    \/ \E k \in Keys, v \in Values : hash_table_insert(k, v)
    \/ \E k \in Keys : \/ hash_table_insert_fails(k)
                       \/ hash_table_lookup(k) \/ hash_table_remove(k)
    \/ hash_table_num_entries \/ hash_table_free
    \/ hash_table_iterate \/ hash_table_iter_next

Spec == Init /\ [][Next]_vars

-----------------------------------------------------------------------------
(* Properties.                                                             *)

\* The iterator points to an entry it has not returned yet, and is at its end
\* exactly when every entry was returned or removed.
IterationExact ==
    iter # Null => IF todo = {} THEN iter.next_entry = Null ELSE iter.next_entry \in todo

\* The table is the dictionary whose pairs are in the chains.
Dict == [k \in KeySet |-> (CHOOSE e \in EntrySet : e.key = k).value]
Map == INSTANCE Dictionary WITH dict <- Dict, OwnsValues <- TRUE

\* Growth, collisions and failed allocations are invisible: every call
\* changes the map, returns and frees what a dictionary would.
ImplementsDictionary == Map!Spec

=============================================================================
