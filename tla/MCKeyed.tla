------------------------------- MODULE MCKeyed -------------------------------
(***************************************************************************)
(* The hash table, the set, the trie and the Bloom filter for TLC: a       *)
(* behaviour uses one of them.  There are two table sizes instead of the   *)
(* code's 24, so that a table grows for its second entry and, past the     *)
(* last prime, for its third.                                              *)
(***************************************************************************)
EXTENDS HashTable

CONSTANTS
    TrieKeys,           \* the keys of the trie
    Salts, HashBits,    \* of the Bloom filters
    Params

ASSUME KeyedAssumption ==
    /\ TrieKeys \subseteq Seq(Nat)
    /\ Params \subseteq (Nat \ {0}) \X (0 .. Len(Salts))

VARIABLES
    which,                                  \* the container in use
    set, s_ret, s_freed, s_iter, s_todo,    \* the set
    node, t_ret,                            \* the trie
    filter, inserted                        \* the Bloom filters

sets  == <<set, s_ret, s_freed, s_iter, s_todo>>
trie  == <<node, t_ret>>
bloom == <<filter, inserted>>

MCPrimes   == <<2, 5>>
MCTrieKeys == {<<>>, <<1>>, <<1, 1>>, <<1, 1, 2>>, <<2>>}
MCSalts    == <<1, 6>>
MCParams   == {<<4, 2>>, <<4, 1>>, <<5, 2>>}

S == INSTANCE HashSet WITH Values <- Keys, set_primes <- hash_table_primes,
        ret <- s_ret, freed <- s_freed, iter <- s_iter, todo <- s_todo
T == INSTANCE Trie WITH Keys <- TrieKeys, ret <- t_ret
B == INSTANCE BloomFilter WITH Values <- Keys, salts <- Salts

MCInit ==
    /\ which \in {"table", "set", "trie", "bloom"}
    /\ Init /\ S!Init /\ T!Init
    /\ IF which = "bloom" THEN B!Init ELSE filter = <<>> /\ inserted = <<>>

MCNext ==
    /\ \/ which = "table" /\ Next /\ UNCHANGED <<sets, trie, bloom>>
       \/ which = "set" /\ S!Next /\ UNCHANGED <<vars, trie, bloom>>
       \/ which = "trie" /\ T!Next /\ UNCHANGED <<vars, sets, bloom>>
       \/ which = "bloom" /\ B!Next /\ UNCHANGED <<vars, sets, trie>>
    /\ UNCHANGED which

MCSpec == MCInit /\ [][MCNext]_<<which, vars, sets, trie, bloom>>

\* No action reads a result.
View == <<which, table, entries, prime_index, iter, todo, set, s_iter, s_todo,
          node, bloom>>

-----------------------------------------------------------------------------
\* An iteration over a table or a set returns every entry once, although
\* entries it has returned are removed.
KeyedIterationsExact == IterationExact /\ S!IterationExact

\* The set, with its unions and intersections, is a set.
SetIsSet == S!ImplementsSet

\* The hash table and the trie are dictionaries: no growth, collision, shared
\* prefix or failed insertion shows.
AreDictionaries == ImplementsDictionary /\ T!ImplementsDictionary

\* No node of the trie is left behind or freed too early.
TrieUseCountsExact == T!UseCountsExact

\* The Bloom filter finds everything that was inserted.
BloomNoFalseNegatives == which = "bloom" => B!NoFalseNegatives

=============================================================================
