----------------------------- MODULE Dictionary -----------------------------
(***************************************************************************)
(* What a hash table and a trie promise: a finite map, which may own its   *)
(* values.  Every call says what it returned and which values it freed.    *)
(***************************************************************************)
EXTENDS Integers, FiniteSets, Functions

CONSTANTS
    Keys, Values, Null,
    OwnsValues      \* whether the values are freed with their entries

VARIABLES
    dict,       \* the map: a function on a subset of Keys
    ret,        \* the result of the last call
    freed       \* the values the last call freed, by key

vars == <<dict, ret, freed>>

Empty == [k \in {} |-> Null]

\* What is freed when the entries of the keys ks go.
Freed(ks) == IF OwnsValues THEN Restrict(dict, ks \cap DOMAIN dict) ELSE Empty

Init == dict = Empty /\ ret = Null /\ freed = Empty

\* The old value of the key, if there is one, is freed.
Insert(k, v) ==
    /\ dict' = [j \in DOMAIN dict \cup {k} |-> IF j = k THEN v ELSE dict[j]]
    /\ ret' = 1 /\ freed' = Freed({k})

\* A call that fails changes nothing.
InsertFails == ret' = 0 /\ freed' = Empty /\ UNCHANGED dict

Remove(k) ==
    /\ dict' = Restrict(dict, DOMAIN dict \ {k})
    /\ ret' = IF k \in DOMAIN dict THEN 1 ELSE 0
    /\ freed' = Freed({k})

Lookup(k) ==
    /\ ret' = IF k \in DOMAIN dict THEN dict[k] ELSE Null
    /\ freed' = Empty /\ UNCHANGED dict

Count == ret' = Cardinality(DOMAIN dict) /\ freed' = Empty /\ UNCHANGED dict

\* A step of an iteration returns some value, or Null at its end.
Iterate ==
    /\ ret' \in {dict[k] : k \in DOMAIN dict} \cup {Null}
    /\ freed' = Empty /\ UNCHANGED dict

\* The table is freed and another one created.
Clear == dict' = Empty /\ ret' = Null /\ freed' = Freed(DOMAIN dict)

Next ==
    \/ \E k \in Keys, v \in Values : Insert(k, v)
    \/ InsertFails
    \/ \E k \in Keys : Remove(k) \/ Lookup(k)
    \/ Count \/ Iterate \/ Clear

Spec == Init /\ [][Next]_vars

=============================================================================
