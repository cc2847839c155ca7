------------------------------- MODULE HashSet -------------------------------
(***************************************************************************)
(* The hash set of src/comm/set.c, for values that hash to themselves: two *)
(* sets, and a third one for the result of set_union or set_intersection.  *)
(* Every allocation may fail.                                              *)
(*                                                                         *)
(* While there is a result it is read and freed, and the operands rest: a  *)
(* bound.  The iterator is one over set 1; it is dropped when something is *)
(* inserted there, and the entry it points to is not removed meanwhile.    *)
(***************************************************************************)
EXTENDS Integers, Sequences, FiniteSets, SequencesExt

CONSTANTS
    Values,
    Null,           \* SET_NULL
    set_primes      \* the table sizes, 193, 389, ... in the code

VARIABLES
    set,            \* the sets: [table, prime_index, entries, free_func]; the third
                    \* one while there is a result
    ret,            \* the result of the last call, as in ValueSet
    freed,          \* the values the last call freed
    iter,           \* the iterator: its next entry and chain, or Null
    todo            \* history: values the iteration still has to return

vars == <<set, ret, freed, iter, todo>>

Returns(kind, r) == ret' = <<kind, r>> /\ freed' = {}
Reads == UNCHANGED <<set, iter, todo>>

EmptyTable(n) == [i \in 0 .. n - 1 |-> <<>>]

\* set_new
NewSet == [table |-> EmptyTable(set_primes[1]), prime_index |-> 0,
           entries |-> 0, free_func |-> FALSE]

Init ==
    /\ set = <<NewSet, NewSet>>
    /\ ret = <<"value", Null>> /\ freed = {}
    /\ iter = Null /\ todo = {}

-----------------------------------------------------------------------------
Size(s) == Cardinality(DOMAIN s.table)

\* The values, chain after chain: also the array of set_to_array.
AllValues(s) == FlattenSeq([i \in 1 .. Size(s) |-> s.table[i - 1]])

Members(s) == ToSet(AllValues(s))

ChainOf(s, v) == v % Size(s)

In(s, v) == v \in Range(s.table[ChainOf(s, v)])

TooFull(s) == (s.entries * 3) \div Size(s) > 0

\* set_allocate_table
AllocSize(s) ==
    IF s.prime_index + 1 < Len(set_primes) THEN set_primes[s.prime_index + 2]
    ELSE s.entries * 10

\* set_enlarge: one after the other, the values go to the front of their new chains.
Rehashed(all, n) ==
    LET moved[m \in 0 .. Len(all)] ==
            IF m = 0 THEN EmptyTable(n)
            ELSE [moved[m - 1] EXCEPT ![all[m] % n] = <<all[m]>> \o @]
    IN moved[Len(all)]

Enlarged(s) ==
    [s EXCEPT !.prime_index = @ + 1, !.table = Rehashed(AllValues(s), AllocSize(s))]

Grown(s) == IF TooFull(s) THEN Enlarged(s) ELSE s

\* set_insert with enough memory: a value that is there is not inserted again.
Inserted(s, v) ==
    LET g == Grown(s) IN
    IF In(g, v) THEN g
    ELSE [g EXCEPT !.table[ChainOf(g, v)] = <<v>> \o @, !.entries = @ + 1]

\* set_free_entry, for the values vs of a set.
FreedOf(s, vs) == IF s.free_func THEN vs ELSE {}

\* The iterator over set 1 does not survive an insertion there.
DropIter(i) ==
    IF i = 1 THEN iter' = Null /\ todo' = {} ELSE UNCHANGED <<iter, todo>>

set_insert(i, v) ==
    /\ set' = [set EXCEPT ![i] = Inserted(@, v)]
    /\ Returns("int", IF In(set[i], v) THEN 0 ELSE 1)
    /\ DropIter(i)

\* No memory for a larger table, or, after it has grown, for the entry.
set_insert_fails(i, v) ==
    /\ \/ TooFull(set[i]) /\ UNCHANGED set
       \/ ~In(set[i], v) /\ set' = [set EXCEPT ![i] = Grown(@)]
    /\ Returns("int", 0)
    /\ DropIter(i)

\* The place of a value in its chain.
At(chain, v) == CHOOSE j \in DOMAIN chain : chain[j] = v

\* Mutant: the counter is not updated.
Removed_uncounted(s, v) == [s EXCEPT !.table[ChainOf(s, v)] = RemoveAt(@, At(@, v))]

Removed(s, v) ==
    [s EXCEPT !.table[ChainOf(s, v)] = RemoveAt(@, At(@, v)), !.entries = @ - 1]

set_remove(i, v) ==
    /\ i = 1 /\ iter # Null => iter.next_entry # v
    /\ IF In(set[i], v)
       THEN /\ set' = [set EXCEPT ![i] = Removed(@, v)]
            /\ ret' = <<"int", 1>> /\ freed' = FreedOf(set[i], {v})
       ELSE Returns("int", 0) /\ UNCHANGED set
    /\ todo' = IF i = 1 THEN todo \ {v} ELSE todo
    /\ UNCHANGED iter

set_query(i, v) == Returns("int", IF In(set[i], v) THEN 1 ELSE 0) /\ Reads

set_num_entries(i) == Returns("int", set[i].entries) /\ Reads

set_to_array(i) == (Returns("array", AllValues(set[i])) \/ Returns("int", 0)) /\ Reads

set_register_free_function(i) ==
    /\ set' = [set EXCEPT ![i].free_func = TRUE]
    /\ Returns("value", Null) /\ UNCHANGED <<iter, todo>>

\* set_free, and set_new for the next operand.
set_free(i) ==
    /\ set' = IF i = 3 THEN SubSeq(set, 1, 2) ELSE [set EXCEPT ![i] = NewSet]
    /\ ret' = <<"value", Null>> /\ freed' = FreedOf(set[i], Members(set[i]))
    /\ DropIter(i)

-----------------------------------------------------------------------------
(* set_union and set_intersection.                                         *)

\* Mutant: the new set is given the free function of the first.
NewResult_owns == [NewSet EXCEPT !.free_func = set[1].free_func]

\* The new set does not own the values, which it shares with the operands.
NewResult == NewSet

\* The new set after each value, those of set 1 and then those of set 2.  The
\* second loop asks whether a value is there already.
United ==
    LET one == AllValues(set[1])
        vs == one \o AllValues(set[2])
        new[m \in 0 .. Len(vs)] ==
            IF m = 0 THEN NewResult
            ELSE IF m > Len(one) /\ In(new[m - 1], vs[m]) THEN new[m - 1]
            ELSE Inserted(new[m - 1], vs[m])
    IN new

\* The new set after each value of set 1: those of set 2 are inserted.
Intersected ==
    LET vs == AllValues(set[1])
        new[m \in 0 .. Len(vs)] ==
            IF m = 0 THEN NewResult
            ELSE IF In(set[2], vs[m]) THEN Inserted(new[m - 1], vs[m])
            ELSE new[m - 1]
    IN new

Combine(new) ==
    /\ \E m \in DOMAIN new : m + 1 \notin DOMAIN new /\ set' = Append(set, new[m])
    /\ Returns("int", 1)

\* No memory for the new set, or for the value after the first m: the new set
\* is freed.
CombineFails(new) ==
    /\ \E m \in DOMAIN new :
          /\ m = 0 \/ (m + 1 \in DOMAIN new /\ new[m + 1] # new[m])
          /\ freed' = FreedOf(new[m], Members(new[m]))
    /\ ret' = <<"int", 0>>
    /\ UNCHANGED set

set_union == (Combine(United) \/ CombineFails(United)) /\ UNCHANGED <<iter, todo>>

set_intersection ==
    (Combine(Intersected) \/ CombineFails(Intersected)) /\ UNCHANGED <<iter, todo>>

-----------------------------------------------------------------------------
(* The iterator.                                                           *)

\* The first entry of the chains of set 1 from c on.
FirstFrom(c) ==
    LET s == set[1]
        later == {i \in c .. Size(s) - 1 : s.table[i] # <<>>}
        i == CHOOSE i \in later : \A j \in later : i <= j
    IN IF later = {} THEN [next_entry |-> Null, next_chain |-> Size(s)]
       ELSE [next_entry |-> s.table[i][1], next_chain |-> i]

set_iterate ==
    /\ iter' = FirstFrom(0) /\ todo' = Members(set[1])
    /\ Returns("value", Null) /\ UNCHANGED set

\* Mutant: goes on behind the head of the chain.
Behind_head(chain, e) == IF Len(chain) > 1 THEN <<chain[2]>> ELSE <<>>

\* The entries behind entry e of its chain.
Behind(chain, e) == SubSeq(chain, At(chain, e) + 1, Len(chain))

set_iter_next ==
    /\ iter # Null
    /\ Returns("value", iter.next_entry)
    /\ IF iter.next_entry = Null
       THEN UNCHANGED <<iter, todo>>
       ELSE LET rest == Behind(set[1].table[iter.next_chain], iter.next_entry) IN
            /\ todo' = todo \ {iter.next_entry}
            /\ iter' = IF rest # <<>> THEN [iter EXCEPT !.next_entry = rest[1]]
                       ELSE FirstFrom(iter.next_chain + 1)
    /\ UNCHANGED set

-----------------------------------------------------------------------------
\* Calls that read a set.
Read(i) ==
    \/ set_num_entries(i) \/ set_to_array(i)
    \/ \E v \in Values : set_query(i, v)

Operands ==
    \/ \E i \in 1 .. 2 :
          \/ Read(i) \/ set_register_free_function(i) \/ set_free(i)
          \/ \E v \in Values : set_insert(i, v) \/ set_insert_fails(i, v) \/ set_remove(i, v)
    \/ set_union \/ set_intersection
    \/ set_iterate \/ set_iter_next

Result == Read(3) \/ set_free(3)

Next == IF Len(set) = 2 THEN Operands ELSE Result

Spec == Init /\ [][Next]_vars

-----------------------------------------------------------------------------
(* Properties.                                                             *)

\* The iterator points to an entry it has not returned yet, and is at its end
\* exactly when every entry was returned or removed.
IterationExact ==
    iter # Null => IF todo = {} THEN iter.next_entry = Null ELSE iter.next_entry \in todo

Sets == INSTANCE ValueSet WITH
    contents <- [i \in DOMAIN set |-> Members(set[i])],
    owns     <- [i \in DOMAIN set |-> set[i].free_func]

\* Growth, collisions and failed allocations are invisible: every call changes
\* the sets, returns and frees what finite sets would.
ImplementsSet == Sets!Spec

=============================================================================
