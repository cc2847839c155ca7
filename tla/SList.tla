-------------------------------- MODULE SList --------------------------------
(***************************************************************************)
(* The singly-linked list of src/comm/slist.c and one iterator.  next of   *)
(* ListPtr is the caller's list pointer, so that an iterator's prev_next,  *)
(* which points to a next pointer or to the list pointer, is a node or     *)
(* ListPtr.  An entry that is not allocated has no fields.                 *)
(*                                                                         *)
(* While an iterator is in use entries may be appended, and the current    *)
(* entry removed through the iterator or with slist_remove_entry; any      *)
(* other call ends the iteration.  slist_remove_entry frees the entry, so  *)
(* an append after it, which may get the address the iterator still holds, *)
(* ends the iteration too.                                                 *)
(***************************************************************************)
EXTENDS Links

CONSTANTS
    Nodes,      \* addresses of entries
    Data,       \* values, ordered as numbers
    ListPtr

VARIABLES
    nxt,        \* the next pointers of the allocated entries and of ListPtr
    data,       \* the values of the allocated entries
    iter,       \* the iterator, [prev_next, current], or Null
    todo,       \* history: the entries the iteration should still return
    ret         \* the result of the last call

vars == <<nxt, data, iter, todo, ret>>

Allocated == DOMAIN data

Init ==
    /\ nxt = [n \in {ListPtr} |-> Null] /\ data = [n \in {} |-> Null]
    /\ iter = Null /\ todo = <<>>
    /\ ret = Null

\* The entries the loops over the list visit, in order.
Walk == Along(nxt, nxt[ListPtr], Cardinality(Nodes))

EndIteration == iter' = Null /\ todo' = <<>>

-----------------------------------------------------------------------------
(* Inserting.                                                              *)

\* The new entry n, with value d, is hooked in behind p.
InsertAfter(p, n, d) ==
    /\ n \in Nodes \ Allocated
    /\ nxt' = [m \in DOMAIN nxt \cup {n} |-> IF m = p THEN n ELSE IF m = n THEN nxt[p] ELSE nxt[m]]
    /\ data' = [m \in Allocated \cup {n} |-> IF m = n THEN d ELSE data[m]]
    /\ ret' = 1

slist_prepend(n, d) == InsertAfter(ListPtr, n, d) /\ EndIteration

\* The iterator's current entry was freed by slist_remove_entry.
Dangling == iter # Null /\ iter.current \notin Allocated \cup {Null}

slist_append(n, d) ==
    /\ InsertAfter(IF Walk = <<>> THEN ListPtr ELSE Last(Walk), n, d)
    /\ IF iter = Null \/ Dangling
       THEN EndIteration
       ELSE todo' = Append(todo, n) /\ UNCHANGED iter

\* malloc fails, in a call or in slist_to_array.
slist_no_memory == ret' = 0 /\ UNCHANGED <<nxt, data, iter, todo>>

-----------------------------------------------------------------------------
(* Removing.                                                               *)

Pred(e) == CHOOSE p \in Range(Walk) \cup {ListPtr} : nxt[p] = e

\* Entry e, found behind p, is unlinked and freed.
Unlink(p, e) ==
    /\ nxt' = [m \in DOMAIN nxt \ {e} |-> IF m = p THEN nxt[e] ELSE nxt[m]]
    /\ data' = Restrict(data, Allocated \ {e})

\* An entry that is not in the list is not found, freed or not.
slist_remove_entry(e) ==
    /\ IF e \in Range(Walk)
       THEN /\ Unlink(Pred(e), e) /\ ret' = 1
            /\ IF iter # Null /\ iter.current = e THEN UNCHANGED <<iter, todo>> ELSE EndIteration
       ELSE ret' = 0 /\ UNCHANGED <<nxt, data, iter, todo>>

\* Mutant: the entry behind a removed one is not looked at.
Removed_alternate(d) ==
    {Walk[i] : i \in {j \in DOMAIN Walk : data[Walk[j]] = d /\ (j > 1 => data[Walk[j - 1]] # d)}}

Removed(d) == {n \in Range(Walk) : data[n] = d}

\* The entries that stay, linked in their order.
slist_remove_data(d) ==
    LET left == <<ListPtr>> \o Kept(Walk, Nodes \ Removed(d)) IN
    /\ nxt' = [m \in DOMAIN nxt \ Removed(d) |->
                 LET i == CHOOSE i \in DOMAIN left : left[i] = m
                 IN IF i < Len(left) THEN left[i + 1] ELSE Null]
    /\ data' = Restrict(data, Allocated \ Removed(d))
    /\ ret' = Cardinality(Removed(d))
    /\ EndIteration

slist_free ==
    /\ nxt' = [n \in {ListPtr} |-> Null]
    /\ data' = Restrict(data, Allocated \ Range(Walk))
    /\ ret' = Null
    /\ EndIteration

-----------------------------------------------------------------------------
(* Sorting.                                                                *)

\* slist_sort_internal: the first entry is the pivot; the others go to the
\* front of one of two lists, which are sorted and joined around it.
Sorted(s) ==
    LET sort[t \in BoundedSeq(Allocated, Cardinality(Nodes))] ==
            IF Len(t) < 2 THEN t
            ELSE LET less == Kept(Tail(t), {n \in Allocated : data[n] < data[t[1]]})
                     more == Kept(Tail(t), {n \in Allocated : data[n] >= data[t[1]]})
                 IN sort[Reverse(less)] \o <<t[1]>> \o sort[Reverse(more)]
    IN sort[s]

slist_sort ==
    LET s == <<ListPtr>> \o Sorted(Walk) IN
    /\ nxt' = [m \in DOMAIN nxt |->
                 LET i == CHOOSE i \in DOMAIN s : s[i] = m
                 IN IF i < Len(s) THEN s[i + 1] ELSE Null]
    /\ ret' = Null
    /\ EndIteration
    /\ UNCHANGED data

-----------------------------------------------------------------------------
(* The iterator, and reading.                                              *)

slist_iterate ==
    /\ iter' = [prev_next |-> ListPtr, current |-> Null]
    /\ todo' = Walk
    /\ ret' = Null
    /\ UNCHANGED <<nxt, data>>

\* Nothing was read yet, the current entry was removed, or the end was reached.
AtGap == iter.current = Null \/ iter.current # nxt[iter.prev_next]

\* The entry slist_iter_next goes to; slist_iter_has_more says whether there is one.
NextEntry == IF AtGap THEN nxt[iter.prev_next] ELSE nxt[iter.current]

\* Mutant: prev_next stays where it is.
PrevNext_stays == iter.prev_next

PrevNext == IF AtGap THEN iter.prev_next ELSE iter.current

slist_iter_next ==
    /\ iter # Null
    /\ iter' = [prev_next |-> PrevNext, current |-> NextEntry]
    /\ ret' = IF NextEntry = Null THEN Null ELSE data[NextEntry]
    /\ todo' = IF todo = <<>> THEN <<>> ELSE Tail(todo)
    /\ UNCHANGED <<nxt, data>>

slist_iter_remove ==
    /\ iter # Null
    /\ IF AtGap
       THEN UNCHANGED <<nxt, data, iter>>
       ELSE /\ Unlink(iter.prev_next, iter.current)
            /\ iter' = [iter EXCEPT !.current = Null]
    /\ ret' = Null
    /\ UNCHANGED todo

\* slist_nth_entry and slist_nth_data.
slist_nth_data(n) ==
    /\ ret' = IF n + 1 \in DOMAIN Walk THEN data[Walk[n + 1]] ELSE Null
    /\ UNCHANGED <<nxt, data, iter, todo>>

Next ==
    \/ \E n \in Nodes, d \in Data : slist_prepend(n, d) \/ slist_append(n, d)
    \/ slist_no_memory
    \/ \E n \in Nodes \cup {Null} : slist_remove_entry(n)
    \/ \E d \in Data : slist_remove_data(d)
    \/ slist_free \/ slist_sort
    \/ slist_iterate \/ slist_iter_next \/ slist_iter_remove
    \/ \E n \in -1 .. Cardinality(Nodes) : slist_nth_data(n)

Spec == Init /\ [][Next]_vars

-----------------------------------------------------------------------------
(* Properties.                                                             *)

\* slist_iter_next returns every entry once and in order, those appended
\* meanwhile included, and slist_iter_has_more is right, whether or not the
\* current entry was removed, and by whom.
IterationExact ==
    iter # Null => NextEntry = IF todo = <<>> THEN Null ELSE todo[1]

Contents == LET w == Walk IN [i \in DOMAIN w |-> data[w[i]]]
AsSequence == INSTANCE Sequence WITH seq <- Contents

\* The list is a sequence, whichever pointers a call had to change.
ImplementsSequence == AsSequence!Spec

=============================================================================
