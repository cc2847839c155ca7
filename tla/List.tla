--------------------------------- MODULE List ---------------------------------
(***************************************************************************)
(* The doubly-linked list of src/comm/list.c: its entries with their       *)
(* pointers, and one iterator.  nxt[ListPtr] is the caller's list pointer, *)
(* so that an iterator's prev_next, which points to a next pointer or to   *)
(* the list pointer, is a node or ListPtr.                                 *)
(*                                                                         *)
(* While an iterator is in use entries may be appended, and the current    *)
(* entry removed through the iterator or with list_remove_entry; any other *)
(* call ends the iteration.  A malloc that fails changes nothing.          *)
(***************************************************************************)
EXTENDS Links

CONSTANTS
    Nodes,      \* addresses of list entries
    Data,       \* values, ordered as numbers
    ListPtr

ASSUME ListAssumption ==
    /\ IsFiniteSet(Nodes) /\ Data \subseteq Int /\ Data # {}
    /\ ListPtr \notin Nodes /\ Null \notin Nodes \cup {ListPtr}

VARIABLES
    st,         \* each address: "free", "used", or "removed": unlinked by
                \* list_remove_entry, which does not free it
    nxt, prev,  \* the pointers
    data,
    iter,       \* the iterator, [prev_next, current], or Null
    seq,        \* history: the entries the calls should have left, in order
    todo        \* history: the entries the iteration should still return

links == <<nxt, prev>>
vars  == <<st, links, data, iter, seq, todo>>

Init ==
    /\ st = [n \in Nodes |-> "free"] /\ data = [n \in Nodes |-> CHOOSE d \in Data : TRUE]
    /\ nxt = [n \in Nodes \cup {ListPtr} |-> Null] /\ prev = [n \in Nodes |-> Null]
    /\ iter = Null /\ seq = <<>> /\ todo = <<>>

-----------------------------------------------------------------------------
(* Walking the list.                                                       *)

\* The entries the loops over the list visit, in order.
Walk == Along(nxt, nxt[ListPtr], Cardinality(Nodes))

LastEntry == IF Walk = <<>> THEN ListPtr ELSE Walk[Len(Walk)]

-----------------------------------------------------------------------------
(* Inserting.                                                              *)

\* malloc
Alloc(n, d) ==
    /\ st[n] = "free"
    /\ st' = [st EXCEPT ![n] = "used"]
    /\ data' = [data EXCEPT ![n] = d]

EndIteration == iter' = Null /\ todo' = <<>>

\* Mutant: the old first entry is not told of the new one.
PrevOfFirst_kept(n) == [prev EXCEPT ![n] = Null]

PrevOfFirst(n) ==
    [p \in Nodes |-> IF p = n THEN Null ELSE IF p = nxt[ListPtr] THEN n ELSE prev[p]]

list_prepend(n, d) ==
    /\ Alloc(n, d)
    /\ nxt' = [nxt EXCEPT ![n] = nxt[ListPtr], ![ListPtr] = n]
    /\ prev' = PrevOfFirst(n)
    /\ seq' = <<n>> \o seq
    /\ EndIteration

list_append(n, d) ==
    /\ Alloc(n, d)
    /\ nxt' = [nxt EXCEPT ![n] = Null, ![LastEntry] = n]
    /\ prev' = [prev EXCEPT ![n] = IF LastEntry = ListPtr THEN Null ELSE LastEntry]
    /\ seq' = Append(seq, n)
    /\ todo' = IF iter = Null THEN <<>> ELSE Append(todo, n)
    /\ UNCHANGED iter

-----------------------------------------------------------------------------
(* Removing.                                                               *)

\* The pointers l after entry e is unlinked.
Unlink(l, e) ==
    [nxt  |-> [l.nxt EXCEPT ![IF l.prev[e] = Null THEN ListPtr ELSE l.prev[e]] = l.nxt[e]],
     prev |-> [p \in Nodes |-> IF p = l.nxt[e] THEN l.prev[e] ELSE l.prev[p]]]

Links == [nxt |-> nxt, prev |-> prev]
SetLinks(l) == nxt' = l.nxt /\ prev' = l.prev

\* Mutant: the entry is given back, and may be the next one allocated.
Unlinked_freed(e) == [st EXCEPT ![e] = "free"]

\* The entry is not freed.
Unlinked(e) == [st EXCEPT ![e] = "removed"]

Without(s, e) == Kept(s, Nodes \ {e})

list_remove_entry(e) ==
    /\ e \in Range(seq)
    /\ SetLinks(Unlink(Links, e))
    /\ st' = Unlinked(e)
    /\ seq' = Without(seq, e)
    /\ IF iter # Null /\ iter.current = e THEN UNCHANGED <<iter, todo>> ELSE EndIteration
    /\ UNCHANGED data

\* Mutant: only unlinks.
Freed_none(es) == st

Freed(es) == [n \in Nodes |-> IF n \in es THEN "free" ELSE st[n]]

\* Every entry with the value is unlinked, one after the other, and freed.
list_remove_data(d) ==
    LET w == Walk
        after[i \in 0 .. Len(w)] ==
            IF i = 0 THEN Links
            ELSE IF data[w[i]] = d THEN Unlink(after[i - 1], w[i]) ELSE after[i - 1]
    IN /\ SetLinks(after[Len(w)])
       /\ st' = Freed({n \in Range(w) : data[n] = d})
       /\ seq' = Kept(seq, {n \in Nodes : data[n] # d})
       /\ EndIteration
       /\ UNCHANGED data

list_free ==
    /\ st' = Freed(Range(Walk))
    /\ nxt' = [nxt EXCEPT ![ListPtr] = Null]
    /\ seq' = <<>> /\ EndIteration
    /\ UNCHANGED <<prev, data>>

-----------------------------------------------------------------------------
(* Sorting.                                                                *)

\* Mutant: the sublists are joined the wrong way round.
Joined_swapped(less, pivot, more) == more \o <<pivot>> \o less

Joined(less, pivot, more) == less \o <<pivot>> \o more

\* list_sort_internal: the first entry is the pivot; the others go to the
\* front of one of two lists, which are sorted and joined around it.
Sorted(s) ==
    LET sort[t \in BoundedSeq(Nodes, Cardinality(Nodes))] ==
            IF Len(t) < 2 THEN t
            ELSE LET pivot == t[1]
                     less == Kept(Tail(t), {n \in Nodes : data[n] < data[pivot]})
                     more == Kept(Tail(t), {n \in Nodes : data[n] >= data[pivot]})
                 IN Joined(sort[Reverse(less)], pivot, sort[Reverse(more)])
    IN sort[s]

\* The pointers of the entries of s, linked in that order.
Linked(s) ==
    LET At(n) == CHOOSE i \in DOMAIN s : s[i] = n
        After(i) == IF i < Len(s) THEN s[i + 1] ELSE Null
    IN [nxt  |-> [n \in Nodes \cup {ListPtr} |->
                    IF n = ListPtr THEN After(0) ELSE IF n \in Range(s) THEN After(At(n)) ELSE nxt[n]],
        prev |-> [n \in Nodes |->
                    IF n \notin Range(s) THEN prev[n] ELSE IF At(n) = 1 THEN Null ELSE s[At(n) - 1]]]

list_sort ==
    LET s == Sorted(Walk) IN
    /\ SetLinks(Linked(s))
    /\ seq' = s
    /\ EndIteration
    /\ UNCHANGED <<st, data>>

-----------------------------------------------------------------------------
(* The iterator.                                                           *)

list_iterate ==
    /\ iter' = [prev_next |-> ListPtr, current |-> Null]
    /\ todo' = seq
    /\ UNCHANGED <<st, links, data, seq>>

\* Nothing was read yet, the current entry was removed, or the end was reached.
AtGap == iter.current = Null \/ iter.current # nxt[iter.prev_next]

\* The entry list_iter_next goes to; list_iter_has_more says whether there is one.
NextEntry == IF AtGap THEN nxt[iter.prev_next] ELSE nxt[iter.current]

list_iter_next ==
    /\ iter # Null
    /\ iter' = [prev_next |-> IF AtGap THEN iter.prev_next ELSE iter.current,
                current   |-> NextEntry]
    /\ todo' = IF todo = <<>> THEN <<>> ELSE Tail(todo)
    /\ UNCHANGED <<st, links, data, seq>>

list_iter_remove ==
    /\ iter # Null
    /\ IF AtGap
       THEN UNCHANGED <<st, links, iter, seq>>
       ELSE LET c == iter.current IN
            /\ nxt' = [nxt EXCEPT ![iter.prev_next] = nxt[c]]
            /\ prev' = [p \in Nodes |-> IF p = nxt[c] THEN prev[c] ELSE prev[p]]
            /\ st' = Freed({c})
            /\ iter' = [iter EXCEPT !.current = Null]
            /\ seq' = Without(seq, c)
    /\ UNCHANGED <<data, todo>>

-----------------------------------------------------------------------------
Next ==
    \/ \E n \in Nodes, d \in Data : list_prepend(n, d) \/ list_append(n, d)
    \/ \E n \in Nodes : list_remove_entry(n)
    \/ \E d \in Data : list_remove_data(d)
    \/ list_free \/ list_sort
    \/ list_iterate \/ list_iter_next \/ list_iter_remove

Spec == Init /\ [][Next]_vars

-----------------------------------------------------------------------------
(* Properties.                                                             *)

\* After every sequence of calls the next pointers run through the entries
\* that should be there, in order, the prev pointers back, and these are the
\* entries in use: none is lost and none is freed while it is linked.
WellLinked ==
    /\ Walk = seq
    /\ \A i \in DOMAIN seq : prev[seq[i]] = IF i = 1 THEN Null ELSE seq[i - 1]
    /\ {n \in Nodes : st[n] = "used"} = Range(seq)

\* list_iter_next returns every entry once and in order, those appended
\* meanwhile included, and list_iter_has_more is right, whether or not the
\* current entry was removed, and by whom.
IterationExact ==
    iter # Null => NextEntry = IF todo = <<>> THEN Null ELSE todo[1]

\* list_sort orders the values and keeps the entries.
Ascending(s) == \A i, j \in DOMAIN s : i < j => data[s[i]] <= data[s[j]]
SortSorts ==
    [][list_sort => /\ Range(seq') = Range(seq) /\ Len(seq') = Len(seq)
                    /\ Ascending(seq')]_vars

=============================================================================
