-------------------------------- MODULE Queue --------------------------------
(***************************************************************************)
(* The double-ended queue of src/comm/queue.c: entries with two pointers   *)
(* between a head and a tail pointer.  An entry that is not allocated has  *)
(* no fields: following a pointer to it is an error.                       *)
(***************************************************************************)
EXTENDS Links

CONSTANTS
    Nodes,      \* addresses of entries
    Data        \* values; Null is NULL, and QUEUE_NULL

VARIABLES
    entry,      \* the allocated entries: [data, prev, next]
    head, tail,
    ret         \* the result of the last call

vars == <<entry, head, tail, ret>>

Init == entry = [n \in {} |-> Null] /\ head = Null /\ tail = Null /\ ret = Null

-----------------------------------------------------------------------------
(* Pushing.                                                                *)

\* The entries with e at address n, and with field f of entry p set to n.
Hooked(n, e, p, f) ==
    [m \in DOMAIN entry \cup {n} |->
        IF m = n THEN e ELSE IF m = p THEN [entry[m] EXCEPT ![f] = n] ELSE entry[m]]

\* Mutant: the first entry is hooked in at one end only.
FarEnd_kept(n, near, far) == far

\* The far end of a queue that n is pushed onto at its near end.
FarEnd(n, near, far) == IF near = Null THEN n ELSE far

queue_push_head(n, d) ==
    /\ n \notin DOMAIN entry
    /\ entry' = Hooked(n, [data |-> d, prev |-> Null, next |-> head], head, "prev")
    /\ head' = n
    /\ tail' = FarEnd(n, head, tail)
    /\ ret' = 1

queue_push_tail(n, d) ==
    /\ n \notin DOMAIN entry
    /\ entry' = Hooked(n, [data |-> d, prev |-> tail, next |-> Null], tail, "next")
    /\ tail' = n
    /\ head' = FarEnd(n, tail, head)
    /\ ret' = 1

\* malloc fails.
queue_push_fails == ret' = 0 /\ UNCHANGED <<entry, head, tail>>

-----------------------------------------------------------------------------
(* Popping.                                                                *)

\* The entries without n, and with field f of entry p, if there is one, Null.
Unhooked(n, p, f) ==
    [m \in DOMAIN entry \ {n} |-> IF m = p THEN [entry[m] EXCEPT ![f] = Null] ELSE entry[m]]

\* The other end of a queue whose one end becomes new.
OtherEnd(new, other) == IF new = Null THEN Null ELSE other

queue_pop_head ==
    /\ head # Null
    /\ LET h == entry[head].next IN
       /\ entry' = Unhooked(head, h, "prev")
       /\ head' = h
       /\ tail' = OtherEnd(h, tail)
    /\ ret' = entry[head].data

queue_pop_tail ==
    /\ head # Null
    /\ LET t == entry[tail].prev IN
       /\ entry' = Unhooked(tail, t, "next")
       /\ tail' = t
       /\ head' = OtherEnd(t, head)
    /\ ret' = entry[tail].data

\* queue_is_empty: the pops and peeks of an empty queue.
queue_empty == head = Null /\ ret' = Null /\ UNCHANGED <<entry, head, tail>>

queue_peek ==
    /\ head # Null
    /\ \E end \in {head, tail} : ret' = entry[end].data
    /\ UNCHANGED <<entry, head, tail>>

-----------------------------------------------------------------------------
\* The entries along the next pointers.
Walk == Along([n \in DOMAIN entry |-> entry[n].next], head, Cardinality(Nodes))

\* queue_free pops the head until there is none; then queue_new.
queue_free ==
    /\ entry' = Restrict(entry, DOMAIN entry \ Range(Walk))
    /\ head' = Null /\ tail' = Null
    /\ ret' = Null

Next ==
    \/ \E n \in Nodes, d \in Data : queue_push_head(n, d) \/ queue_push_tail(n, d)
    \/ queue_push_fails
    \/ queue_pop_head \/ queue_pop_tail \/ queue_empty \/ queue_peek
    \/ queue_free

Spec == Init /\ [][Next]_vars

-----------------------------------------------------------------------------
(* Properties.                                                             *)

Contents == LET w == Walk IN [i \in DOMAIN w |-> entry[w[i]].data]
AsSequence == INSTANCE Sequence WITH seq <- Contents

\* Pushed and popped at both ends in any order, down to empty and up again, the
\* queue gives out what a sequence would.
ImplementsSequence == AsSequence!Spec

=============================================================================
