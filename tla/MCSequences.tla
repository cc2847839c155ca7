----------------------------- MODULE MCSequences -----------------------------
(***************************************************************************)
(* The list, the singly-linked list, the queue and the array list for TLC: *)
(* a behaviour uses one of them.                                           *)
(***************************************************************************)
EXTENDS List, TLC

CONSTANTS
    Entries,    \* the addresses of the singly-linked list and of the queue
    Lengths, MaxLength

ASSUME SequencesAssumption ==
    /\ IsFiniteSet(Entries) /\ Entries \cap {ListPtr, Null} = {}
    /\ Lengths \subseteq Int /\ MaxLength \in Nat

VARIABLES
    which,                                          \* the container in use
    s_nxt, s_data, s_iter, s_todo, s_ret,           \* the singly-linked list
    entry, head, tail, q_ret,                       \* the queue
    a_data, length, a_ret                           \* the array list

slist     == <<s_nxt, s_data, s_iter, s_todo, s_ret>>
queue     == <<entry, head, tail, q_ret>>
arraylist == <<a_data, length, a_ret>>

S == INSTANCE SList WITH Nodes <- Entries, nxt <- s_nxt, data <- s_data,
                         iter <- s_iter, todo <- s_todo, ret <- s_ret
Q == INSTANCE Queue WITH Nodes <- Entries, ret <- q_ret
A == INSTANCE ArrayList WITH data <- a_data, ret <- a_ret

MCInit ==
    /\ which \in {"list", "slist", "queue", "arraylist"}
    /\ Init /\ S!Init /\ Q!Init /\ A!Init
    /\ which # "arraylist" => A!alloced = 16

MCNext ==
    \/ which = "list" /\ Next /\ UNCHANGED <<which, slist, queue, arraylist>>
    \/ which = "slist" /\ S!Next /\ UNCHANGED <<which, vars, queue, arraylist>>
    \/ which = "queue" /\ Q!Next /\ UNCHANGED <<which, vars, slist, arraylist>>
    \/ which = "arraylist" /\ A!Next /\ UNCHANGED <<which, vars, slist, queue>>

MCSpec == MCInit /\ [][MCNext]_<<which, vars, slist, queue, arraylist>>

\* Addresses are only compared.
Symmetry == Permutations(Nodes) \cup Permutations(Entries)

\* An iteration over a list neither skips nor repeats an entry, although the
\* entry it is at is removed and entries are appended.
ListIterationsExact == IterationExact /\ S!IterationExact

\* The singly-linked list, the queue and the array list are sequences: every
\* call changes them and returns what a sequence would.
AreSequences ==
    S!ImplementsSequence /\ Q!ImplementsSequence /\ A!ImplementsSequence

=============================================================================
