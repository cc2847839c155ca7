-------------------------------- MODULE Links --------------------------------
(***************************************************************************)
(* What the linked containers and the sequence they implement share: the   *)
(* entries that a loop along the next pointers visits, and a selection     *)
(* from a sequence.                                                        *)
(***************************************************************************)
EXTENDS Integers, Sequences, FiniteSets, SequencesExt

CONSTANT Null

\* The entries from n on along the next pointers, until NULL.  With max
\* addresses there can be no more than max, unless the pointers are wrong.
Along(next, n, max) ==
    LET at[i \in 0 .. max] ==
            IF i = 0 THEN n ELSE IF at[i - 1] = Null THEN Null ELSE next[at[i - 1]]
    IN [i \in 1 .. Cardinality({j \in 0 .. max : at[j] # Null}) |-> at[i - 1]]

\* The elements of s that are in S, in their order.
Kept(s, S) ==
    LET kept[i \in 0 .. Len(s)] ==
            IF i = 0 THEN <<>>
            ELSE IF s[i] \in S THEN Append(kept[i - 1], s[i]) ELSE kept[i - 1]
    IN kept[Len(s)]

=============================================================================
