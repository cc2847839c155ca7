------------------------------ MODULE ArrayList ------------------------------
(***************************************************************************)
(* The array list of src/comm/arraylist.c: an array that is doubled when   *)
(* it is full, with the values behind its length left as they were.        *)
(***************************************************************************)
EXTENDS Integers, Sequences, FiniteSets, SequencesExt

CONSTANTS
    Data,           \* ordered as numbers
    Null,
    Lengths,        \* what arraylist_new is given
    MaxLength       \* bound: values in the list

VARIABLES
    data,           \* the array, [0 .. alloced - 1 -> Data]
    length,
    ret             \* the result of the last call

vars == <<data, length, ret>>

alloced == Cardinality(DOMAIN data)

\* arraylist_new: what malloc returns is never read before it is written.
NewArray(n) == [i \in 0 .. (IF n <= 0 THEN 16 ELSE n) - 1 |-> Null]

Init == (\E n \in Lengths : data = NewArray(n)) /\ length = 0 /\ ret = Null

Full == length + 1 > alloced

\* arraylist_enlarge
Enlarged ==
    IF Full THEN [i \in 0 .. 2 * alloced - 1 |-> IF i < alloced THEN data[i] ELSE Null]
    ELSE data

\* Mutant: moves one value too few.
MovedUp_short(index) ==
    [i \in DOMAIN Enlarged |-> IF i \in index + 1 .. length - 1 THEN data[i - 1] ELSE Enlarged[i]]

\* The values from index on one slot further.
MovedUp(index) ==
    [i \in DOMAIN Enlarged |-> IF i \in index + 1 .. length THEN data[i - 1] ELSE Enlarged[i]]

\* With arraylist_append and arraylist_prepend at the two ends.
arraylist_insert(index, d) ==
    /\ length < MaxLength /\ index \in 0 .. length
    /\ data' = [MovedUp(index) EXCEPT ![index] = d]
    /\ length' = length + 1
    /\ ret' = 1

\* The index is out of range, or there is no memory for a larger array.
arraylist_insert_fails(index) ==
    /\ index \notin 0 .. length \/ Full
    /\ ret' = 0
    /\ UNCHANGED <<data, length>>

\* With arraylist_remove for n = 1.  A wrong range changes nothing.
arraylist_remove_range(index, n) ==
    /\ IF index < 0 \/ n < 0 \/ index + n > length
       THEN UNCHANGED <<data, length>>
       ELSE /\ data' = [i \in DOMAIN data |->
                          IF i \in index .. length - n - 1 THEN data[i + n] ELSE data[i]]
            /\ length' = length - n
    /\ ret' = Null

arraylist_index_of(d) ==
    LET at == {i \in 0 .. length - 1 : data[i] = d} IN
    /\ ret' = IF at = {} THEN -1 ELSE CHOOSE i \in at : \A j \in at : i <= j
    /\ UNCHANGED <<data, length>>

arraylist_clear == length' = 0 /\ ret' = Null /\ UNCHANGED data

-----------------------------------------------------------------------------
(* Sorting: arraylist_sort_internal on the sequence of the values.         *)

Swap(s, i, j) == [s EXCEPT ![i] = s[j], ![j] = s[i]]

\* The values before the last one, the pivot, are moved to the front; the pivot
\* behind them.  The sequence and their number.
Partitioned(s) ==
    LET n == Len(s)
        turn(p, i) == IF p.s[i] < s[n] THEN [s |-> Swap(p.s, i, p.less + 1), less |-> p.less + 1] ELSE p
        after[i \in 0 .. n - 1] == IF i = 0 THEN [s |-> s, less |-> 0] ELSE turn(after[i - 1], i)
        end == after[n - 1]
    IN [s |-> Swap(end.s, n, end.less + 1), less |-> end.less]

Sorted(s) ==
    LET sort[t \in BoundedSeq(Data, MaxLength)] ==
            IF Len(t) <= 1 THEN t
            ELSE LET p == Partitioned(t) IN
                 sort[SubSeq(p.s, 1, p.less)] \o <<p.s[p.less + 1]>>
                 \o sort[SubSeq(p.s, p.less + 2, Len(t))]
    IN sort[s]

Contents == [i \in 1 .. length |-> data[i - 1]]

arraylist_sort ==
    /\ data' = [i \in DOMAIN data |-> IF i < length THEN Sorted(Contents)[i + 1] ELSE data[i]]
    /\ ret' = Null
    /\ UNCHANGED length

\* arraylist_free, and arraylist_new for the next list.
arraylist_free == (\E n \in Lengths : data' = NewArray(n)) /\ length' = 0 /\ ret' = Null

Next ==
    \/ \E i \in -1 .. MaxLength + 1 :
          \/ \E d \in Data : arraylist_insert(i, d)
          \/ arraylist_insert_fails(i)
          \/ \E n \in -1 .. MaxLength : arraylist_remove_range(i, n)
    \/ \E d \in Data : arraylist_index_of(d)
    \/ arraylist_clear \/ arraylist_sort \/ arraylist_free

Spec == Init /\ [][Next]_vars

-----------------------------------------------------------------------------
(* Properties.                                                             *)

AsSequence == INSTANCE Sequence WITH seq <- Contents

\* Growing, moving and sorting in place are invisible: the list is a sequence.
ImplementsSequence == AsSequence!Spec

=============================================================================
