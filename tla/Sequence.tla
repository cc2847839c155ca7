------------------------------- MODULE Sequence -------------------------------
(***************************************************************************)
(* What the queue, the array list and the singly-linked list promise: a    *)
(* sequence of values.  ret is the result of the last call, Null for a     *)
(* call without one; a pointer to an entry is 1, or 0 when it is NULL.     *)
(***************************************************************************)
EXTENDS Links

CONSTANT Data

VARIABLES seq, ret

vars == <<seq, ret>>

Init == seq = <<>> /\ ret = Null

Elements == Range(seq)
Count(s, d) == Cardinality({i \in DOMAIN s : s[i] = d})

\* Calls that change the sequence.

Insert(i, d) == ret' = 1 /\ seq' = InsertAt(seq, i, d)

TakeFirst == seq # <<>> /\ ret' = Head(seq) /\ seq' = Tail(seq)
TakeLast == seq # <<>> /\ ret' = Last(seq) /\ seq' = Front(seq)

\* The n values from index i on.
RemoveRange(i, n) ==
    /\ ret' \in {1, Null}
    /\ seq' = SubSeq(seq, 1, i - 1) \o SubSeq(seq, i + n, Len(seq))

RemoveData(d) == ret' = Count(seq, d) /\ seq' = Kept(seq, Data \ {d})

Sort ==
    /\ ret' = Null
    /\ \A d \in Data : Count(seq', d) = Count(seq, d)
    /\ \A i, j \in DOMAIN seq' : i < j => seq'[i] <= seq'[j]

Clear == seq' = <<>> /\ ret' = Null

\* Calls that do not: they fail, find nothing, or ask.
Ask(r) == ret' = r /\ UNCHANGED seq

IndexOf(d) ==
    IF d \in Elements
    THEN (CHOOSE i \in DOMAIN seq : seq[i] = d /\ \A j \in 1 .. i - 1 : seq[j] # d) - 1
    ELSE -1

Next ==
    \/ Ask(Null) \/ Ask(0)
    \/ seq # <<>> /\ (Ask(Head(seq)) \/ Ask(Last(seq)))
    \/ \E d \in Data : Ask(IndexOf(d))
    \/ \E d \in Elements : Ask(d)
    \/ \E d \in Data, i \in 1 .. Len(seq) + 1 : Insert(i, d)
    \/ \E i \in DOMAIN seq : \E n \in 0 .. Len(seq) + 1 - i : RemoveRange(i, n)
    \/ \E d \in Data : RemoveData(d)
    \/ TakeFirst \/ TakeLast \/ Sort \/ Clear

Spec == Init /\ [][Next]_vars

=============================================================================
