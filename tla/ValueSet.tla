------------------------------ MODULE ValueSet ------------------------------
(***************************************************************************)
(* What src/comm/set.c promises: finite sets of values, each of which may  *)
(* own its values, and a third one that is the result of a union or of an  *)
(* intersection and owns nothing.  A result is <<"int", n>> for a number   *)
(* or a pointer (0 when it is NULL), <<"value", v>> or <<"array", s>>.     *)
(***************************************************************************)
EXTENDS Integers, Sequences, FiniteSets, Functions

CONSTANTS Values, Null

VARIABLES
    contents,   \* of the sets 1 and 2 and, while there is one, of the result
    owns,       \* whether a set has a free function
    ret,        \* the result of the last call
    freed       \* the values the last call freed

vars == <<contents, owns, ret, freed>>

Nothing == <<"value", Null>>

Init ==
    /\ contents = <<{}, {}>> /\ owns = <<FALSE, FALSE>>
    /\ ret = Nothing /\ freed = {}

Freed(i, vs) == IF owns[i] THEN contents[i] \cap vs ELSE {}

Asks == freed' = {} /\ UNCHANGED <<contents, owns>>

\* A value that is there already is not inserted again.
Insert(i, v) ==
    /\ contents' = [contents EXCEPT ![i] = @ \cup {v}]
    /\ ret' = <<"int", IF v \in contents[i] THEN 0 ELSE 1>>
    /\ freed' = {} /\ UNCHANGED owns

Fails == ret' = <<"int", 0>> /\ Asks

Remove(i, v) ==
    /\ contents' = [contents EXCEPT ![i] = @ \ {v}]
    /\ ret' = <<"int", IF v \in contents[i] THEN 1 ELSE 0>>
    /\ freed' = Freed(i, {v}) /\ UNCHANGED owns

Query(i, v) == ret' = <<"int", IF v \in contents[i] THEN 1 ELSE 0>> /\ Asks

Count(i) == ret' = <<"int", Cardinality(contents[i])>> /\ Asks

\* Every value once, in any order.
ToArray(i) ==
    /\ ret'[1] = "array"
    /\ Range(ret'[2]) = contents[i] /\ Len(ret'[2]) = Cardinality(contents[i])
    /\ Asks

Iterate == ret'[1] = "value" /\ ret'[2] \in contents[1] \cup {Null} /\ Asks

RegisterFree(i) ==
    /\ owns' = [owns EXCEPT ![i] = TRUE]
    /\ ret' = Nothing /\ freed' = {} /\ UNCHANGED contents

Combine(vs) ==
    /\ Len(contents) = 2
    /\ contents' = Append(contents, vs) /\ owns' = Append(owns, FALSE)
    /\ ret' = <<"int", 1>> /\ freed' = {}

\* The result is gone; another operand is created in the place of the old one.
Free(i) ==
    /\ contents' = IF i = 3 THEN SubSeq(contents, 1, 2) ELSE [contents EXCEPT ![i] = {}]
    /\ owns' = IF i = 3 THEN SubSeq(owns, 1, 2) ELSE [owns EXCEPT ![i] = FALSE]
    /\ ret' = Nothing /\ freed' = Freed(i, contents[i])

Next ==
    \/ Fails \/ Iterate
    \/ \E i \in DOMAIN contents :
          \/ Count(i) \/ ToArray(i) \/ Free(i) \/ RegisterFree(i)
          \/ \E v \in Values : Insert(i, v) \/ Remove(i, v) \/ Query(i, v)
    \/ Combine(contents[1] \cup contents[2]) \/ Combine(contents[1] \cap contents[2])

Spec == Init /\ [][Next]_vars

=============================================================================
