--------------------------- MODULE BoundedBuffer ---------------------------
(***************************************************************************)
(* What a byte buffer of fixed capacity promises about SPACE: a write of n *)
(* bytes is accepted exactly when n bytes are free, a read hands over as   *)
(* many bytes as are there and were asked for, and every byte accepted is  *)
(* counted until it is handed over.  It says nothing about WHICH bytes a   *)
(* read returns.  CycleQueue is shown to implement it.                     *)
(***************************************************************************)
EXTENDS Integers

CONSTANTS
    Sizes,      \* the sizes a buffer may be asked for; it holds one less
    MaxLen      \* bound: the longest write or read that is tried

VARIABLES
    open,       \* is there a buffer?
    cap,        \* its capacity, 0 when there is none
    used,       \* how many accepted bytes have not been handed over
    call,       \* the last call and its length
    ret,        \* what it returned
    got         \* how many bytes it handed over

vars == <<open, cap, used, call, ret, got>>

Init ==
    /\ open = FALSE /\ cap = 0 /\ used = 0
    /\ call = <<"none", 0>> /\ ret = 0 /\ got = 0

Answer(op, n, r, g) == call' = <<op, n>> /\ ret' = r /\ got' = g

Open(s) ==
    /\ ~open /\ s > 0
    /\ open' = TRUE /\ cap' = s - 1 /\ used' = 0
    /\ Answer("create", s, 0, 0)

OpenFails(s) ==
    /\ ~open
    /\ Answer("create", s, -1, 0)
    /\ UNCHANGED <<open, cap, used>>

Write(n) ==
    /\ open /\ n <= cap - used
    /\ used' = used + n
    /\ Answer("write", n, 0, 0)
    /\ UNCHANGED <<open, cap>>

WriteRefused(n) ==
    /\ open /\ n > cap - used
    /\ Answer("write", n, -1, 0)
    /\ UNCHANGED <<open, cap, used>>

Read(n) ==
    /\ open
    /\ LET g == IF n < used THEN n ELSE used
       IN  used' = used - g /\ Answer("read", n, 0, g)
    /\ UNCHANGED <<open, cap>>

Illegal ==
    /\ open
    /\ Answer("illegal", 0, -1, 0)
    /\ UNCHANGED <<open, cap, used>>

Close ==
    /\ open
    /\ open' = FALSE /\ cap' = 0 /\ used' = 0
    /\ Answer("destroy", 0, 0, 0)

Next ==
    \/ \E s \in Sizes : Open(s) \/ OpenFails(s)
    \/ \E n \in 0..MaxLen : Write(n) \/ WriteRefused(n)
    \/ \E n \in 1..MaxLen : Read(n)
    \/ Illegal \/ Close

Spec == Init /\ [][Next]_vars
=============================================================================
