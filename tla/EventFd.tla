------------------------------- MODULE EventFd -------------------------------
(***************************************************************************)
(* The eventfd demo of src/ipc/event_fd.c: event_fd_test writes 0, 1, ...  *)
(* to an eventfd, event_read_routine waits for it with the epoll wrapper   *)
(* and event_callback reads it.  The eventfd is blocking and counts up; a  *)
(* read takes the whole count.                                             *)
(***************************************************************************)
EXTENDS Integers

CONSTANT Writes     \* the values 0 .. Writes - 1 are written

ASSUME WritesAssumption == Writes \in Nat \ {0}

VARIABLES
    wpc,        \* where event_fd_test is
    i,          \* its loop counter
    efd,        \* the local the reader is given the address of: "set",
                \* "dangling" after the return
    rpc,        \* where event_read_routine is
    count,      \* the eventfd's counter
    sent, got   \* history: sum of what was written and of what was read

writer == <<wpc, i, efd>>
vars   == <<writer, rpc, count, sent, got>>

Init ==
    /\ wpc = "eventfd" /\ i = 0 /\ efd = "set"
    /\ rpc = "off"
    /\ count = 0 /\ sent = 0 /\ got = 0

-----------------------------------------------------------------------------
(* event_fd_test.                                                          *)

eventfd ==
    /\ wpc = "eventfd"
    /\ \/ wpc' = "create" /\ UNCHANGED efd
       \/ wpc' = "returned" /\ efd' = "dangling"
    /\ UNCHANGED <<i, rpc, count, sent, got>>

\* pthread_create's errors are positive and pass the test ret < 0: without a
\* thread the values are written for nobody.
pthread_create ==
    /\ wpc = "create"
    /\ wpc' = "write" /\ rpc' \in {"start", "off"}
    /\ UNCHANGED <<i, efd, count, sent, got>>

write ==
    /\ wpc = "write" /\ i < Writes
    /\ count' = count + i /\ sent' = sent + i
    /\ i' = i + 1
    /\ UNCHANGED <<wpc, efd, rpc, got>>

return ==
    /\ wpc = "write" /\ i = Writes
    /\ wpc' = "returned" /\ efd' = "dangling"
    /\ UNCHANGED <<i, rpc, count, sent, got>>

-----------------------------------------------------------------------------
(* event_read_routine.                                                     *)

\* The descriptor is read through the pointer.  After the writer returned its
\* frame still holds the descriptor or not.
read_arg ==
    /\ rpc = "start"
    /\ rpc' \in {"create"} \cup (IF efd = "set" THEN {} ELSE {"create_bad"})
    /\ UNCHANGED <<writer, count, sent, got>>

base_epoll_create ==
    /\ rpc \in {"create", "create_bad"}
    /\ rpc' \in {"no_epoll", IF rpc = "create" THEN "add" ELSE "add_bad"}
    /\ UNCHANGED <<writer, count, sent, got>>

\* EPOLL_CTL_ADD; when it fails the instance is closed.
ctl_add ==
    /\ rpc \in {"add", "add_bad"}
    /\ rpc' \in {"closed"} \cup (IF rpc = "add" THEN {"wait"} ELSE {})
    /\ UNCHANGED <<writer, count, sent, got>>

\* Mutant: the writable event calls back as well.
Readable_any == TRUE

\* EPOLLIN.
Readable == count > 0

\* An eventfd is always writable: the wait returns at once, with EPOLLIN or
\* without.
wait_returns ==
    /\ rpc = "wait"
    /\ rpc' = IF Readable THEN "callback" ELSE "skip"
    /\ UNCHANGED <<writer, count, sent, got>>

\* Without EPOLLIN nothing is called, whatever was written meanwhile.
skip ==
    /\ rpc = "skip"
    /\ rpc' = "wait"
    /\ UNCHANGED <<writer, count, sent, got>>

wait_fails ==
    /\ rpc = "wait"
    /\ rpc' = "closed"
    /\ UNCHANGED <<writer, count, sent, got>>

\* Mutant: a read takes one, as of a semaphore.
event_callback_one ==
    /\ rpc = "callback" /\ count > 0
    /\ got' = got + count /\ count' = count - 1 /\ rpc' = "wait"
    /\ UNCHANGED <<writer, sent>>

\* Mutant: the loop ends with the first event.
event_callback_last ==
    /\ rpc = "callback" /\ count > 0
    /\ got' = got + count /\ count' = 0 /\ rpc' = "off"
    /\ UNCHANGED <<writer, sent>>

event_callback ==
    /\ rpc = "callback" /\ count > 0
    /\ got' = got + count /\ count' = 0 /\ rpc' = "wait"
    /\ UNCHANGED <<writer, sent>>

-----------------------------------------------------------------------------
event_fd_test == eventfd \/ pthread_create \/ write \/ return
event_read_routine ==
    read_arg \/ base_epoll_create \/ ctl_add \/ wait_returns \/ skip \/ event_callback

Next == event_fd_test \/ event_read_routine \/ wait_fails

Spec == Init /\ [][Next]_vars

\* Both threads are scheduled; the wait need not fail.
FairSpec == Spec /\ WF_vars(event_fd_test) /\ WF_vars(event_read_routine)

-----------------------------------------------------------------------------
(* Properties.                                                             *)

\* The callback finds something to read: on an empty counter the read of this
\* blocking eventfd would never return.
ReadNeverBlocks == rpc = "callback" => count > 0

\* No written value is lost or read twice, however many writes one read takes.
SumPreserved == got + count = sent

\* A reader that waits reads all that was written, unless its wait fails.
AllRead == (rpc = "wait") ~> (rpc = "closed" \/ (wpc = "returned" /\ got = sent))

=============================================================================
