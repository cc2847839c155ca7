--------------------------- MODULE EventFdProofs ---------------------------
(***************************************************************************)
(* Theorems about EventFd, for every number of writes: the callback never  *)
(* blocks in its read, and the reads add up to what was written.           *)
(***************************************************************************)
EXTENDS EventFd, TLAPS

\* The types of the counters and of the reader's place.
TypeOK ==
    /\ i \in Nat /\ count \in Nat /\ sent \in Nat /\ got \in Nat
    /\ rpc \in {"off", "start", "create", "create_bad", "add", "add_bad",
                "no_epoll", "wait", "skip", "callback", "closed"}

IInv == TypeOK /\ ReadNeverBlocks /\ SumPreserved

\* Only event_callback lowers the counter, and it leaves "callback": what
\* wait_returns saw there is still there when the callback reads.
LEMMA NextInv == IInv /\ [Next]_vars => IInv'
<1> SUFFICES ASSUME IInv, [Next]_vars PROVE IInv'
  OBVIOUS
<1> USE DEF IInv, TypeOK, ReadNeverBlocks, SumPreserved
<1>1. CASE eventfd
  BY <1>1 DEF eventfd
<1>2. CASE pthread_create
  BY <1>2 DEF pthread_create
<1>3. CASE write
  BY <1>3 DEF write
<1>4. CASE return
  BY <1>4 DEF return
<1>5. CASE read_arg
  BY <1>5 DEF read_arg, writer
<1>6. CASE base_epoll_create
  BY <1>6 DEF base_epoll_create, writer
<1>7. CASE ctl_add
  BY <1>7 DEF ctl_add, writer
<1>8. CASE wait_returns
  BY <1>8 DEF wait_returns, Readable, writer
<1>9. CASE skip
  BY <1>9 DEF skip, writer
<1>10. CASE event_callback
  BY <1>10 DEF event_callback, writer
<1>11. CASE wait_fails
  BY <1>11 DEF wait_fails, writer
<1>12. CASE UNCHANGED vars
  BY <1>12 DEF vars, writer
<1>. QED
  BY <1>1, <1>2, <1>3, <1>4, <1>5, <1>6, <1>7, <1>8, <1>9, <1>10, <1>11, <1>12
  DEF Next, event_fd_test, event_read_routine

LEMMA SpecInv == Spec => []IInv
<1>1. Init => IInv
  BY DEF Init, IInv, TypeOK, ReadNeverBlocks, SumPreserved
<1>. QED  BY <1>1, NextInv, PTL DEF Spec

\* For every number of writes, the read of event_callback finds the counter
\* above zero: a write between the wait and the read only adds to it.
THEOREM CallbackReads == Spec => []ReadNeverBlocks
<1>1. IInv => ReadNeverBlocks
  BY DEF IInv
<1>. QED  BY <1>1, SpecInv, PTL

\* For every number of writes, what was read and what is left in the eventfd
\* add up to what was written: no read takes a value twice or loses one.
THEOREM NothingLost == Spec => []SumPreserved
<1>1. IInv => SumPreserved
  BY DEF IInv
<1>. QED  BY <1>1, SpecInv, PTL

=============================================================================
