------------------------------ MODULE MqNotify ------------------------------
(***************************************************************************)
(* The message-queue demo of src/ipc/mq.c: TestMqThread, the producer      *)
(* thread, and the receiver thread of either build: with USE_SIG_NOTIFY a  *)
(* receiver that drains the queue without blocking and sleeps in sigwait   *)
(* until mq_notify's SIGUSR1, without it a receiver that blocks in         *)
(* mq_receive.  All messages are equal; the model counts them and follows  *)
(* one of them.                                                            *)
(***************************************************************************)
EXTENDS Integers

CONSTANTS
    MQ_MSG_NUM_MAX,     \* capacity of the queue
    Leftover            \* messages a previous run may have left under MQ_FILE

ASSUME MqAssumption ==
    /\ MQ_MSG_NUM_MAX \in Nat \ {0}
    /\ Leftover \in Nat

VARIABLES
    main,       \* where TestMqThread is
    ppc,        \* where thread_productor is
    rpc,        \* where the receiver thread is
    mqfile,     \* the queue MQ_FILE names: "none", "old" (left over) or "new"
    rq,         \* the queue the receiver opened
    msgs, old,  \* messages in the new and in the old queue
    ahead,      \* history: the followed message is the ahead-th of the new
                \* queue, 0 when none is followed
    notice,     \* "registered": the receiver is registered with mq_notify;
                \* "pending": SIGUSR1 is pending for the process
    set         \* the sigset_t of TestMqThread's frame: "live", "dangling"
                \* after the return, "overwritten" once the stack was reused

caller == <<main, set>>
queue  == <<mqfile, msgs, old, ahead>>
vars   == <<caller, ppc, rpc, rq, queue, notice>>

registered == "registered" \in notice
pending    == "pending" \in notice

Init ==
    /\ main = "mask" /\ set = "live"
    /\ ppc = "off" /\ rpc = "off" /\ rq = "none"
    /\ \/ mqfile = "none" /\ old = 0
       \/ mqfile = "old" /\ old = Leftover
    /\ msgs = 0 /\ ahead = 0
    /\ notice = {}

-----------------------------------------------------------------------------
(* TestMqThread                                                            *)

\* A call that fails makes it return -1, whatever was started before.
main_fails ==
    /\ main \in {"mask", "create productor", "create receiver"}
    /\ main' = "failed" /\ set' = "dangling"
    /\ UNCHANGED <<ppc, rpc, rq, queue, notice>>

pthread_sigmask ==
    /\ main = "mask"
    /\ main' = "create productor"
    /\ UNCHANGED <<set, ppc, rpc, rq, queue, notice>>

create_productor ==
    /\ main = "create productor"
    /\ ppc' = "unlink" /\ main' = "create receiver"
    /\ UNCHANGED <<set, rpc, rq, queue, notice>>

\* With USE_SIG_NOTIFY thread_mq_notify, which gets the address of a local;
\* thread_customer in the other build.  The function returns.
create_receiver ==
    /\ main = "create receiver"
    /\ rpc' \in {"sleep", "customer sleep"} /\ main' = "returned" /\ set' = "dangling"
    /\ UNCHANGED <<ppc, rq, queue, notice>>

\* Whatever the caller does next may reuse the stack of the frame.
reuse_stack ==
    /\ set = "dangling" /\ main = "returned"
    /\ set' = "overwritten"
    /\ UNCHANGED <<main, ppc, rpc, rq, queue, notice>>

-----------------------------------------------------------------------------
(* thread_productor                                                        *)

mq_unlink ==
    /\ ppc = "unlink"
    /\ mqfile' = "none" /\ ppc' = "open"
    /\ UNCHANGED <<caller, rpc, rq, msgs, old, ahead, notice>>

productor_opens ==
    /\ ppc = "open"
    /\ mqfile' = "new" /\ ppc' = "send"
    /\ UNCHANGED <<caller, rpc, rq, msgs, old, ahead, notice>>

productor_gives_up ==
    /\ ppc \in {"open", "send"}
    /\ ppc' = "exit"
    /\ UNCHANGED <<caller, rpc, rq, queue, notice>>

\* Mutant: no test for a full queue.
CanSend_always == TRUE

CanSend == msgs < MQ_MSG_NUM_MAX

\* "当接收队列由空变为非空时, 产生异步信号SIGUSR1": one signal, and the
\* registration is gone.
Notifies == registered /\ rq = "new" /\ msgs = 0

mq_send ==
    /\ ppc = "send" /\ CanSend
    /\ msgs' = msgs + 1
    /\ ahead' \in IF ahead = 0 THEN {0, msgs + 1} ELSE {ahead}
    /\ notice' = IF Notifies THEN {"pending"} ELSE notice
    /\ UNCHANGED <<caller, ppc, rpc, rq, mqfile, old>>

\* EAGAIN on a full queue: the message is dropped.
mq_send_full ==
    /\ ppc = "send" /\ ~CanSend
    /\ UNCHANGED vars

-----------------------------------------------------------------------------
(* The receiver: opening the queue.                                        *)

\* The receiver sleeps a second before it opens the queue; nothing makes the
\* producer get there first.
receiver_opens ==
    /\ rpc \in {"sleep", "customer sleep"} /\ mqfile # "none"
    /\ rq' = mqfile
    /\ rpc' = IF rpc = "sleep" THEN "notify" ELSE "receive"
    /\ UNCHANGED <<caller, ppc, queue, notice>>

\* There is no queue of that name.
receiver_finds_none ==
    /\ rpc \in {"sleep", "customer sleep"} /\ mqfile = "none"
    /\ rpc' = "exit"
    /\ UNCHANGED <<caller, ppc, rq, queue, notice>>

\* The buffer for the messages cannot be allocated.
calloc_fails ==
    /\ rpc = "sleep" /\ mqfile # "none"
    /\ rq' = mqfile /\ rpc' = "no memory"
    /\ UNCHANGED <<caller, ppc, queue, notice>>

InQueue == IF rq = "new" THEN msgs ELSE old

\* mq_receive takes the oldest message of the receiver's queue.
mq_receive ==
    /\ InQueue > 0
    /\ IF rq = "new"
       THEN /\ msgs' = msgs - 1
            /\ ahead' = IF ahead = 0 THEN 0 ELSE ahead - 1
            /\ UNCHANGED old
       ELSE old' = old - 1 /\ UNCHANGED <<msgs, ahead>>
    /\ UNCHANGED <<caller, ppc, rq, mqfile, notice>>

-----------------------------------------------------------------------------
(* thread_mq_notify                                                        *)

\* Fails with EBUSY, and ends the thread, when a registration is in place.
mq_notify ==
    /\ rpc = "notify"
    /\ notice' = notice \cup {"registered"}
    /\ rpc' = IF registered THEN "exit" ELSE "drain"
    /\ UNCHANGED <<caller, ppc, rq, queue>>

\* Mutant: receives one message per signal.
drain_one == rpc = "drain" /\ mq_receive /\ rpc' = "sigwait"

drain == rpc = "drain" /\ mq_receive /\ UNCHANGED rpc

drained ==
    /\ rpc = "drain" /\ InQueue = 0
    /\ rpc' = "sigwait"
    /\ UNCHANGED <<caller, ppc, rq, queue, notice>>

\* Mutant: also returns without a signal, as with a timeout.
sigwait_times_out ==
    /\ rpc = "sigwait"
    /\ notice' = notice \ {"pending"} /\ rpc' = "notify"
    /\ UNCHANGED <<caller, ppc, rq, queue>>

\* Mutant: does not register again.
sigwait_only_drains ==
    /\ rpc = "sigwait" /\ pending
    /\ notice' = notice \ {"pending"} /\ rpc' = "drain"
    /\ UNCHANGED <<caller, ppc, rq, queue>>

\* The set may be a dead frame's, but still holds what was in it.
sigwait ==
    /\ rpc = "sigwait" /\ pending
    /\ notice' = notice \ {"pending"} /\ rpc' = "notify"
    /\ UNCHANGED <<caller, ppc, rq, queue>>

\* With an overwritten set sigwait may still return SIGUSR1, fail, or never
\* return; the first two are steps here, none of them is promised.
sigwait_overwritten ==
    /\ rpc = "sigwait" /\ set = "overwritten"
    /\ rpc' = "exit"
    /\ UNCHANGED <<caller, ppc, rq, queue, notice>>

-----------------------------------------------------------------------------
(* thread_customer                                                         *)

customer_receive == rpc = "receive" /\ mq_receive /\ UNCHANGED rpc

-----------------------------------------------------------------------------
TestMqThread == pthread_sigmask \/ create_productor \/ create_receiver

thread_productor == mq_unlink \/ productor_opens \/ mq_send \/ mq_send_full

thread_mq_notify == mq_notify \/ drain \/ drained

receiver_starts == receiver_opens \/ receiver_finds_none

Next ==
    \/ TestMqThread \/ main_fails \/ reuse_stack
    \/ thread_productor \/ productor_gives_up
    \/ receiver_starts \/ calloc_fails
    \/ thread_mq_notify \/ sigwait \/ sigwait_overwritten
    \/ customer_receive

Spec == Init /\ [][Next]_vars

\* Threads that can run do; sigwait returns once its signal is pending, as
\* long as it waits for the set it was given.  Failures are never forced.
FairSpec ==
    /\ Spec
    /\ WF_vars(TestMqThread) /\ WF_vars(thread_productor)
    /\ WF_vars(receiver_starts) /\ WF_vars(thread_mq_notify)
    /\ WF_vars(set # "overwritten" /\ sigwait)
    /\ WF_vars(customer_receive)

-----------------------------------------------------------------------------
(* Properties.                                                             *)

TypeOK ==
    /\ main \in {"mask", "create productor", "create receiver", "returned",
                 "failed"}
    /\ set \in {"live", "dangling", "overwritten"}
    /\ ppc \in {"off", "unlink", "open", "send", "exit"}
    /\ rpc \in {"off", "sleep", "customer sleep", "notify", "drain", "sigwait",
                "receive", "exit", "no memory"}
    /\ mqfile \in {"none", "old", "new"} /\ rq \in {"none", "old", "new"}
    /\ msgs \in 0..MQ_MSG_NUM_MAX /\ old \in 0..Leftover
    /\ ahead \in 0..msgs
    /\ notice \subseteq {"registered", "pending"}

\* "使用非阻塞模式循环读取": the receiver registers, drains and only then
\* waits, so it never sleeps in sigwait on a queue that holds a message with
\* no signal pending to wake it.
NoLostWakeup == rpc = "sigwait" /\ rq = "new" /\ msgs > 0 => pending

\* "sigwait后必须重新注册mq_notify": whenever the receiver registers again,
\* the registration before was used up, so mq_notify does not fail with EBUSY.
NeverBusy == rpc = "notify" => ~registered

\* The conditions of the demo: the receiver runs and opened the producer's
\* queue, and its set was not overwritten.
ReceiverAttached ==
    rpc \notin {"exit", "no memory"} /\ rq # "old" /\ main # "failed"

\* Under those conditions every message that is sent is received.
EveryMessageReceived ==
    [](ReceiverAttached /\ set # "overwritten") => (ahead > 0 ~> ahead = 0)

=============================================================================
