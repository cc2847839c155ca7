--------------------------- MODULE MqNotifyProofs ---------------------------
(***************************************************************************)
(* The receiver of MqNotify loses no wakeup and never finds the queue's    *)
(* registration taken, for every capacity of the queue.                    *)
(***************************************************************************)
EXTENDS MqNotify, TLAPS

\* Between mq_notify and sigwait the receiver is owed exactly one of the two:
\* the registration, or the signal it was traded for; elsewhere neither.
OneNotice ==
    /\ rpc \in {"drain", "sigwait"} => (registered <=> ~pending)
    /\ rpc \in {"off", "sleep", "customer sleep", "notify", "receive"} => ~registered /\ ~pending

\* The receiver does not run before TestMqThread created it.
NotYetCreated ==
    main \in {"mask", "create productor", "create receiver"} => rpc = "off"

IInv == TypeOK /\ OneNotice /\ NotYetCreated /\ NoLostWakeup

LEMMA InitInv == Init => IInv
BY MqAssumption DEF Init, IInv, TypeOK, OneNotice, NotYetCreated, NoLostWakeup, registered, pending

\* TestMqThread and the reuse of its stack touch neither queue nor notice.
LEMMA MainSteps ==
    ASSUME IInv, TestMqThread \/ main_fails \/ reuse_stack
    PROVE  IInv'
<1> USE DEF TestMqThread, pthread_sigmask, create_productor, create_receiver
<1>1. TypeOK'
  <2>1. UNCHANGED <<rq, queue, notice>>
    BY DEF main_fails, reuse_stack
  <2>2. main' \in {"mask", "create productor", "create receiver", "returned", "failed"}
        /\ set' \in {"live", "dangling", "overwritten"}
    BY DEF main_fails, reuse_stack, IInv, TypeOK
  <2>3. ppc' \in {"off", "unlink", "open", "send", "exit"}
    BY DEF main_fails, reuse_stack, IInv, TypeOK
  <2>4. rpc' \in {"off", "sleep", "customer sleep", "notify", "drain", "sigwait",
                  "receive", "exit", "no memory"}
    BY DEF main_fails, reuse_stack, IInv, TypeOK
  <2> QED
    BY <2>1, <2>2, <2>3, <2>4 DEF queue, IInv, TypeOK
<1>2. OneNotice' /\ NotYetCreated'
  BY MqAssumption
  DEF main_fails, reuse_stack, caller, queue,
      IInv, TypeOK, OneNotice, NotYetCreated, registered, pending
<1>3. NoLostWakeup'
  BY MqAssumption
  DEF main_fails, reuse_stack, caller, queue,
      IInv, TypeOK, OneNotice, NoLostWakeup, registered, pending
<1> QED
  BY <1>1, <1>2, <1>3 DEF IInv

\* The producer; mq_send trades the registration for a pending signal.
LEMMA ProductorSteps ==
    ASSUME IInv, thread_productor \/ productor_gives_up
    PROVE  IInv'
<1>1. CASE mq_unlink \/ productor_opens \/ productor_gives_up
  <2>1. TypeOK'
    BY <1>1, MqAssumption
    DEF mq_unlink, productor_opens, productor_gives_up, caller, queue,
        IInv, TypeOK
  <2>2. OneNotice' /\ NotYetCreated'
    BY <1>1, MqAssumption
    DEF mq_unlink, productor_opens, productor_gives_up, caller, queue,
        IInv, TypeOK, OneNotice, NotYetCreated, registered, pending
  <2>3. NoLostWakeup'
    BY <1>1, MqAssumption
    DEF mq_unlink, productor_opens, productor_gives_up, caller, queue,
        IInv, TypeOK, OneNotice, NoLostWakeup, registered, pending
  <2> QED
    BY <2>1, <2>2, <2>3 DEF IInv
<1>2. CASE mq_send
  <2>0. /\ msgs \in Nat /\ ahead \in 0..msgs /\ MQ_MSG_NUM_MAX \in Nat
        /\ msgs' = msgs + 1 /\ msgs < MQ_MSG_NUM_MAX
    <3>1. msgs \in 0..MQ_MSG_NUM_MAX /\ ahead \in 0..msgs
      BY DEF IInv, TypeOK
    <3> QED
      BY <1>2, <3>1, MqAssumption DEF mq_send, CanSend
  <2>1. TypeOK'
    <3>1. msgs' \in 0..MQ_MSG_NUM_MAX
      BY <2>0
    <3>2. ahead' \in 0..msgs'
      BY <1>2, <2>0 DEF mq_send
    <3> QED
      BY <1>2, <3>1, <3>2 DEF mq_send, caller, IInv, TypeOK
  <2>2. OneNotice' /\ NotYetCreated'
    BY <1>2, MqAssumption
    DEF mq_send, CanSend, Notifies, caller,
        IInv, TypeOK, OneNotice, NotYetCreated, registered, pending
  <2>3. NoLostWakeup'
    <3>1. CASE msgs = 0
      BY <1>2, <3>1
      DEF mq_send, Notifies, IInv, OneNotice, NoLostWakeup, registered, pending
    <3>2. CASE msgs > 0
      BY <1>2, <3>2
      DEF mq_send, Notifies, IInv, NoLostWakeup, registered, pending
    <3> QED
      BY <2>0, <3>1, <3>2
  <2> QED
    BY <2>1, <2>2, <2>3 DEF IInv
<1>3. CASE mq_send_full
  <2>1. TypeOK'
    BY <1>3, MqAssumption
    DEF mq_send_full, vars, caller, queue,
        IInv, TypeOK
  <2>2. OneNotice' /\ NotYetCreated'
    BY <1>3, MqAssumption
    DEF mq_send_full, vars, caller, queue,
        IInv, TypeOK, OneNotice, NotYetCreated, registered, pending
  <2>3. NoLostWakeup'
    BY <1>3, MqAssumption
    DEF mq_send_full, vars, caller, queue,
        IInv, TypeOK, OneNotice, NoLostWakeup, registered, pending
  <2> QED
    BY <2>1, <2>2, <2>3 DEF IInv
<1> QED
  BY <1>1, <1>2, <1>3 DEF thread_productor

\* The receiver opens the queue, or gives up.
LEMMA StartSteps ==
    ASSUME IInv, receiver_starts \/ calloc_fails
    PROVE  IInv'
<1> USE DEF receiver_starts, receiver_opens, receiver_finds_none, calloc_fails
<1>1. TypeOK'
  BY MqAssumption
  DEF caller, queue,
      IInv, TypeOK
<1>2. OneNotice' /\ NotYetCreated'
  BY MqAssumption
  DEF caller, queue,
      IInv, TypeOK, OneNotice, NotYetCreated, registered, pending
<1>3. NoLostWakeup'
  BY MqAssumption
  DEF caller, queue,
      IInv, TypeOK, OneNotice, NoLostWakeup, registered, pending
<1> QED
  BY <1>1, <1>2, <1>3 DEF IInv

\* The receiver registers, drains and waits.
LEMMA ReceiverSteps ==
    ASSUME IInv,
           thread_mq_notify \/ sigwait \/ sigwait_overwritten \/ customer_receive
    PROVE  IInv'
<1>1. CASE drain \/ customer_receive
  <2>1. TypeOK'
    <3>1. mq_receive /\ rpc' = rpc
      BY <1>1 DEF drain, customer_receive
    <3>2. /\ msgs \in Nat /\ ahead \in 0..msgs /\ old \in Nat
          /\ MQ_MSG_NUM_MAX \in Nat /\ Leftover \in Nat
          /\ msgs <= MQ_MSG_NUM_MAX /\ old <= Leftover
      <4>1. /\ msgs \in 0..MQ_MSG_NUM_MAX /\ ahead \in 0..msgs
            /\ old \in 0..Leftover
        BY DEF IInv, TypeOK
      <4> QED
        BY <4>1, MqAssumption
    <3>3. msgs' \in 0..MQ_MSG_NUM_MAX /\ old' \in 0..Leftover
      BY <3>1, <3>2 DEF mq_receive, InQueue
    <3>4. ahead' \in 0..msgs'
      BY <3>1, <3>2 DEF mq_receive, InQueue
    <3> QED
      BY <3>1, <3>3, <3>4 DEF mq_receive, caller, IInv, TypeOK
  <2>2. OneNotice' /\ NotYetCreated'
    BY <1>1, MqAssumption
    DEF drain, customer_receive, mq_receive, InQueue, caller,
        IInv, TypeOK, OneNotice, NotYetCreated, registered, pending
  <2>3. NoLostWakeup'
    BY <1>1, MqAssumption
    DEF drain, customer_receive, mq_receive, InQueue, caller,
        IInv, TypeOK, OneNotice, NoLostWakeup, registered, pending
  <2> QED
    BY <2>1, <2>2, <2>3 DEF IInv
<1>2. CASE mq_notify
  <2>1. TypeOK'
    BY <1>2, MqAssumption
    DEF mq_notify, caller, queue,
        IInv, TypeOK
  <2>2. OneNotice' /\ NotYetCreated'
    BY <1>2, MqAssumption
    DEF mq_notify, caller, queue,
        IInv, TypeOK, OneNotice, NotYetCreated, registered, pending
  <2>3. NoLostWakeup'
    BY <1>2, MqAssumption
    DEF mq_notify, caller, queue,
        IInv, TypeOK, OneNotice, NoLostWakeup, registered, pending
  <2> QED
    BY <2>1, <2>2, <2>3 DEF IInv
<1>3. CASE drained
  <2>1. TypeOK'
    BY <1>3, MqAssumption
    DEF drained, InQueue, caller, queue,
        IInv, TypeOK
  <2>2. OneNotice' /\ NotYetCreated'
    BY <1>3, MqAssumption
    DEF drained, InQueue, caller, queue,
        IInv, TypeOK, OneNotice, NotYetCreated, registered, pending
  <2>3. NoLostWakeup'
    BY <1>3 DEF drained, InQueue, queue, NoLostWakeup
  <2> QED
    BY <2>1, <2>2, <2>3 DEF IInv
<1>4. CASE sigwait \/ sigwait_overwritten
  <2>1. TypeOK'
    BY <1>4, MqAssumption
    DEF sigwait, sigwait_overwritten, caller, queue,
        IInv, TypeOK
  <2>2. OneNotice' /\ NotYetCreated'
    BY <1>4, MqAssumption
    DEF sigwait, sigwait_overwritten, caller, queue,
        IInv, TypeOK, OneNotice, NotYetCreated, registered, pending
  <2>3. NoLostWakeup'
    BY <1>4, MqAssumption
    DEF sigwait, sigwait_overwritten, caller, queue,
        IInv, TypeOK, OneNotice, NoLostWakeup, registered, pending
  <2> QED
    BY <2>1, <2>2, <2>3 DEF IInv
<1> QED
  BY <1>1, <1>2, <1>3, <1>4 DEF thread_mq_notify

LEMMA NextInv == IInv /\ [Next]_vars => IInv'
<1> SUFFICES ASSUME IInv, [Next]_vars PROVE IInv'
  OBVIOUS
<1>1. CASE Next
  BY <1>1, MainSteps, ProductorSteps, StartSteps, ReceiverSteps DEF Next
<1>2. CASE UNCHANGED vars
  <2>1. TypeOK'
    BY <1>2 DEF vars, caller, queue, IInv, TypeOK
  <2>2. OneNotice' /\ NotYetCreated' /\ NoLostWakeup'
    BY <1>2
    DEF vars, caller, queue, IInv, OneNotice, NotYetCreated, NoLostWakeup,
        registered, pending
  <2> QED
    BY <2>1, <2>2 DEF IInv
<1> QED
  BY <1>1, <1>2

LEMMA SpecInv == Spec => []IInv
BY InitInv, NextInv, PTL DEF Spec

\* The types; in particular the queue never holds more than its capacity.
THEOREM TypeCorrect == Spec => []TypeOK
<1>1. IInv => TypeOK
  BY DEF IInv
<1> QED
  BY <1>1, SpecInv, PTL

\* thread_mq_notify never waits in sigwait on a non-empty queue with no
\* signal pending.
THEOREM WakeupNeverLost == Spec => []NoLostWakeup
<1>1. IInv => NoLostWakeup
  BY DEF IInv
<1> QED
  BY <1>1, SpecInv, PTL

\* The mq_notify of thread_mq_notify never fails for its own registration.
THEOREM RegistrationFree == Spec => []NeverBusy
<1>1. IInv => NeverBusy
  BY DEF IInv, OneNotice, NeverBusy, registered
<1> QED
  BY <1>1, SpecInv, PTL
=============================================================================
