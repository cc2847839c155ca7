--------------------------- MODULE CondDemoProofs ---------------------------
(***************************************************************************)
(* The safety properties of CondDemo, for any number of consumers and of   *)
(* producers, any batch and any number of batches.                         *)
(***************************************************************************)
EXTENDS CondDemo, TLAPS

Held == {"test", "load", "store", "signal", "unlock"}

\* The thread between its lock and its unlock is the one that holds g_mutex.
HolderInv == \A t \in Threads : pc[t] \in Held <=> mutex = t

\* What the holder knows of nready: its copy is current, and a consumer that
\* left the wait loop has a product to take.
KnowsInv ==
    /\ \A t \in Threads : pc[t] = "store" => reg[t] = nready
    /\ \A c \in Consumers : pc[c] \in {"load", "store"} => nready > 0

IInv ==
    /\ TypeOK /\ HolderInv /\ KnowsInv
    /\ Conservation /\ NeverOversold /\ NoStrandedProduct

LEMMA InitInv == Init => IInv
<1> SUFFICES ASSUME Init PROVE IInv
  OBVIOUS
<1>1. TypeOK /\ HolderInv /\ KnowsInv
  BY CondDemoAssumption
  DEF Init, TypeOK, Where, HolderInv, Held, KnowsInv, Threads
<1>2. Batch * 0 = 0
  BY CondDemoAssumption
<1>3. Conservation /\ NeverOversold /\ NoStrandedProduct
  BY <1>2 DEF Init, Conservation, NeverOversold, NoStrandedProduct
<1> QED
  BY <1>1, <1>3 DEF IInv

\* The steps outside the mutex: nothing but a pc changes, and only a waiting
\* or a sleeping thread moves.
LEMMA FreeSteps ==
    ASSUME IInv, NEW t \in Threads,
           create(t) \/ sleep(t) \/ (t \in Consumers /\ spurious_wakeup(t))
    PROVE  IInv'
<1>1. TypeOK'
  BY CondDemoAssumption
  DEF Threads, IInv, TypeOK, Where, create, sleep, spurious_wakeup, Goto
<1>2. HolderInv'
  BY DEF IInv, TypeOK, HolderInv, Held, create, sleep, spurious_wakeup, Goto
<1>3. KnowsInv'
  BY CondDemoAssumption
  DEF Threads, IInv, TypeOK, KnowsInv, create, sleep, spurious_wakeup, Goto
<1>4. Conservation' /\ NeverOversold'
  BY DEF IInv, Conservation, NeverOversold, create, sleep, spurious_wakeup
<1>5. NoStrandedProduct'
  BY CondDemoAssumption
  DEF Threads, IInv, TypeOK, NoStrandedProduct, create, sleep, spurious_wakeup, Goto
<1> QED
  BY <1>1, <1>2, <1>3, <1>4, <1>5 DEF IInv

\* Taking the mutex, for the first time or on the way out of the wait.
LEMMA LockSteps ==
    ASSUME IInv, NEW t \in Threads,
           mutex_lock(t) \/ (t \in Consumers /\ cond_wait_returns(t))
    PROVE  IInv'
<1>1. TypeOK'
  BY CondDemoAssumption
  DEF Threads, IInv, TypeOK, Where, mutex_lock, cond_wait_returns, Goto
<1>2. HolderInv'
  BY CondDemoAssumption
  DEF IInv, TypeOK, HolderInv, Held, mutex_lock, cond_wait_returns, Goto
<1>3. KnowsInv'
  BY CondDemoAssumption
  DEF Threads, IInv, TypeOK, KnowsInv, mutex_lock, cond_wait_returns, Goto
<1>4. Conservation' /\ NeverOversold'
  BY DEF IInv, Conservation, NeverOversold, mutex_lock, cond_wait_returns
<1>5. NoStrandedProduct'
  BY CondDemoAssumption
  DEF Threads, IInv, TypeOK, NoStrandedProduct, mutex_lock, cond_wait_returns, Goto
<1> QED
  BY <1>1, <1>2, <1>3, <1>4, <1>5 DEF IInv

\* Giving it back.  A consumer goes to wait only when there is no product.
LEMMA UnlockSteps ==
    ASSUME IInv, NEW t \in Threads,
           mutex_unlock(t) \/ (t \in Consumers /\ cond_wait(t))
    PROVE  IInv'
<1>1. TypeOK'
  BY CondDemoAssumption
  DEF Threads, IInv, TypeOK, Where, mutex_unlock, cond_wait, Goto
<1>2. HolderInv'
  BY CondDemoAssumption
  DEF IInv, TypeOK, HolderInv, Held, mutex_unlock, cond_wait, Goto
<1>3. KnowsInv'
  BY CondDemoAssumption
  DEF Threads, IInv, TypeOK, KnowsInv, mutex_unlock, cond_wait, Goto
<1>4. Conservation' /\ NeverOversold'
  BY DEF IInv, Conservation, NeverOversold, mutex_unlock, cond_wait
<1>5. NoStrandedProduct'
  BY CondDemoAssumption
  DEF Threads, IInv, TypeOK, NoStrandedProduct, mutex_unlock, cond_wait, Goto, Empty
<1> QED
  BY <1>1, <1>2, <1>3, <1>4, <1>5 DEF IInv

\* The steps of the holder that leave nready alone.
LEMMA HolderSteps ==
    ASSUME IInv, NEW t \in Threads,
           \/ load(t)
           \/ t \in Consumers /\ leave_wait_loop(t)
           \/ t \in Producers /\ (start_batch(t) \/ nothing_to_make(t))
    PROVE  IInv'
<1> USE DEF load, leave_wait_loop, start_batch, nothing_to_make
<1>1. TypeOK'
  BY CondDemoAssumption
  DEF Threads, IInv, TypeOK, Where, Goto
<1>2. HolderInv'
  BY DEF IInv, TypeOK, HolderInv, Held, Goto
<1>3. KnowsInv'
  BY CondDemoAssumption
  DEF Threads, IInv, TypeOK, KnowsInv, NeverOversold, Goto, Empty
<1>4. Conservation' /\ NeverOversold'
  BY DEF IInv, Conservation, NeverOversold
<1>5. NoStrandedProduct'
  BY CondDemoAssumption
  DEF Threads, IInv, TypeOK, NoStrandedProduct, Goto
<1> QED
  BY <1>1, <1>2, <1>3, <1>4, <1>5 DEF IInv

\* The store of --nready.
LEMMA TakeStep == ASSUME IInv, NEW c \in Consumers, take(c) PROVE IInv'
<1>1. c \in Threads /\ pc[c] = "store" /\ reg[c] = nready /\ nready > 0
  BY DEF IInv, KnowsInv, take, Threads
<1>2. TypeOK'
  BY <1>1 DEF IInv, TypeOK, Where, take, Goto
<1>3. HolderInv'
  BY <1>1 DEF IInv, TypeOK, HolderInv, Held, take, Goto
<1>4. KnowsInv'
  BY <1>1 DEF IInv, TypeOK, HolderInv, Held, KnowsInv, take, Goto, Threads
<1>5. consumed' + nready' = consumed + nready /\ produced' = produced
  BY <1>1 DEF IInv, TypeOK, take
<1>6. Conservation' /\ NeverOversold'
  BY <1>1, <1>5 DEF IInv, TypeOK, Conservation, NeverOversold, take
<1>7. pc'[c] # "waiting"
  BY <1>1 DEF IInv, TypeOK, take, Goto
<1>8. NoStrandedProduct'
  BY <1>7 DEF NoStrandedProduct
<1> QED
  BY <1>2, <1>3, <1>4, <1>6, <1>8 DEF IInv

\* The store of nready += 5, after which the producer owes a signal.
LEMMA AddStep == ASSUME IInv, NEW p \in Producers, add_batch(p) PROVE IInv'
<1>1. /\ p \in Threads /\ p \notin Consumers
      /\ pc[p] = "store" /\ reg[p] = nready
  BY CondDemoAssumption DEF IInv, KnowsInv, add_batch, Threads
<1>2. TypeOK'
  BY <1>1, CondDemoAssumption DEF IInv, TypeOK, Where, add_batch, Goto
<1>3. HolderInv'
  BY <1>1 DEF IInv, TypeOK, HolderInv, Held, add_batch, Goto
<1>4. KnowsInv'
  BY <1>1 DEF IInv, TypeOK, HolderInv, Held, KnowsInv, add_batch, Goto, Threads
<1>5. Batch * (produced + 1) = Batch * produced + Batch /\ Batch * produced \in Nat
  BY CondDemoAssumption DEF IInv, TypeOK
<1>6. Conservation'
  BY <1>1, <1>5, CondDemoAssumption DEF IInv, TypeOK, Conservation, add_batch
<1>7. NeverOversold'
  BY <1>1, CondDemoAssumption DEF IInv, TypeOK, NeverOversold, add_batch
<1>8. pc'[p] = "signal"
  BY <1>1 DEF IInv, TypeOK, add_batch, Goto
<1>9. NoStrandedProduct'
  BY <1>8 DEF NoStrandedProduct
<1> QED
  BY <1>2, <1>3, <1>4, <1>6, <1>7, <1>9 DEF IInv

\* The signal: it wakes a consumer, or finds that none was waiting.
LEMMA SignalStep == ASSUME IInv, NEW p \in Producers, cond_signal(p) PROVE IInv'
<1>1. p \in Threads /\ p \notin Consumers /\ Consumers # {}
  BY CondDemoAssumption DEF Threads
<1>2. TypeOK'
  BY <1>1 DEF IInv, TypeOK, Where, cond_signal, Goto, Waiting, Threads
<1>3. HolderInv'
  BY <1>1 DEF IInv, TypeOK, HolderInv, Held, cond_signal, Goto, Waiting, Threads
<1>4. KnowsInv'
  BY <1>1 DEF IInv, TypeOK, KnowsInv, cond_signal, Goto, Waiting, Threads
<1>5. Conservation' /\ NeverOversold'
  BY DEF IInv, Conservation, NeverOversold, cond_signal
<1>6. \E c \in Consumers : pc'[c] # "waiting"
  <2>1. CASE Waiting = {}
    BY <1>1, <2>1 DEF IInv, TypeOK, cond_signal, Goto, Waiting, Threads
  <2>2. CASE Waiting # {}
    BY <1>1, <2>2 DEF IInv, TypeOK, cond_signal, Goto, Waiting, Threads
  <2> QED
    BY <2>1, <2>2
<1>7. NoStrandedProduct'
  BY <1>6 DEF NoStrandedProduct
<1> QED
  BY <1>2, <1>3, <1>4, <1>5, <1>7 DEF IInv

LEMMA NextInv == IInv /\ [Next]_vars => IInv'
<1> SUFFICES ASSUME IInv, [Next]_vars PROVE IInv'
  OBVIOUS
<1>1. ASSUME NEW t \in Threads, create(t) \/ mutex_lock(t) PROVE IInv'
  BY <1>1, FreeSteps, LockSteps
<1>2. ASSUME NEW c \in Consumers,
             consume(c) \/ cond_wait_returns(c) \/ spurious_wakeup(c)
      PROVE  IInv'
  <2>1. c \in Threads
    BY DEF Threads
  <2> QED
    BY <1>2, <2>1, FreeSteps, LockSteps, UnlockSteps, HolderSteps, TakeStep
    DEF consume
<1>3. ASSUME NEW p \in Producers, produce(p) PROVE IInv'
  <2>1. p \in Threads
    BY DEF Threads
  <2> QED
    BY <1>3, <2>1, FreeSteps, UnlockSteps, HolderSteps, AddStep, SignalStep
    DEF produce
<1>4. CASE UNCHANGED vars
  BY <1>4
  DEF vars, IInv, TypeOK, HolderInv, KnowsInv, Conservation, NeverOversold,
      NoStrandedProduct
<1> QED
  BY <1>1, <1>2, <1>3, <1>4 DEF Next

LEMMA SpecInv == Spec => []IInv
BY InitInv, NextInv, PTL DEF Spec

\* The types, and who can be where.
THEOREM TypeCorrect == Spec => []TypeOK
<1>1. IInv => TypeOK
  BY DEF IInv
<1> QED
  BY <1>1, SpecInv, PTL

\* No update of nready by consume or produce is lost.
THEOREM NothingLost == Spec => []Conservation
<1>1. IInv => Conservation
  BY DEF IInv
<1> QED
  BY <1>1, SpecInv, PTL

\* consume never takes a product that is not there, spurious and stolen
\* wakeups included.
THEOREM NothingOversold == Spec => []NeverOversold
<1>1. IInv => NeverOversold
  BY DEF IInv
<1> QED
  BY <1>1, SpecInv, PTL

\* The one pthread_cond_signal of a batch never leaves every consumer of any
\* number of them waiting while there are products.
THEOREM NothingStranded == Spec => []NoStrandedProduct
<1>1. IInv => NoStrandedProduct
  BY DEF IInv
<1> QED
  BY <1>1, SpecInv, PTL
=============================================================================
