------------------------------ MODULE CondDemo ------------------------------
(***************************************************************************)
(* The condition-variable demo of src/pthread_cond.c: consumers that wait  *)
(* for products under one mutex, producers that make Batch products at a   *)
(* time and signal ONE waiting thread for the whole batch.                 *)
(*                                                                         *)
(* --nready and nready += 5 are a load and a store, so that what the mutex *)
(* protects is visible; printing and the index it prints are left out.     *)
(***************************************************************************)
EXTENDS Integers

CONSTANTS
    Consumers,  \* CONSUMERS_COUNT threads running consume
    Producers,  \* PRODUCERS_COUNT threads running produce
    Batch,      \* products made at a time
    InitVar,    \* initial value of the static var of produce: batches to make
    None        \* no thread

Threads == Consumers \cup Producers

ASSUME CondDemoAssumption ==
    /\ Batch \in Nat /\ InitVar \in Nat
    /\ Consumers # {}
    /\ Consumers \cap Producers = {}
    /\ None \notin Threads

VARIABLES
    pc,         \* where each thread is; "off" before pthread_create
    mutex,      \* the thread that holds g_mutex, or None
    nready, var,
    reg,        \* each thread's copy of nready between its load and its store
    produced,   \* history: batches made
    consumed    \* history: products consumed

vars == <<pc, mutex, nready, var, reg, produced, consumed>>

Init ==
    /\ pc = [t \in Threads |-> "off"]
    /\ mutex = None
    /\ nready = 0 /\ var = InitVar
    /\ reg = [t \in Threads |-> 0]
    /\ produced = 0 /\ consumed = 0

Goto(t, where) == pc' = [pc EXCEPT ![t] = where]

\* pthread_cond_demo: the consumers are created first, then the producers;
\* nothing waits for a created thread to get anywhere.
create(t) ==
    /\ pc[t] = "off"
    /\ t \in Producers => \A c \in Consumers : pc[c] # "off"
    /\ Goto(t, "lock")
    /\ UNCHANGED <<mutex, nready, var, reg, produced, consumed>>

-----------------------------------------------------------------------------
(* The mutex and the condition variable, as POSIX defines them.            *)

\* Mutant: enters without the mutex.
mutex_lock_unguarded(t) ==
    /\ pc[t] = "lock"
    /\ mutex' = t
    /\ Goto(t, "test")
    /\ UNCHANGED <<nready, var, reg, produced, consumed>>

mutex_lock(t) ==
    /\ pc[t] = "lock" /\ mutex = None
    /\ mutex' = t
    /\ Goto(t, "test")
    /\ UNCHANGED <<nready, var, reg, produced, consumed>>

\* Unlocks, then sleeps: 10 microseconds a consumer, a second a producer.
mutex_unlock(t) ==
    /\ pc[t] = "unlock"
    /\ mutex' = None
    /\ Goto(t, "sleep")
    /\ UNCHANGED <<nready, var, reg, produced, consumed>>

sleep(t) ==
    /\ pc[t] = "sleep"
    /\ Goto(t, "lock")
    /\ UNCHANGED <<mutex, nready, var, reg, produced, consumed>>

\* A wakeup nobody signalled, which POSIX allows.
spurious_wakeup(c) ==
    /\ pc[c] = "waiting"
    /\ Goto(c, "relock")
    /\ UNCHANGED <<mutex, nready, var, reg, produced, consumed>>

\* Mutant: the while around pthread_cond_wait is an if.
cond_wait_returns_untested(c) ==
    /\ pc[c] = "relock" /\ mutex = None
    /\ mutex' = c
    /\ Goto(c, "load")
    /\ UNCHANGED <<nready, var, reg, produced, consumed>>

\* pthread_cond_wait takes the mutex again before it returns to the loop.
cond_wait_returns(c) ==
    /\ pc[c] = "relock" /\ mutex = None
    /\ mutex' = c
    /\ Goto(c, "test")
    /\ UNCHANGED <<nready, var, reg, produced, consumed>>

-----------------------------------------------------------------------------
(* consume                                                                 *)

\* Mutant: waits with a product left.
Empty_off_by_one == nready <= 1

Empty == nready <= 0

\* Releases the mutex and waits, atomically.
cond_wait(c) ==
    /\ pc[c] = "test" /\ Empty
    /\ mutex' = None
    /\ Goto(c, "waiting")
    /\ UNCHANGED <<nready, var, reg, produced, consumed>>

leave_wait_loop(c) ==
    /\ pc[c] = "test" /\ ~Empty
    /\ Goto(c, "load")
    /\ UNCHANGED <<mutex, nready, var, reg, produced, consumed>>

load(t) ==
    /\ pc[t] = "load"
    /\ reg' = [reg EXCEPT ![t] = nready]
    /\ Goto(t, "store")
    /\ UNCHANGED <<mutex, nready, var, produced, consumed>>

\* Mutant: a consumer signals as a producer does.
take_signals(c) ==
    /\ pc[c] = "store"
    /\ nready' = reg[c] - 1
    /\ consumed' = consumed + 1
    /\ reg' = [reg EXCEPT ![c] = 0]
    /\ Goto(c, "signal")
    /\ UNCHANGED <<mutex, var, produced>>

take(c) ==
    /\ pc[c] = "store"
    /\ nready' = reg[c] - 1
    /\ consumed' = consumed + 1
    /\ reg' = [reg EXCEPT ![c] = 0]
    /\ Goto(c, "unlock")
    /\ UNCHANGED <<mutex, var, produced>>

-----------------------------------------------------------------------------
(* produce                                                                 *)

start_batch(p) ==
    /\ pc[p] = "test" /\ var > 0
    /\ var' = var - 1
    /\ Goto(p, "load")
    /\ UNCHANGED <<mutex, nready, reg, produced, consumed>>

nothing_to_make(p) ==
    /\ pc[p] = "test" /\ var <= 0
    /\ Goto(p, "unlock")
    /\ UNCHANGED <<mutex, nready, var, reg, produced, consumed>>

add_batch(p) ==
    /\ pc[p] = "store"
    /\ nready' = reg[p] + Batch
    /\ produced' = produced + 1
    /\ reg' = [reg EXCEPT ![p] = 0]
    /\ Goto(p, "signal")
    /\ UNCHANGED <<mutex, var, consumed>>

Waiting == {c \in Consumers : pc[c] = "waiting"}

\* Mutant: the signal is missing.
cond_signal_missing(p) ==
    /\ pc[p] = "signal"
    /\ Goto(p, "unlock")
    /\ UNCHANGED <<mutex, nready, var, reg, produced, consumed>>

\* Wakes one waiting thread; nobody, when nobody waits.
cond_signal(p) ==
    /\ pc[p] = "signal"
    /\ IF Waiting = {}
       THEN Goto(p, "unlock")
       ELSE \E c \in Waiting :
              pc' = [pc EXCEPT ![p] = "unlock", ![c] = "relock"]
    /\ UNCHANGED <<mutex, nready, var, reg, produced, consumed>>

-----------------------------------------------------------------------------
consume(c) ==
    \/ cond_wait(c) \/ leave_wait_loop(c) \/ load(c) \/ take(c)
    \/ mutex_unlock(c) \/ sleep(c)

produce(p) ==
    \/ start_batch(p) \/ nothing_to_make(p) \/ load(p) \/ add_batch(p)
    \/ cond_signal(p) \/ mutex_unlock(p) \/ sleep(p)

Next ==
    \/ \E t \in Threads : create(t) \/ mutex_lock(t)
    \/ \E c \in Consumers :
          consume(c) \/ cond_wait_returns(c) \/ spurious_wakeup(c)
    \/ \E p \in Producers : produce(p)

\* Every thread that can run runs.  A thread that holds the mutex gives it
\* back and then sleeps without it, so a thread that asks for the mutex again
\* and again finds it free gets it some time.  Nothing forces a spurious
\* wakeup.
Fairness ==
    /\ \A t \in Threads : WF_vars(create(t)) /\ SF_vars(mutex_lock(t))
    /\ \A c \in Consumers :
          WF_vars(consume(c)) /\ SF_vars(cond_wait_returns(c))
    /\ \A p \in Producers : WF_vars(produce(p))

Spec == Init /\ [][Next]_vars

FairSpec == Spec /\ Fairness

-----------------------------------------------------------------------------
(* Properties.                                                             *)

Where == {"off", "lock", "test", "load", "store", "signal", "unlock",
          "sleep", "waiting", "relock"}

\* The types; a consumer never signals, a producer never waits.
TypeOK ==
    /\ pc \in [Threads -> Where]
    /\ \A c \in Consumers : pc[c] # "signal"
    /\ \A p \in Producers : pc[p] \notin {"waiting", "relock"}
    /\ mutex \in Threads \cup {None}
    /\ nready \in Int /\ var \in Nat
    /\ reg \in [Threads -> Int]
    /\ produced \in Nat /\ consumed \in Nat

\* No update of nready is lost between one thread's load and its store: what
\* was made is either consumed or still counted.
Conservation == consumed + nready = Batch * produced

\* A consumer that was woken, by a signal another consumer was quicker to
\* act on or by no signal at all, never takes a product that is not there.
NeverOversold == nready >= 0

\* One signal for a batch is enough: while there is a product, some consumer
\* is not waiting, or the signal that wakes one is about to be sent.
NoStrandedProduct ==
    nready > 0 =>
        \/ \E c \in Consumers : pc[c] # "waiting"
        \/ \E p \in Producers : pc[p] = "signal"

\* Every product of every batch is consumed in the end.
AllConsumed == <>[](var = 0 /\ nready = 0 /\ consumed = Batch * InitVar)
=============================================================================
