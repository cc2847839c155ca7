----------------------------- MODULE EpollTimer -----------------------------
(***************************************************************************)
(* The timers of src/timer_posix.c on top of the epoll wrapper: threads    *)
(* that create epoll instances and start timers on them, and epoll_thread, *)
(* which dispatches the events of one instance to timer1_callback.  The    *)
(* callback of a one-shot timer stops it: disarm, EPOLL_CTL_DEL, close.    *)
(*                                                                         *)
(* A user does some of these: "start" (create instances and timers), "stop" *)
(* a periodic timer, "mod" its registration, "close" an epoll instance.    *)
(***************************************************************************)
EXTENDS Epoll

CONSTANT Roles      \* what the users may be there for: functions on Users

ASSUME RolesAssumption ==
    Roles \subseteq [Users -> SUBSET {"start", "stop", "mod", "close"}]

VARIABLES
    role,       \* what each user is there for; it never changes
    tm,         \* how each timerfd is armed: "off", "once" or "periodic"
    ready,      \* timerfds with an expiration that was not read
    eps,        \* epoll descriptors the users hold
    tfds,       \* descriptors of periodic timers the users hold
    loopfd,     \* the descriptor epoll_thread was given
    batch,      \* blocks of the events of the last epoll_wait still to do
    cur         \* the block being dispatched

timers == <<tm, ready>>
held   == <<eps, tfds>>
loop   == <<loopfd, batch, cur>>
vars   == <<registry, kernel, blk, threads, timers, held, loop>>

Init ==
    /\ InitEpoll /\ role \in Roles
    /\ pc = [t \in Threads |-> IF t = Loop THEN "off" ELSE "idle"]
    /\ frame = [t \in Threads |-> Idle]
    /\ tm = [f \in FDs |-> "off"] /\ ready = {}
    /\ eps = {} /\ tfds = {}
    /\ loopfd = 0 /\ batch = {} /\ cur = NoOne

\* A timerfd that was closed is not armed.
CloseTimers ==
    /\ tm' = [f \in FDs |-> IF fdtab'[f] = "timer" THEN tm[f] ELSE "off"]
    /\ ready' = {f \in ready : fdtab'[f] = "timer"}

\* timerfd_settime; on anything but a timerfd it fails and changes nothing.
settime(f, how) ==
    /\ tm' = [tm EXCEPT ![f] = IF fdtab[f] = "timer" THEN how ELSE @]
    /\ ready' = ready \ {f}

\* The kernel's clock: a one-shot timer expires once.
Expire(f) ==
    /\ tm[f] # "off"
    /\ ready' = ready \cup {f}
    /\ tm' = [tm EXCEPT ![f] = IF tm[f] = "once" THEN "off" ELSE "periodic"]
    /\ UNCHANGED <<registry, kernel, blk, threads, held, loop>>

-----------------------------------------------------------------------------
(* The users.                                                              *)

base_epoll_create(u) ==
    /\ "start" \in role[u] /\ pc[u] = "idle" /\ Len(list) < MaxNodes
    /\ epoll_create(u)
    /\ UNCHANGED <<timers, held, loop>>

create_returns(u) ==
    /\ \/ create_append(u) /\ eps' = eps \cup {frame[u].epfd}
       \/ create_fails(u) /\ UNCHANGED eps
    /\ CloseTimers
    /\ UNCHANGED <<tfds, loop>>

\* timer_test starts the thread on the instance it created.
start_loop ==
    /\ pc[Loop] = "off"
    /\ \E ep \in eps : loopfd' = ep
    /\ pc' = [pc EXCEPT ![Loop] = "wait"]
    /\ UNCHANGED <<registry, kernel, blk, frame, timers, held, batch, cur>>

\* do_action and do_action1: timerfd_create, then base_timer_start.
base_timer_create(u) ==
    /\ "start" \in role[u] /\ pc[u] = "idle" /\ Unused # {}
    /\ \E f \in FDs, ep \in eps, once \in BOOLEAN :
          /\ Open(f, "timer")
          /\ Goto(u, "start", [Idle EXCEPT !.op = "ADD", !.epfd = ep,
                                           !.fd = f, !.once = once])
    /\ UNCHANGED <<registry, blk, timers, held, loop>>

\* base_timer_start arms the timer before it registers it.
base_timer_start(u) ==
    /\ pc[u] = "start" /\ fdtab[frame[u].fd] = "timer"
    /\ settime(frame[u].fd, IF frame[u].once THEN "once" ELSE "periodic")
    /\ Goto(u, "ctl", frame[u])
    /\ UNCHANGED <<registry, kernel, blk, held, loop>>

\* malloc, clock_gettime or timerfd_settime fails: base_timer_delete.
base_timer_start_fails(u) ==
    /\ pc[u] = "start"
    /\ Close(frame[u].fd) /\ CloseTimers
    /\ Goto(u, "idle", Idle)
    /\ UNCHANGED <<registry, blk, held, loop>>

\* Where a thread goes on when a call that is not its own returns.
Caller(t) == IF t = Loop THEN "dispatch" ELSE "idle"

\* Mutant: the timer is disarmed and stays registered.
base_timer_stop_registered(t, ep, f) ==
    settime(f, "off") /\ Goto(t, Caller(t), Idle)

\* base_timer_stop: disarm; EPOLL_CTL_DEL and close follow.
base_timer_stop(t, ep, f) ==
    /\ settime(f, "off")
    /\ Goto(t, "ctl", [Idle EXCEPT !.op = "DEL", !.epfd = ep, !.fd = f])

user_stops(u) ==
    /\ "stop" \in role[u] /\ pc[u] = "idle"
    /\ \E f \in tfds, ep \in eps :
          base_timer_stop(u, ep, f) /\ tfds' = tfds \ {f}
    /\ UNCHANGED <<registry, kernel, blk, eps, loop>>

user_mods(u) ==
    /\ "mod" \in role[u] /\ pc[u] = "idle" /\ Unused # {}
    /\ \E f \in tfds, ep \in eps :
          Goto(u, "ctl", [Idle EXCEPT !.op = "MOD", !.epfd = ep, !.fd = f])
    /\ UNCHANGED <<registry, kernel, blk, timers, held, loop>>

user_closes(u) ==
    /\ "close" \in role[u] /\ pc[u] = "idle"
    /\ \E ep \in eps : /\ Goto(u, "close", [Idle EXCEPT !.epfd = ep])
                       /\ eps' = eps \ {ep}
    /\ UNCHANGED <<registry, kernel, blk, timers, tfds, loop>>

base_epoll_close(u) ==
    /\ close_unlink(u) \/ close_free(u) \/ close_fd(u)
    /\ CloseTimers
    /\ UNCHANGED <<held, loop>>

base_epoll_ctl(t) == ctl(t) /\ UNCHANGED <<timers, held, loop>>

\* base_epoll_ctl returned: base_timer_start keeps the timer or deletes it,
\* base_timer_stop closes it.
ctl_returned(t) ==
    LET f == frame[t] IN
    /\ pc[t] = "ret"
    /\ IF f.op = "DEL" \/ (f.op = "ADD" /\ f.ret # 0)
       THEN Close(f.fd) /\ CloseTimers /\ UNCHANGED tfds
       ELSE /\ tfds' = IF f.op = "ADD" /\ ~f.once THEN tfds \cup {f.fd} ELSE tfds
            /\ UNCHANGED <<kernel, timers>>
    /\ Goto(t, Caller(t), Idle)
    /\ UNCHANGED <<registry, blk, eps, loop>>

-----------------------------------------------------------------------------
(* epoll_thread.                                                           *)

\* base_epoll_wait; the kernel hands out the pointers it was given.
epoll_wait ==
    /\ pc[Loop] = "wait" /\ fdtab[loopfd] = "epoll"
    /\ LET events == {i \in interest : i[1] = loopfd /\ i[2] \in ready} IN
       events # {} /\ batch' = {i[3] : i \in events}
    /\ pc' = [pc EXCEPT ![Loop] = "dispatch"]
    /\ UNCHANGED <<registry, kernel, blk, frame, timers, held, loopfd, cur>>

\* The descriptor is no epoll instance any more: the thread leaves its loop.
epoll_wait_fails ==
    /\ pc[Loop] = "wait" /\ fdtab[loopfd] # "epoll"
    /\ pc' = [pc EXCEPT ![Loop] = "exit"]
    /\ UNCHANGED <<registry, kernel, blk, frame, timers, held, loop>>

\* It closes the descriptor on its way out, whatever that is by now.
epoll_thread_exits ==
    /\ pc[Loop] = "exit"
    /\ Close(loopfd) /\ CloseTimers
    /\ pc' = [pc EXCEPT ![Loop] = "ended"]
    /\ UNCHANGED <<registry, blk, frame, held, loop>>

\* The next event; the order is the kernel's.
dispatch ==
    /\ pc[Loop] = "dispatch"
    /\ IF batch = {}
       THEN cur' = NoOne /\ batch' = {} /\ pc' = [pc EXCEPT ![Loop] = "wait"]
       ELSE /\ cur' \in batch /\ batch' = batch \ {cur'}
            /\ pc' = [pc EXCEPT ![Loop] = "callback"]
    /\ UNCHANGED <<registry, kernel, blk, frame, timers, held, loopfd>>

\* timer1_callback reads the timer, and stops it when it has no interval.
\* What a freed block holds is undefined: the behaviour ends there.
timer1_callback ==
    LET b == blk[cur] IN
    /\ pc[Loop] = "callback" /\ b.st = "live"
    /\ IF b.once
       THEN base_timer_stop(Loop, b.eplfd, b.fd)
       ELSE /\ ready' = ready \ {b.fd} /\ UNCHANGED tm
            /\ Goto(Loop, "dispatch", Idle)
    /\ UNCHANGED <<registry, kernel, blk, held, loop>>

-----------------------------------------------------------------------------
user(u) ==
    \/ base_epoll_create(u) \/ create_returns(u)
    \/ base_timer_create(u) \/ base_timer_start(u) \/ base_timer_start_fails(u)
    \/ user_stops(u) \/ user_mods(u) \/ user_closes(u) \/ base_epoll_close(u)
    \/ base_epoll_ctl(u) \/ ctl_returned(u)

epoll_thread ==
    \/ start_loop
    \/ epoll_wait \/ epoll_wait_fails \/ epoll_thread_exits
    \/ dispatch \/ timer1_callback
    \/ base_epoll_ctl(Loop) \/ ctl_returned(Loop)

Next ==
    /\ (\E u \in Users : user(u)) \/ epoll_thread \/ \E f \in FDs : Expire(f)
    /\ UNCHANGED role

Spec == Init /\ [][Next]_<<vars, role>>

\* Steps of a call in progress: a user is free not to make a call.
call(u) ==
    \/ create_returns(u) \/ base_timer_start(u) \/ base_epoll_close(u)
    \/ base_epoll_ctl(u) \/ ctl_returned(u)

\* Every thread is scheduled, timers expire, and a thread that keeps finding
\* the lock free sooner or later gets it.
FairSpec ==
    /\ Spec
    /\ \A u \in Users : SF_vars(call(u))
    /\ SF_vars(epoll_thread)
    /\ \A f \in FDs : WF_vars(Expire(f))

-----------------------------------------------------------------------------
(* Properties.                                                             *)

\* epoll_thread never calls back through a block that was freed: what
\* epoll_wait handed out is still there when its turn comes.
DispatchedLive == pc[Loop] = "callback" => blk[cur].st = "live"

\* That holds as long as the users only create instances and start timers, and
\* the timers stop themselves from their callbacks.
OnlyStarts == \A u \in Users : role[u] \subseteq {"start"}
SelfStopsLive == OnlyStarts => DispatchedLive

\* The kernel is left with a pointer to a freed block by nothing but an
\* EPOLL_CTL_MOD of the same descriptor, or a base_epoll_close of the same
\* instance: no other descriptor and no other instance loses its block.
FreedByOwner ==
    [][\A i \in interest \cap interest' :
          blk'[i[3]].st # blk[i[3]].st =>
              \E t \in Threads :
                 /\ frame[t].epfd = i[1]
                 /\ \/ pc[t] = "MOD" /\ frame[t].fd = i[2]
                    \/ pc[t] = "free_node"]_vars

\* Every entry of every hash table, those being freed included, owns a live
\* block, and no block has two owners: no block is freed twice.
Tables == {list[i].hash : i \in DOMAIN list} \cup {frame[t].node : t \in Threads}
HashOwnsBlocks ==
    /\ \A h \in Tables : \A e \in h : blk[e[2]].st = "live"
    /\ \A h, g \in Tables : \A d \in h, e \in g : d[2] = e[2] => h = g /\ d = e
    /\ \A i, j \in DOMAIN list : i # j => list[i].hash \cap list[j].hash = {}

\* Where timers are only started, a one-shot timer of the dispatched instance runs once and is then gone
\* from the kernel, its descriptor closed.
OneShotStops ==
    \A b \in Blks :
        (OnlyStarts /\ pc[Loop] # "off" /\ blk[b].once /\ <<loopfd, blk[b].fd, b>> \in interest)
        ~> \A i \in interest : i[3] # b

\* Every call of the wrapper returns: no path keeps the lock.
CallsReturn == \A u \in Users : pc[u] = "ctl" ~> pc[u] = "idle"

=============================================================================
