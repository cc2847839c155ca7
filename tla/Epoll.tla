-------------------------------- MODULE Epoll --------------------------------
(***************************************************************************)
(* The epoll wrapper of src/epoll.c: a process-wide list of epoll          *)
(* instances under one write lock, each with a hash table that owns the    *)
(* event blocks registered with it, beside the kernel's own interest       *)
(* lists, which hold raw pointers to the same blocks.                      *)
(*                                                                         *)
(* The key given to the hash table is the address of base_epoll_ctl's      *)
(* parameter event_fd.  It is read when the chain is chosen; afterwards    *)
(* the address is dangling, so comparing a stored key with a new one may   *)
(* give either answer.                                                     *)
(*                                                                         *)
(* This module has the state and the steps of the calls; EpollTimer adds   *)
(* the threads that make them.                                             *)
(***************************************************************************)
EXTENDS Integers, Sequences, FiniteSets, FiniteSetsExt, SequencesExt

CONSTANTS
    Users,      \* threads that call the wrapper
    Loop,       \* the thread that runs epoll_thread
    FDs,        \* file descriptors the process may have open
    Blks,       \* event blocks that can ever be allocated
    TableSize,  \* number of chains of a hash table
    MaxNodes,   \* bound: epoll instances in the list
    NoOne       \* not a thread, not a block

Threads == Users \cup {Loop}

ASSUME EpollAssumption ==
    /\ FDs \subseteq Nat \ {0}
    /\ TableSize \in Nat \ {0}
    /\ MaxNodes \in Nat
    /\ Loop \notin Users
    /\ NoOne \notin Threads \cup Blks

VARIABLES
    fdtab,      \* what each descriptor is: "free", "epoll" or "timer"
    list,       \* g_p_epoll_list: a sequence of [epoll_fd, hash]
    lock,       \* the thread that holds g_epoll_list_lock
    interest,   \* the kernel's interest lists: <<epfd, fd, block>>
    blk,        \* the event blocks
    pc,         \* where each thread is
    frame       \* the locals of the call each thread is in

registry == <<list, lock>>
kernel   == <<fdtab, interest>>
threads  == <<pc, frame>>

\* An entry of a hash table: the descriptor its chain was chosen by, and the
\* block it owns.
Entry == FDs \X Blks

Free == [st |-> "unused", eplfd |-> 0, fd |-> 0, once |-> FALSE]

Idle == [op |-> "none", epfd |-> 0, fd |-> 0, once |-> FALSE,
         evt |-> NoOne, node |-> {}, ret |-> 0]

InitEpoll ==
    /\ fdtab = [f \in FDs |-> "free"]
    /\ list = <<>> /\ lock = NoOne
    /\ interest = {}
    /\ blk = [b \in Blks |-> Free]

\* Thread t goes on at l with the locals f.
Goto(t, l, f) == pc' = [pc EXCEPT ![t] = l] /\ frame' = [frame EXCEPT ![t] = f]

-----------------------------------------------------------------------------
(* The kernel.                                                             *)

\* open returns the lowest descriptor that is free.
LowestFree(f) == fdtab[f] = "free" /\ \A g \in FDs : g < f => fdtab[g] # "free"

Open(f, what) ==
    /\ LowestFree(f)
    /\ fdtab' = [fdtab EXCEPT ![f] = what]
    /\ UNCHANGED interest

\* close drops the descriptor from every interest list, and its own list.
Close(f) ==
    /\ fdtab' = [fdtab EXCEPT ![f] = "free"]
    /\ interest' = {i \in interest : i[1] # f /\ i[2] # f}

Registered(ep, f) == {i \in interest : i[1] = ep /\ i[2] = f}

-----------------------------------------------------------------------------
(* The event blocks and the hash table of one epoll instance.              *)

\* base_epoll_free_event_block, for a set of blocks.
free_event_block(blocks) ==
    [b \in Blks |-> IF b \in blocks THEN [blk[b] EXCEPT !.st = "freed"] ELSE blk[b]]

\* A block is never used twice, so that a use after free shows.
Unused == {b \in Blks : blk[b].st = "unused"}
malloc == CHOOSE b \in Unused : TRUE

Allocate(f) ==
    [st |-> "live", eplfd |-> f.epfd, fd |-> f.fd, once |-> f.once]

\* Mutant: the chain is not chosen by the key.
Chain_any(hash, fd) == hash

\* The entries that hash_table_insert and hash_table_remove compare with.
Chain(hash, fd) == {e \in hash : e[1] % TableSize = fd % TableSize}

\* list_find_data: the first node of that epoll descriptor.
Found(ep) == \E i \in DOMAIN list : list[i].epoll_fd = ep
NodeOf(ep) == CHOOSE i \in DOMAIN list :
                 /\ list[i].epoll_fd = ep
                 /\ \A j \in 1 .. i - 1 : list[j].epoll_fd # ep

SetHash(ep, h) == list' = [list EXCEPT ![NodeOf(ep)].hash = h]

-----------------------------------------------------------------------------
(* base_epoll_create                                                       *)

epoll_create(t) ==
    /\ \E f \in FDs : /\ Open(f, "epoll")
                      /\ Goto(t, "append", [Idle EXCEPT !.epfd = f])
    /\ UNCHANGED <<registry, blk>>

create_append(t) ==
    /\ pc[t] = "append" /\ lock = NoOne
    /\ list' = Append(list, [epoll_fd |-> frame[t].epfd, hash |-> {}])
    /\ Goto(t, "idle", Idle)
    /\ UNCHANGED <<lock, kernel, blk>>

\* No memory for the hash table or for the node.
create_fails(t) ==
    /\ pc[t] = "append"
    /\ Close(frame[t].epfd)
    /\ Goto(t, "idle", Idle)
    /\ UNCHANGED <<registry, blk>>

-----------------------------------------------------------------------------
(* base_epoll_close                                                        *)

close_unlink(t) ==
    /\ pc[t] = "close" /\ lock = NoOne
    /\ LET ep == frame[t].epfd IN
       IF Found(ep)
       THEN /\ list' = RemoveAt(list, NodeOf(ep))
            /\ Goto(t, "free_node", [frame[t] EXCEPT !.node = list[NodeOf(ep)].hash])
       ELSE /\ Goto(t, "close_fd", frame[t])
            /\ UNCHANGED list
    /\ UNCHANGED <<lock, kernel, blk>>

\* After the unlock: hash_table_free, and the node.
close_free(t) ==
    /\ pc[t] = "free_node"
    /\ blk' = free_event_block({e[2] : e \in frame[t].node})
    /\ Goto(t, "close_fd", [frame[t] EXCEPT !.node = {}])
    /\ UNCHANGED <<registry, kernel>>

close_fd(t) ==
    /\ pc[t] = "close_fd"
    /\ Close(frame[t].epfd)
    /\ Goto(t, "idle", Idle)
    /\ UNCHANGED <<registry, blk>>

-----------------------------------------------------------------------------
(* base_epoll_ctl                                                          *)

\* EXIT: unlock, free the block of a failed call, return.
ctl_exit(t, ret, blocks) ==
    /\ lock' = NoOne
    /\ blk' = blocks
    /\ Goto(t, "ret", [frame[t] EXCEPT !.ret = ret, !.evt = NoOne])

\* Mutant: the error paths return without the unlock.
ctl_fails_locked(t) ==
    /\ UNCHANGED <<lock, blk>>
    /\ Goto(t, "ret", [frame[t] EXCEPT !.ret = -1])

\* malloc or the kernel failed: whatever block there was is freed.
ctl_fails(t) == ctl_exit(t, -1, blk)

\* No such epoll instance: returns 0 all the same.
ctl_lock(t) ==
    /\ pc[t] = "ctl" /\ lock = NoOne
    /\ IF Found(frame[t].epfd)
       THEN lock' = t /\ Goto(t, frame[t].op, frame[t])
       ELSE lock' = lock /\ Goto(t, "ret", [frame[t] EXCEPT !.ret = 0])
    /\ UNCHANGED <<list, kernel, blk>>

\* EPOLL_CTL_ADD and EPOLL_CTL_MOD: a new block, given to the kernel.
epoll_ctl_gives(t) ==
    LET f == frame[t] IN
    /\ pc[t] \in {"ADD", "new_block"}
    /\ \/ /\ fdtab[f.epfd] = "epoll" /\ fdtab[f.fd] # "free"
          /\ (pc[t] = "ADD") = (Registered(f.epfd, f.fd) = {})
          /\ Unused # {}
          /\ LET b == malloc IN
                /\ blk' = [blk EXCEPT ![b] = Allocate(f)]
                /\ interest' = (interest \ Registered(f.epfd, f.fd))
                               \cup {<<f.epfd, f.fd, b>>}
                /\ Goto(t, "insert", [f EXCEPT !.evt = b])
          /\ UNCHANGED lock
       \/ ctl_fails(t) /\ UNCHANGED interest
    /\ UNCHANGED <<list, fdtab>>

\* hash_table_insert: an entry of the chain that seems to have the same key is
\* overwritten and its block freed, else a new entry is linked; without memory
\* for it the block stays with the kernel alone.  The call returns 0.
hash_table_insert(t) ==
    LET f == frame[t]  hash == list[NodeOf(f.epfd)].hash  new == <<f.fd, f.evt>> IN
    /\ pc[t] = "insert"
    /\ \/ \E e \in Chain(hash, f.fd) :
             /\ SetHash(f.epfd, (hash \ {e}) \cup {new})
             /\ ctl_exit(t, 0, free_event_block({e[2]}))
       \/ /\ SetHash(f.epfd, hash \cup {new}) \/ UNCHANGED list
          /\ ctl_exit(t, 0, blk)
    /\ UNCHANGED kernel

epoll_ctl_del(t) ==
    LET f == frame[t]  gone == Registered(f.epfd, f.fd) IN
    /\ pc[t] = "DEL"
    /\ interest' = interest \ gone
    /\ Goto(t, "remove", [f EXCEPT !.ret = IF gone = {} THEN -1 ELSE 0])
    /\ UNCHANGED <<registry, fdtab, blk>>

\* Mutant: the block is freed and its entry stays.
Unlink_forgets(hash, e) == hash

Unlink(hash, e) == hash \ {e}

\* hash_table_remove: some entry of the chain that seems to have the key is
\* unlinked and its block freed, or none is.  MOD goes on, DEL returns.
hash_table_remove(t) ==
    LET f == frame[t]  hash == list[NodeOf(f.epfd)].hash IN
    /\ pc[t] \in {"remove", "MOD"}
    /\ \E gone \in {{e} : e \in Chain(hash, f.fd)} \cup {{}} :
          LET left == IF gone = {} THEN hash ELSE Unlink(hash, CHOOSE e \in gone : TRUE)
              freed == free_event_block({e[2] : e \in gone})
          IN /\ SetHash(f.epfd, left)
             /\ IF pc[t] = "MOD"
                THEN blk' = freed /\ Goto(t, "new_block", f) /\ UNCHANGED lock
                ELSE ctl_exit(t, f.ret, freed)
    /\ UNCHANGED kernel

ctl(t) ==
    \/ ctl_lock(t)
    \/ epoll_ctl_gives(t)
    \/ hash_table_insert(t)
    \/ epoll_ctl_del(t)
    \/ hash_table_remove(t)

=============================================================================
