-------------------------- MODULE EpollTimerProofs --------------------------
(***************************************************************************)
(* Proofs about the epoll wrapper and its timers: the blocks of the hash   *)
(* tables have one owner each, the kernel loses a block only to the owner  *)
(* of the same chain, and timers that stop themselves are dispatched on    *)
(* live blocks.  The inductive invariant says which thread may touch what  *)
(* between two of its steps.                                               *)
(***************************************************************************)
EXTENDS EpollTimer, SequenceTheorems, WellFoundedInduction, TLAPS

\* Where a thread of base_epoll_ctl holds g_epoll_list_lock.
Locked == {"ADD", "MOD", "DEL", "new_block", "insert", "remove"}

\* Where the descriptors of a frame were set.
HasEpfd == {"append", "close", "free_node", "close_fd", "start", "ctl", "ret"} \cup Locked
HasFd   == {"start", "ctl", "ret"} \cup Locked

PCs == HasEpfd \cup {"off", "idle", "wait", "dispatch", "callback", "exit", "ended"}

Node  == [epoll_fd : FDs, hash : SUBSET Entry]
Block == [st : {"unused", "live", "freed"}, eplfd : FDs \cup {0},
          fd : FDs \cup {0}, once : BOOLEAN]
Frame == [op : {"none", "ADD", "MOD", "DEL"}, epfd : FDs \cup {0},
          fd : FDs \cup {0}, once : BOOLEAN, evt : Blks \cup {NoOne},
          node : SUBSET Entry, ret : {0, -1}]

TypeOK ==
    /\ fdtab \in [FDs -> {"free", "epoll", "timer"}]
    /\ list \in Seq(Node)
    /\ lock \in Threads \cup {NoOne}
    /\ interest \subseteq FDs \X FDs \X Blks
    /\ blk \in [Blks -> Block]
    /\ pc \in [Threads -> PCs]
    /\ frame \in [Threads -> Frame]
    /\ eps \subseteq FDs /\ tfds \subseteq FDs
    /\ batch \subseteq Blks
    /\ pc[Loop] = "callback" => cur \in Blks
    /\ pc[Loop] # "off" => loopfd \in FDs

\* A frame has what the next step of its call reads, and nothing left over.
FrameOK ==
    \A t \in Threads :
        /\ pc[t] \in HasEpfd => frame[t].epfd \in FDs
        /\ pc[t] \in HasFd => frame[t].fd \in FDs
        /\ pc[t] \in {"start", "ctl"} => frame[t].op # "none"
        /\ pc[t] # "free_node" => frame[t].node = {}
        /\ IF pc[t] = "insert" THEN frame[t].evt \in Blks ELSE frame[t].evt = NoOne

\* A thread inside the lock is the one that holds it, and its node is there.
LockOK == \A t \in Threads : pc[t] \in Locked => lock = t /\ Found(frame[t].epfd)

\* A block that was allocated says which instance and descriptor it is for.
BlockOK == \A b \in Blks : blk[b].st # "unused" => blk[b].eplfd \in FDs /\ blk[b].fd \in FDs

\* The entry e of a table of the instance ep owns its block.
Owns(blocks, ep, e) ==
    blocks[e[2]].st = "live" /\ blocks[e[2]].eplfd = ep /\ blocks[e[2]].fd = e[1]

\* Every entry of a listed table owns its block, alone.
ListOK ==
    \A i \in DOMAIN list : \A d \in list[i].hash :
        /\ Owns(blk, list[i].epoll_fd, d)
        /\ \A j \in DOMAIN list : \A e \in list[j].hash : d[2] = e[2] => i = j /\ d = e

\* So does every entry of a table that a base_epoll_close is about to free.
NodeOK ==
    \A t \in Threads : \A d \in frame[t].node :
        /\ Owns(blk, frame[t].epfd, d)
        /\ \A u \in Threads : \A e \in frame[u].node : d[2] = e[2] => t = u /\ d = e
        /\ \A i \in DOMAIN list : \A e \in list[i].hash : d[2] # e[2]

\* And the block a base_epoll_ctl is about to insert has no other owner.
EvtOK ==
    \A t \in Threads : pc[t] = "insert" =>
        /\ Owns(blk, frame[t].epfd, <<frame[t].fd, frame[t].evt>>)
        /\ \A i \in DOMAIN list : \A e \in list[i].hash : e[2] # frame[t].evt
        /\ \A u \in Threads : \A e \in frame[u].node : e[2] # frame[t].evt

\* The kernel has one pointer for a descriptor of an instance, the one it was
\* given; under the lock it is the block to insert, or gone.
KernelOK ==
    /\ \A i \in interest :
          /\ blk[i[3]].st # "unused" /\ blk[i[3]].eplfd = i[1] /\ blk[i[3]].fd = i[2]
          /\ \A j \in interest : i[1] = j[1] /\ i[2] = j[2] => i[3] = j[3]
    /\ \A t \in Threads : \A i \in interest :
          i[1] = frame[t].epfd /\ i[2] = frame[t].fd =>
              /\ pc[t] = "insert" => i[3] = frame[t].evt
              /\ pc[t] # "remove"

IInv ==
    /\ TypeOK /\ FrameOK /\ LockOK /\ BlockOK
    /\ ListOK /\ NodeOK /\ EvtOK /\ KernelOK

-----------------------------------------------------------------------------
(* What holds while the users only start timers.                           *)

\* No two descriptors of the process share a chain: it has fewer of them open
\* than a hash table has chains.
NoCollision == \A f, g \in FDs : f % TableSize = g % TableSize => f = g

\* Thread t, at l with the locals f, will close the timerfd of its frame.
Holds(t, l, f) ==
    IF t = Loop THEN l \in HasFd
    ELSE l \in {"start", "ctl", "ADD"} \/ (l = "ret" /\ f.ret # 0)
HoldsFd(t) == Holds(t, pc[t], frame[t])

\* Nothing but the calls that start timers and the callback's stop is under way.
CallsOK ==
    /\ \A u \in Users : pc[u] \in {"idle", "append", "start", "ctl", "ADD", "insert", "ret"}
    /\ \A u \in Users : pc[u] \in HasFd => frame[u].op = "ADD"
    /\ pc[Loop] \in {"off", "wait", "dispatch", "callback", "ctl", "DEL", "remove", "ret"}
    /\ pc[Loop] \in HasFd => frame[Loop].op = "DEL"

\* Instances stay open and in the list once they are created.
EpsOK ==
    /\ \A ep \in eps : fdtab[ep] = "epoll" /\ Found(ep)
    /\ pc[Loop] # "off" => loopfd \in eps
    /\ \A u \in Users : pc[u] = "append" =>
          /\ fdtab[frame[u].epfd] = "epoll" /\ frame[u].epfd \notin eps
          /\ \A v \in Users : pc[v] = "append" /\ frame[v].epfd = frame[u].epfd => u = v
    /\ \A t \in Threads : pc[t] \in HasFd => frame[t].epfd \in eps

\* A timerfd has one thread that may close it, and then no registration but
\* the one the callback is about to delete.
FdsOK ==
    \A t \in Threads : HoldsFd(t) =>
        /\ fdtab[frame[t].fd] = "timer"
        /\ \A u \in Threads : HoldsFd(u) /\ frame[u].fd = frame[t].fd => t = u
        /\ \A i \in interest : i[2] = frame[t].fd =>
              t = Loop /\ pc[t] \in {"ctl", "DEL"} /\ i[1] = frame[t].epfd

\* What the kernel has registered is open and live, and with one instance.
LiveOK ==
    \A i \in interest :
        /\ i[1] \in eps /\ fdtab[i[2]] = "timer" /\ blk[i[3]].st = "live"
        /\ \A j \in interest : i[2] = j[2] => i[1] = j[1]

\* The events still to dispatch are still registered, and none of them is the
\* one whose callback is stopping its timer.
BatchOK ==
    /\ \A b \in batch :
          /\ <<loopfd, blk[b].fd, b>> \in interest
          /\ pc[Loop] \in HasFd => blk[b].fd # frame[Loop].fd
          /\ pc[Loop] = "callback" => b # cur
    /\ pc[Loop] = "callback" => <<loopfd, blk[cur].fd, cur>> \in interest
    /\ pc[Loop] \in {"off", "wait"} => batch = {}

StartsOK == OnlyStarts => CallsOK /\ EpsOK /\ FdsOK /\ LiveOK /\ BatchOK

\* The kernel is left with a pointer to a freed block only by a call on the
\* same instance: its base_epoll_close, an EPOLL_CTL_MOD, or an insert or a
\* remove of another descriptor of the same chain.
FreedInChain ==
    [][\A i \in interest \cap interest' :
          blk'[i[3]].st # blk[i[3]].st =>
              \E t \in Threads :
                 /\ frame[t].epfd = i[1]
                 /\ \/ pc[t] = "free_node"
                    \/ /\ pc[t] \in {"MOD", "insert", "remove"}
                       /\ i[2] % TableSize = frame[t].fd % TableSize
                       /\ pc[t] # "MOD" => i[2] # frame[t].fd]_vars

-----------------------------------------------------------------------------
(* Lemmas about the operators of the model.                                *)

\* A set of natural numbers that is not empty has a least element.
LEMMA NatMin ==
    ASSUME NEW T, T \subseteq Nat, T # {}
    PROVE  \E x \in T : \A y \in T : x <= y
<1> DEFINE R == OpToRel(<, Nat)
<1>1. PICK x \in T : \A y \in T : ~ (<<y, x>> \in R)
  BY NatLessThanWellFounded, WFMin
<1>2. \A y \in Nat : y < x => <<y, x>> \in R
  BY DEF OpToRel
<1> HIDE DEF R
<1>3. \A y \in T : ~ (y < x)
  BY <1>1, <1>2
<1>4. \A y \in T : x <= y
  BY <1>3
<1>. QED  BY <1>4

\* list_find_data finds a node of the descriptor when there is one.
LEMMA NodeOfFound ==
    ASSUME list \in Seq(Node), NEW ep, Found(ep)
    PROVE  NodeOf(ep) \in DOMAIN list /\ list[NodeOf(ep)].epoll_fd = ep
<1> DEFINE T == {i \in DOMAIN list : list[i].epoll_fd = ep}
<1>1. T \subseteq Nat /\ T # {}
  BY DEF Found
<1>2. PICK i \in T : \A j \in T : i <= j
  BY <1>1, NatMin
<1>3. \A j \in 1 .. i - 1 : list[j].epoll_fd # ep
  BY <1>2
<1>4. \E k \in DOMAIN list :
         list[k].epoll_fd = ep /\ \A j \in 1 .. k - 1 : list[j].epoll_fd # ep
  BY <1>2, <1>3
<1>. QED  BY <1>4 DEF NodeOf

\* What is left of a sequence without its element i.
LEMMA RemoveAtElements ==
    ASSUME NEW S, NEW s \in Seq(S), NEW i \in 1 .. Len(s)
    PROVE  /\ RemoveAt(s, i) \in Seq(S)
           /\ Len(RemoveAt(s, i)) = Len(s) - 1
           /\ \A j \in 1 .. Len(s) - 1 :
                 RemoveAt(s, i)[j] = IF j < i THEN s[j] ELSE s[j + 1]
<1> DEFINE a == SubSeq(s, 1, i - 1)
           b == SubSeq(s, i + 1, Len(s))
           r == RemoveAt(s, i)
<1>1. a \in Seq(S) /\ Len(a) = i - 1 /\ \A j \in 1 .. i - 1 : a[j] = s[j]
  BY SubSeqProperties
<1>2. b \in Seq(S) /\ Len(b) = Len(s) - i /\ \A j \in 1 .. Len(s) - i : b[j] = s[i + j]
  BY SubSeqProperties
<1>3. r = a \o b
  BY DEF RemoveAt
<1> HIDE DEF a, b, r
<1>4. /\ r \in Seq(S) /\ Len(r) = Len(a) + Len(b)
      /\ \A j \in 1 .. Len(a) + Len(b) :
            r[j] = IF j <= Len(a) THEN a[j] ELSE b[j - Len(a)]
  BY <1>1, <1>2, <1>3, ConcatProperties
<1>5. Len(r) = Len(s) - 1
  BY <1>1, <1>2, <1>4
<1>6. ASSUME NEW j \in 1 .. Len(s) - 1
      PROVE  r[j] = IF j < i THEN s[j] ELSE s[j + 1]
  <2>1. j \in 1 .. Len(a) + Len(b) /\ j \in Int /\ i \in Int /\ Len(a) = i - 1
    BY <1>1, <1>2
  <2>2. r[j] = IF j <= Len(a) THEN a[j] ELSE b[j - Len(a)]
    BY <2>1, <1>4
  <2>3. CASE j < i
    BY <1>1, <2>1, <2>2, <2>3
  <2>4. CASE ~ (j < i)
    <3>1. r[j] = b[j - (i - 1)]
      BY <2>1, <2>2, <2>4
    <3>2. j - (i - 1) \in 1 .. Len(s) - i
      BY <2>4
    <3>. QED  BY <3>1, <3>2, <2>4, <1>2
  <2>. QED  BY <2>3, <2>4
<1>. QED  BY <1>4, <1>5, <1>6 DEF r

\* Giving the node of an instance another table changes nothing else.
LEMMA SetHashNodes ==
    ASSUME list \in Seq(Node), NEW ep, Found(ep), NEW h \in SUBSET Entry, SetHash(ep, h)
    PROVE  /\ list' \in Seq(Node)
           /\ DOMAIN list' = DOMAIN list
           /\ \A i \in DOMAIN list :
                 /\ list'[i].epoll_fd = list[i].epoll_fd
                 /\ list'[i].hash = IF i = NodeOf(ep) THEN h ELSE list[i].hash
           /\ \A e : Found(e) => Found(e)'
<1>1. NodeOf(ep) \in DOMAIN list
  BY NodeOfFound
<1>2. /\ list' \in Seq(Node) /\ DOMAIN list' = DOMAIN list
      /\ \A i \in DOMAIN list :
            /\ list'[i].epoll_fd = list[i].epoll_fd
            /\ list'[i].hash = IF i = NodeOf(ep) THEN h ELSE list[i].hash
  <2> DEFINE n == NodeOf(ep)
             r == [list[n] EXCEPT !.hash = h]
  <2>1. n \in DOMAIN list
    BY <1>1
  <2>2. list[n] \in Node
    BY <2>1
  <2>3. r \in Node /\ r.hash = h /\ r.epoll_fd = list[n].epoll_fd
    BY <2>2 DEF Node
  <2>4. list' = [list EXCEPT ![n] = r]
    BY DEF SetHash
  <2> HIDE DEF n, r
  <2>5. /\ list' \in Seq(Node) /\ DOMAIN list' = DOMAIN list
        /\ \A i \in DOMAIN list : list'[i] = IF i = n THEN r ELSE list[i]
    BY <2>1, <2>3, <2>4
  <2>. QED  BY <2>3, <2>5 DEF n
<1>. QED  BY <1>2 DEF Found

\* The entries of a chain are entries of the table.
LEMMA ChainSubset == \A h, fd : Chain(h, fd) \subseteq h
BY DEF Chain

-----------------------------------------------------------------------------
(* The invariant of the wrapper.                                           *)

\* At the start nothing is registered and no thread is in a call.
LEMMA InitInv == Init => IInv
<1> SUFFICES ASSUME Init PROVE IInv
  OBVIOUS
<1> USE DEF Init, InitEpoll
<1>1. Idle \in Frame /\ Idle.node = {} /\ Idle.evt = NoOne
  BY DEF Idle, Frame
<1>2. Free \in Block /\ Free.st = "unused"
  BY DEF Free, Block
<1>3. TypeOK
  BY <1>1, <1>2, EpollAssumption DEF TypeOK, PCs, HasEpfd, Threads
<1>4. FrameOK
  BY <1>1 DEF FrameOK, HasEpfd, HasFd, Locked
<1>5. LockOK /\ BlockOK /\ ListOK /\ NodeOK /\ EvtOK /\ KernelOK
  BY <1>1, <1>2 DEF LockOK, BlockOK, ListOK, NodeOK, EvtOK, KernelOK, Locked
<1>. QED  BY <1>3, <1>4, <1>5 DEF IInv

\* A step outside the lock that gives nothing to the kernel: one thread moves,
\* and the registry and the blocks stay as they are.
LEMMA QuietStep ==
    ASSUME IInv, TypeOK', NEW t \in Threads,
           list' = list, lock' = lock, blk' = blk, interest' \subseteq interest,
           \A u \in Threads \ {t} : pc'[u] = pc[u] /\ frame'[u] = frame[u],
           pc[t] \notin Locked, pc[t] # "free_node",
           pc'[t] \notin Locked, pc'[t] # "free_node",
           pc'[t] \in HasEpfd => frame'[t].epfd \in FDs,
           pc'[t] \in HasFd => frame'[t].fd \in FDs,
           pc'[t] \in {"start", "ctl"} => frame'[t].op # "none",
           frame'[t].node = {}, frame'[t].evt = NoOne
    PROVE  IInv'
<1> USE DEF IInv
<1>1. pc'[t] # "insert" /\ pc'[t] # "remove"
  BY DEF Locked
<1>2. FrameOK'
  BY <1>1 DEF FrameOK
<1>3. LockOK'
  BY DEF LockOK, Found
<1>4. BlockOK' /\ ListOK'
  BY DEF BlockOK, ListOK, Owns
<1>5. \A u \in Threads : frame'[u].node # {} => u # t /\ frame'[u] = frame[u]
  OBVIOUS
<1>6. NodeOK'
  <2> SUFFICES ASSUME NEW u \in Threads, NEW d \in frame'[u].node
               PROVE  /\ Owns(blk', frame'[u].epfd, d)
                      /\ \A v \in Threads : \A e \in frame'[v].node :
                            d[2] = e[2] => u = v /\ d = e
                      /\ \A i \in DOMAIN list : \A e \in list[i].hash : d[2] # e[2]
    BY DEF NodeOK, Owns
  <2>1. frame'[u] = frame[u]
    BY <1>5
  <2>2. Owns(blk', frame'[u].epfd, d)
    BY <2>1 DEF NodeOK, Owns
  <2>3. ASSUME NEW v \in Threads, NEW e \in frame'[v].node, d[2] = e[2]
        PROVE  u = v /\ d = e
    BY <2>1, <2>3, <1>5 DEF NodeOK
  <2>4. \A i \in DOMAIN list : \A e \in list[i].hash : d[2] # e[2]
    BY <2>1 DEF NodeOK
  <2>. QED  BY <2>2, <2>3, <2>4
<1>7. EvtOK'
  <2> SUFFICES ASSUME NEW u \in Threads, pc'[u] = "insert"
               PROVE  /\ Owns(blk', frame'[u].epfd, <<frame'[u].fd, frame'[u].evt>>)
                      /\ \A i \in DOMAIN list : \A e \in list[i].hash : e[2] # frame'[u].evt
                      /\ \A v \in Threads : \A e \in frame'[v].node : e[2] # frame'[u].evt
    BY DEF EvtOK, Owns
  <2>1. u # t /\ pc[u] = "insert" /\ frame'[u] = frame[u]
    BY <1>1
  <2>2. \A v \in Threads : \A e \in frame'[v].node : e[2] # frame'[u].evt
    BY <2>1, <1>5 DEF EvtOK
  <2>. QED  BY <2>1, <2>2 DEF EvtOK, Owns
<1>8. KernelOK'
  <2>1. \A i \in interest' : i \in interest
    OBVIOUS
  <2>2. \A u \in Threads : pc'[u] \in {"insert", "remove"} =>
           pc[u] = pc'[u] /\ frame'[u] = frame[u]
    BY <1>1
  <2>3. ASSUME NEW u \in Threads, NEW i \in interest',
               i[1] = frame'[u].epfd, i[2] = frame'[u].fd
        PROVE  /\ pc'[u] = "insert" => i[3] = frame'[u].evt
               /\ pc'[u] # "remove"
    BY <2>1, <2>2, <2>3 DEF KernelOK
  <2>4. \A i \in interest' :
          /\ blk'[i[3]].st # "unused" /\ blk'[i[3]].eplfd = i[1] /\ blk'[i[3]].fd = i[2]
          /\ \A j \in interest' : i[1] = j[1] /\ i[2] = j[2] => i[3] = j[3]
    BY <2>1 DEF KernelOK
  <2>. QED  BY <2>3, <2>4 DEF KernelOK
<1>. QED  BY <1>2, <1>3, <1>4, <1>6, <1>7, <1>8

\* The same for a call that goes on at l with the locals f.
LEMMA QuietGoto ==
    ASSUME IInv, NEW t \in Threads, NEW l \in PCs, NEW f \in Frame, Goto(t, l, f),
           fdtab' \in [FDs -> {"free", "epoll", "timer"}], interest' \subseteq interest,
           list' = list, lock' = lock, blk' = blk,
           eps' \subseteq FDs, tfds' \subseteq FDs,
           loopfd' = loopfd, batch' = batch, cur' = cur,
           pc[t] \notin Locked, pc[t] # "free_node", pc[t] # "off",
           l \notin Locked, l # "free_node", l # "callback",
           l \in HasEpfd => f.epfd \in FDs, l \in HasFd => f.fd \in FDs,
           l \in {"start", "ctl"} => f.op # "none", f.node = {}, f.evt = NoOne
    PROVE  IInv'
<1>1. pc \in [Threads -> PCs] /\ frame \in [Threads -> Frame]
  BY DEF IInv, TypeOK
<1>2. /\ pc' \in [Threads -> PCs] /\ frame' \in [Threads -> Frame]
      /\ pc'[t] = l /\ frame'[t] = f
      /\ \A u \in Threads \ {t} : pc'[u] = pc[u] /\ frame'[u] = frame[u]
  BY <1>1 DEF Goto
<1>3. Loop \in Threads
  BY DEF Threads
<1>4. TypeOK'
  BY <1>2, <1>3 DEF IInv, TypeOK
<1>. QED  BY <1>2, <1>4, QuietStep

\* Opening and closing a descriptor give the kernel no pointer.
LEMMA KernelSteps ==
    ASSUME TypeOK, NEW f, \/ Close(f) \/ \E what \in {"epoll", "timer"} : Open(f, what)
    PROVE  fdtab' \in [FDs -> {"free", "epoll", "timer"}] /\ interest' \subseteq interest
BY DEF TypeOK, Open, Close

\* The frames of a thread outside a call, of base_epoll_create and
\* base_epoll_close.
LEMMA IdleFrame == Idle \in Frame /\ Idle.node = {} /\ Idle.evt = NoOne
BY DEF Idle, Frame

LEMMA EpfdFrame ==
    ASSUME NEW f \in FDs, NEW new, new = [Idle EXCEPT !.epfd = f]
    PROVE  new \in Frame /\ new.epfd = f /\ new.node = {} /\ new.evt = NoOne
BY DEF Idle, Frame

\* What a user does outside the lock.
LEMMA UserInv ==
    ASSUME IInv, NEW u \in Users,
           \/ base_epoll_create(u)
           \/ create_fails(u) /\ UNCHANGED <<held, loop>>
           \/ base_timer_create(u) \/ base_timer_start(u) \/ base_timer_start_fails(u)
           \/ user_stops(u) \/ user_mods(u) \/ user_closes(u)
           \/ close_fd(u) /\ UNCHANGED <<held, loop>>
    PROVE  IInv'
<1> USE DEF held, loop, registry, kernel, threads, timers
<1>1. u \in Threads /\ TypeOK /\ FrameOK
  BY DEF Threads, IInv
<1>2. "idle" \in PCs /\ "append" \in PCs /\ "start" \in PCs /\ "ctl" \in PCs /\ "close" \in PCs
  BY DEF PCs, HasEpfd
<1>3. /\ eps \subseteq FDs /\ tfds \subseteq FDs
      /\ fdtab \in [FDs -> {"free", "epoll", "timer"}]
      /\ frame[u] \in Frame
  BY <1>1 DEF TypeOK
<1> USE DEF HasEpfd, HasFd, Locked
<1>4. CASE base_epoll_create(u)
  <2>1. PICK f \in FDs : Open(f, "epoll") /\ Goto(u, "append", [Idle EXCEPT !.epfd = f])
    BY <1>4 DEF base_epoll_create, epoll_create
  <2>2. fdtab' \in [FDs -> {"free", "epoll", "timer"}] /\ interest' \subseteq interest
    BY <2>1, <1>1, KernelSteps
  <2>. QED  BY <2>1, <2>2, <1>1, <1>2, <1>3, <1>4, QuietGoto, EpfdFrame
            DEF base_epoll_create, epoll_create
<1>5. CASE \/ create_fails(u) /\ UNCHANGED <<held, loop>>
           \/ base_timer_start_fails(u)
           \/ close_fd(u) /\ UNCHANGED <<held, loop>>
  <2>1. fdtab' \in [FDs -> {"free", "epoll", "timer"}] /\ interest' \subseteq interest
    BY <1>5, <1>1, KernelSteps DEF create_fails, base_timer_start_fails, close_fd
  <2>2. /\ Goto(u, "idle", Idle) /\ pc[u] \in {"append", "start", "close_fd"}
        /\ UNCHANGED <<registry, blk, held, loop>>
    BY <1>5 DEF create_fails, base_timer_start_fails, close_fd
  <2>. QED  BY <2>1, <2>2, <1>1, <1>2, <1>3, QuietGoto, IdleFrame
<1>6. CASE base_timer_create(u)
  <2>1. PICK f \in FDs, ep \in eps, once \in BOOLEAN :
           /\ Open(f, "timer")
           /\ Goto(u, "start", [Idle EXCEPT !.op = "ADD", !.epfd = ep,
                                            !.fd = f, !.once = once])
    BY <1>6 DEF base_timer_create
  <2>2. fdtab' \in [FDs -> {"free", "epoll", "timer"}] /\ interest' \subseteq interest
    BY <2>1, <1>1, KernelSteps
  <2> DEFINE new == [Idle EXCEPT !.op = "ADD", !.epfd = ep, !.fd = f, !.once = once]
  <2>3. /\ new \in Frame /\ new.op = "ADD" /\ new.epfd = ep /\ new.fd = f
        /\ new.node = {} /\ new.evt = NoOne
    <3>1. ep \in FDs
      BY <1>3
    <3>. QED  BY <3>1 DEF Idle, Frame
  <2>4. /\ Goto(u, "start", new) /\ pc[u] = "idle"
        /\ UNCHANGED <<registry, blk, held, loop>>
    BY <1>6, <2>1 DEF base_timer_create
  <2> HIDE DEF new
  <2>. QED  BY <2>1, <2>2, <2>3, <2>4, <1>1, <1>2, <1>3, QuietGoto
<1>7. CASE base_timer_start(u)
  <2>1. /\ frame[u].epfd \in FDs /\ frame[u].fd \in FDs
        /\ frame[u].node = {} /\ frame[u].evt = NoOne
    BY <1>1, <1>7 DEF base_timer_start, FrameOK
  <2>2. frame[u].op # "none"
    BY <1>1, <1>7 DEF base_timer_start, FrameOK
  <2>3. /\ Goto(u, "ctl", frame[u]) /\ pc[u] = "start"
        /\ UNCHANGED <<registry, kernel, blk, held, loop>>
    BY <1>7 DEF base_timer_start
  <2>. QED  BY <2>1, <2>2, <2>3, <1>1, <1>2, <1>3, QuietGoto
<1>8. CASE user_stops(u)
  <2>1. PICK f \in tfds, ep \in eps : base_timer_stop(u, ep, f) /\ tfds' = tfds \ {f}
    BY <1>8 DEF user_stops
  <2> DEFINE new == [Idle EXCEPT !.op = "DEL", !.epfd = ep, !.fd = f]
  <2>2. /\ new \in Frame /\ new.op = "DEL" /\ new.epfd \in FDs /\ new.fd \in FDs
        /\ new.node = {} /\ new.evt = NoOne
    BY <1>3 DEF Idle, Frame
  <2>3. /\ Goto(u, "ctl", new) /\ pc[u] = "idle"
        /\ UNCHANGED <<registry, kernel, blk, eps, loop>>
    BY <1>8, <2>1 DEF user_stops, base_timer_stop
  <2> HIDE DEF new
  <2>. QED  BY <2>1, <2>2, <2>3, <1>1, <1>2, <1>3, QuietGoto
<1>9. CASE user_mods(u)
  <2>1. PICK f \in tfds, ep \in eps :
           Goto(u, "ctl", [Idle EXCEPT !.op = "MOD", !.epfd = ep, !.fd = f])
    BY <1>9 DEF user_mods
  <2> DEFINE new == [Idle EXCEPT !.op = "MOD", !.epfd = ep, !.fd = f]
  <2>2. /\ new \in Frame /\ new.op = "MOD" /\ new.epfd \in FDs /\ new.fd \in FDs
        /\ new.node = {} /\ new.evt = NoOne
    BY <1>3 DEF Idle, Frame
  <2>3. /\ Goto(u, "ctl", new) /\ pc[u] = "idle"
        /\ UNCHANGED <<registry, kernel, blk, held, loop>>
    BY <1>9, <2>1 DEF user_mods
  <2> HIDE DEF new
  <2>. QED  BY <2>2, <2>3, <1>1, <1>2, <1>3, QuietGoto
<1>10. CASE user_closes(u)
  <2>1. PICK ep \in eps : Goto(u, "close", [Idle EXCEPT !.epfd = ep]) /\ eps' = eps \ {ep}
    BY <1>10 DEF user_closes
  <2>. QED  BY <2>1, <1>1, <1>2, <1>3, <1>10, QuietGoto, EpfdFrame DEF user_closes
<1>. QED  BY <1>4, <1>5, <1>6, <1>7, <1>8, <1>9, <1>10

\* base_epoll_ctl returned to base_timer_start, base_timer_stop or the user.
LEMMA ReturnedInv ==
    ASSUME IInv, NEW t \in Threads, ctl_returned(t)
    PROVE  IInv'
<1> USE DEF registry, kernel, timers, loop
<1>1. TypeOK /\ FrameOK
  BY DEF IInv
<1>2. /\ eps \subseteq FDs /\ tfds \subseteq FDs /\ frame[t].fd \in FDs
      /\ fdtab \in [FDs -> {"free", "epoll", "timer"}]
  BY <1>1 DEF TypeOK, FrameOK, ctl_returned, HasFd
<1>3. /\ fdtab' \in [FDs -> {"free", "epoll", "timer"}] /\ interest' \subseteq interest
      /\ tfds' \subseteq FDs
  BY <1>1, <1>2, KernelSteps DEF ctl_returned
<1>4. /\ Goto(t, Caller(t), Idle) /\ pc[t] = "ret"
      /\ UNCHANGED <<registry, blk, eps, loop>>
  BY DEF ctl_returned
<1>5. Caller(t) \in PCs /\ Caller(t) \in {"dispatch", "idle"}
  BY DEF Caller, PCs
<1>. QED  BY <1>2, <1>3, <1>4, <1>5, QuietGoto, IdleFrame DEF HasEpfd, HasFd, Locked

\* epoll_thread outside base_epoll_ctl.
LEMMA LoopInv ==
    ASSUME IInv,
           \/ start_loop \/ epoll_wait \/ epoll_wait_fails \/ epoll_thread_exits
           \/ dispatch \/ timer1_callback
    PROVE  IInv'
<1> USE DEF held, loop, registry, kernel, timers
<1>1. Loop \in Threads /\ TypeOK /\ FrameOK
  BY DEF Threads, IInv
<1>2. /\ pc \in [Threads -> PCs] /\ frame \in [Threads -> Frame]
      /\ interest \subseteq FDs \X FDs \X Blks /\ blk \in [Blks -> Block]
  BY <1>1 DEF TypeOK
<1>3. \A l : l \in {"wait", "dispatch", "callback", "exit", "ended"} =>
         l \in PCs /\ l \notin Locked /\ l \notin HasFd /\ l \notin HasEpfd
  BY DEF PCs, HasEpfd, HasFd, Locked
<1>4. ASSUME NEW l \in {"wait", "dispatch", "callback", "exit", "ended"},
             pc' = [pc EXCEPT ![Loop] = l], UNCHANGED <<registry, blk, frame, held>>,
             fdtab' \in [FDs -> {"free", "epoll", "timer"}], interest' \subseteq interest,
             pc[Loop] \notin HasEpfd, loopfd' \in FDs, batch' \subseteq Blks,
             l = "callback" => cur' \in Blks
      PROVE  IInv'
  <2>1. /\ pc' \in [Threads -> PCs] /\ pc'[Loop] = l
        /\ \A u \in Threads \ {Loop} : pc'[u] = pc[u] /\ frame'[u] = frame[u]
    BY <1>1, <1>2, <1>3, <1>4
  <2>2. TypeOK'
    BY <2>1, <1>1, <1>4 DEF TypeOK
  <2>3. pc[Loop] \notin Locked /\ pc[Loop] # "free_node"
    BY <1>4 DEF HasEpfd
  <2>4. frame'[Loop].node = {} /\ frame'[Loop].evt = NoOne
    BY <1>1, <1>4, <2>3 DEF FrameOK, Locked
  <2>. QED  BY <2>1, <2>2, <2>3, <2>4, <1>1, <1>3, <1>4, QuietStep
<1>5. pc[Loop] # "off" => loopfd \in FDs
  BY <1>1 DEF TypeOK
<1>6. CASE start_loop
  BY <1>1, <1>4, <1>6 DEF start_loop, TypeOK, HasEpfd, Locked
<1>7. CASE epoll_wait
  <2>1. batch' \subseteq Blks
    BY <1>2, <1>7 DEF epoll_wait
  <2>. QED  BY <2>1, <1>1, <1>4, <1>5, <1>7 DEF epoll_wait, TypeOK, HasEpfd, Locked
<1>8. CASE epoll_wait_fails
  BY <1>1, <1>4, <1>5, <1>8 DEF epoll_wait_fails, TypeOK, HasEpfd, Locked
<1>9. CASE epoll_thread_exits
  <2>1. fdtab' \in [FDs -> {"free", "epoll", "timer"}] /\ interest' \subseteq interest
    BY <1>1, <1>9, KernelSteps DEF epoll_thread_exits
  <2>. QED  BY <2>1, <1>1, <1>4, <1>5, <1>9 DEF epoll_thread_exits, TypeOK, HasEpfd, Locked
<1>10. CASE dispatch
  <2>1. batch' \subseteq Blks /\ (batch # {} => cur' \in Blks)
    BY <1>1, <1>10 DEF dispatch, TypeOK
  <2>2. PICK l \in {"wait", "callback"} :
           pc' = [pc EXCEPT ![Loop] = l] /\ (l = "callback" => batch # {})
    BY <1>10 DEF dispatch
  <2>. QED  BY <2>1, <2>2, <1>1, <1>4, <1>5, <1>10 DEF dispatch, TypeOK, HasEpfd, Locked
<1>11. CASE timer1_callback
  <2>1. /\ blk[cur].eplfd \in FDs /\ blk[cur].fd \in FDs
    BY <1>1, <1>11 DEF timer1_callback, IInv, BlockOK, TypeOK
  <2>2. "dispatch" \in PCs /\ "ctl" \in PCs
    BY DEF PCs, HasEpfd
  <2>3. /\ pc[Loop] = "callback" /\ UNCHANGED <<registry, kernel, blk, held, loop>>
        /\ eps \subseteq FDs /\ tfds \subseteq FDs
        /\ fdtab \in [FDs -> {"free", "epoll", "timer"}]
    BY <1>1, <1>11 DEF timer1_callback, TypeOK
  <2>4. CASE Goto(Loop, "dispatch", Idle)
    BY <2>2, <2>3, <2>4, <1>1, QuietGoto, IdleFrame DEF HasEpfd, HasFd, Locked
  <2>5. CASE base_timer_stop(Loop, blk[cur].eplfd, blk[cur].fd)
    <3> DEFINE new == [Idle EXCEPT !.op = "DEL", !.epfd = blk[cur].eplfd, !.fd = blk[cur].fd]
    <3>1. /\ new \in Frame /\ new.op = "DEL" /\ new.epfd \in FDs /\ new.fd \in FDs
          /\ new.node = {} /\ new.evt = NoOne
      BY <2>1 DEF Idle, Frame
    <3>2. Goto(Loop, "ctl", new)
      BY <2>5 DEF base_timer_stop
    <3> HIDE DEF new
    <3>. QED  BY <3>1, <3>2, <2>2, <2>3, <1>1, QuietGoto DEF HasEpfd, HasFd, Locked
  <2>. QED  BY <2>4, <2>5, <1>11 DEF timer1_callback
<1>. QED  BY <1>6, <1>7, <1>8, <1>9, <1>10, <1>11

\* The kernel's clock changes nothing here, nor does a step that changes nothing.
LEMMA StutterInv ==
    ASSUME IInv, UNCHANGED <<registry, kernel, blk, threads, held, loop>>
    PROVE  IInv'
<1> USE DEF registry, kernel, threads, held, loop
<1>1. TypeOK' /\ FrameOK' /\ LockOK' /\ BlockOK'
  BY DEF IInv, TypeOK, FrameOK, LockOK, BlockOK, Found
<1>2. ListOK' /\ NodeOK'
  BY DEF IInv, ListOK, NodeOK, Owns
<1>3. EvtOK' /\ KernelOK'
  BY DEF IInv, EvtOK, KernelOK, Owns
<1>. QED  BY <1>1, <1>2, <1>3 DEF IInv

-----------------------------------------------------------------------------
(* base_epoll_create and base_epoll_close on the list.                     *)

\* While the lock is free no call is between its lock and its unlock.
LEMMA LockFree ==
    ASSUME IInv, lock = NoOne
    PROVE  \A t \in Threads : pc[t] \notin Locked
BY EpollAssumption DEF IInv, LockOK

\* A step of one thread outside the lock, from a list to another: what is
\* left to show is about the list and the tables being freed.
LEMMA ListStep ==
    ASSUME IInv, NEW t \in Threads, NEW l \in PCs, NEW f \in Frame, Goto(t, l, f),
           lock = NoOne, lock' = lock, list' \in Seq(Node),
           UNCHANGED <<kernel, blk, held, loop>> \/ UNCHANGED <<kernel, blk, tfds, loop>>,
           eps' \subseteq FDs, pc[t] # "off",
           l \notin Locked, l # "callback",
           l \in HasEpfd => f.epfd \in FDs, l \in HasFd => f.fd \in FDs,
           l \notin {"start", "ctl"}, l # "free_node" => f.node = {}, f.evt = NoOne
    PROVE  /\ TypeOK' /\ FrameOK' /\ LockOK' /\ BlockOK' /\ EvtOK' /\ KernelOK'
           /\ pc'[t] = l /\ frame'[t] = f
           /\ \A u \in Threads \ {t} : pc'[u] = pc[u] /\ frame'[u] = frame[u]
<1> USE DEF held, loop, kernel
<1>1. TypeOK /\ FrameOK /\ BlockOK /\ KernelOK
  BY DEF IInv
<1>2. pc \in [Threads -> PCs] /\ frame \in [Threads -> Frame]
  BY <1>1 DEF TypeOK
<1>3. /\ pc' \in [Threads -> PCs] /\ frame' \in [Threads -> Frame]
      /\ pc'[t] = l /\ frame'[t] = f
      /\ \A u \in Threads \ {t} : pc'[u] = pc[u] /\ frame'[u] = frame[u]
  BY <1>2 DEF Goto
<1>4. \A u \in Threads : pc'[u] \notin Locked
  BY <1>3, LockFree
<1>5. Loop \in Threads
  BY DEF Threads
<1>6. TypeOK'
  BY <1>1, <1>3, <1>5 DEF TypeOK
<1>7. \A u \in Threads : pc'[u] # "insert" /\ pc'[u] # "remove"
  BY <1>4 DEF Locked
<1>8. FrameOK'
  BY <1>1, <1>3, <1>7 DEF FrameOK
<1>9. LockOK' /\ BlockOK' /\ EvtOK'
  BY <1>1, <1>4, <1>7 DEF LockOK, BlockOK, EvtOK
<1>10. KernelOK'
  BY <1>1, <1>7 DEF KernelOK
<1>. QED  BY <1>3, <1>6, <1>8, <1>9, <1>10

\* base_epoll_create appends a node with an empty table.
LEMMA AppendInv ==
    ASSUME IInv, NEW u \in Users, create_append(u), eps' = eps \cup {frame[u].epfd},
           UNCHANGED <<tfds, loop>>
    PROVE  IInv'
<1> DEFINE n == [epoll_fd |-> frame[u].epfd, hash |-> {}]
<1>1. u \in Threads /\ TypeOK /\ FrameOK /\ ListOK /\ NodeOK
  BY DEF Threads, IInv
<1>2. /\ pc[u] = "append" /\ lock = NoOne /\ list' = Append(list, n)
      /\ Goto(u, "idle", Idle) /\ UNCHANGED <<lock, kernel, blk>>
  BY DEF create_append
<1>3. frame[u].epfd \in FDs /\ n \in Node /\ n.hash = {}
  BY <1>1, <1>2 DEF FrameOK, HasEpfd, Node
<1>4. list \in Seq(Node) /\ eps \subseteq FDs /\ "idle" \in PCs
  BY <1>1 DEF TypeOK, PCs
<1> HIDE DEF n
<1>5. /\ list' \in Seq(Node)
      /\ \A i \in DOMAIN list' : list'[i].hash # {} => i \in DOMAIN list /\ list'[i] = list[i]
  BY <1>2, <1>3, <1>4
<1>6. /\ TypeOK' /\ FrameOK' /\ LockOK' /\ BlockOK' /\ EvtOK' /\ KernelOK'
      /\ frame'[u] = Idle
      /\ \A v \in Threads \ {u} : frame'[v] = frame[v]
  BY <1>1, <1>2, <1>3, <1>4, <1>5, ListStep, IdleFrame DEF HasEpfd, HasFd, Locked
<1>7. ListOK'
  <2> SUFFICES ASSUME NEW i \in DOMAIN list', NEW d \in list'[i].hash,
                      NEW j \in DOMAIN list', NEW e \in list'[j].hash
               PROVE  /\ Owns(blk', list'[i].epoll_fd, d)
                      /\ d[2] = e[2] => i = j /\ d = e
    BY DEF ListOK, Owns
  <2>. QED  BY <1>1, <1>2, <1>5 DEF ListOK, Owns
<1>8. NodeOK'
  <2> SUFFICES ASSUME NEW v \in Threads, NEW d \in frame'[v].node
               PROVE  /\ Owns(blk', frame'[v].epfd, d)
                      /\ \A w \in Threads : \A e \in frame'[w].node :
                            d[2] = e[2] => v = w /\ d = e
                      /\ \A i \in DOMAIN list' : \A e \in list'[i].hash : d[2] # e[2]
    BY DEF NodeOK, Owns
  <2>1. \A w \in Threads : frame'[w].node # {} => frame'[w] = frame[w]
    BY <1>6, IdleFrame
  <2>2. Owns(blk', frame'[v].epfd, d)
    BY <1>1, <1>2, <2>1 DEF NodeOK, Owns
  <2>3. ASSUME NEW w \in Threads, NEW e \in frame'[w].node, d[2] = e[2]
        PROVE  v = w /\ d = e
    BY <1>1, <2>1, <2>3 DEF NodeOK
  <2>4. ASSUME NEW i \in DOMAIN list', NEW e \in list'[i].hash
        PROVE  d[2] # e[2]
    BY <1>1, <1>5, <2>1 DEF NodeOK
  <2>. QED  BY <2>2, <2>3, <2>4
<1>. QED  BY <1>6, <1>7, <1>8 DEF IInv

\* base_epoll_close takes the node out of the list, and its table with it.
LEMMA UnlinkInv ==
    ASSUME IInv, NEW u \in Users, close_unlink(u), UNCHANGED <<held, loop>>
    PROVE  IInv'
<1> DEFINE ep == frame[u].epfd
           n  == NodeOf(ep)
<1>1. u \in Threads /\ TypeOK /\ FrameOK /\ ListOK /\ NodeOK
  BY DEF Threads, IInv
<1>2. pc[u] = "close" /\ lock = NoOne /\ UNCHANGED <<lock, kernel, blk>>
  BY DEF close_unlink
<1>3. /\ ep \in FDs /\ frame[u].node = {} /\ frame[u].evt = NoOne
      /\ list \in Seq(Node) /\ eps \subseteq FDs /\ frame[u] \in Frame
  BY <1>1, <1>2 DEF FrameOK, TypeOK, HasEpfd
<1>4. CASE ~ Found(ep)
  <2>1. list' = list /\ Goto(u, "close_fd", frame[u]) /\ "close_fd" \in PCs
    BY <1>4 DEF close_unlink, PCs, HasEpfd
  <2>2. /\ TypeOK' /\ FrameOK' /\ LockOK' /\ BlockOK' /\ EvtOK' /\ KernelOK'
        /\ frame'[u] = frame[u]
        /\ \A v \in Threads \ {u} : frame'[v] = frame[v]
    BY <1>1, <1>2, <1>3, <2>1, ListStep DEF HasEpfd, HasFd, Locked, held
  <2>3. \A v \in Threads : frame'[v] = frame[v]
    BY <2>2
  <2>4. ListOK' /\ NodeOK'
    BY <1>1, <1>2, <2>1, <2>3 DEF ListOK, NodeOK, Owns
  <2>. QED  BY <2>2, <2>4 DEF IInv
<1>5. CASE Found(ep)
  <2> DEFINE new == [frame[u] EXCEPT !.node = list[n].hash]
  <2>1. list' = RemoveAt(list, n) /\ Goto(u, "free_node", new) /\ "free_node" \in PCs
    BY <1>5 DEF close_unlink, PCs, HasEpfd
  <2>2. n \in DOMAIN list /\ list[n].epoll_fd = ep
    BY <1>3, <1>5, NodeOfFound
  <2>3. list[n] \in Node
    BY <1>3, <2>2
  <2>4. /\ new \in Frame /\ new.node = list[n].hash /\ new.epfd = ep /\ new.evt = NoOne
    BY <1>3, <2>3 DEF Frame, Node
  <2> HIDE DEF new, n, ep
  <2>5. /\ list' \in Seq(Node) /\ Len(list') = Len(list) - 1
        /\ \A j \in 1 .. Len(list) - 1 : list'[j] = IF j < n THEN list[j] ELSE list[j + 1]
    BY <1>3, <2>1, <2>2, RemoveAtElements
  <2>6. \A j \in DOMAIN list' :
           \E k \in DOMAIN list \ {n} :
              k = (IF j < n THEN j ELSE j + 1) /\ list'[j] = list[k]
    BY <1>3, <2>2, <2>5
  <2>7. /\ TypeOK' /\ FrameOK' /\ LockOK' /\ BlockOK' /\ EvtOK' /\ KernelOK'
        /\ frame'[u] = new
        /\ \A v \in Threads \ {u} : frame'[v] = frame[v]
    BY <1>1, <1>2, <1>3, <2>1, <2>4, <2>5, ListStep DEF HasEpfd, HasFd, Locked, held, ep
  <2>8. ListOK'
    <3> SUFFICES ASSUME NEW i \in DOMAIN list', NEW d \in list'[i].hash,
                        NEW j \in DOMAIN list', NEW e \in list'[j].hash
                 PROVE  /\ Owns(blk', list'[i].epoll_fd, d)
                        /\ d[2] = e[2] => i = j /\ d = e
      BY DEF ListOK, Owns
    <3>1. PICK k \in DOMAIN list : k = (IF i < n THEN i ELSE i + 1) /\ list'[i] = list[k]
      BY <2>6
    <3>2. PICK m \in DOMAIN list : m = (IF j < n THEN j ELSE j + 1) /\ list'[j] = list[m]
      BY <2>6
    <3>3. i \in Int /\ j \in Int /\ n \in Int
      BY <1>3, <2>2, <2>5
    <3>4. k = m => i = j
      BY <3>1, <3>2, <3>3
    <3>5. Owns(blk', list'[i].epoll_fd, d)
      BY <3>1, <1>1, <1>2 DEF ListOK, Owns
    <3>6. d[2] = e[2] => k = m /\ d = e
      BY <3>1, <3>2, <1>1 DEF ListOK
    <3>. QED  BY <3>4, <3>5, <3>6
  <2>9. NodeOK'
    <3> SUFFICES ASSUME NEW v \in Threads, NEW d \in frame'[v].node
                 PROVE  /\ Owns(blk', frame'[v].epfd, d)
                        /\ \A w \in Threads : \A e \in frame'[w].node :
                              d[2] = e[2] => v = w /\ d = e
                        /\ \A i \in DOMAIN list' : \A e \in list'[i].hash : d[2] # e[2]
      BY DEF NodeOK, Owns
    <3>1. Owns(blk', frame'[v].epfd, d)
      <4>1. CASE v = u
        BY <4>1, <2>2, <2>4, <2>7, <1>1, <1>2 DEF ListOK, Owns
      <4>2. CASE v # u
        BY <4>2, <2>7, <1>1, <1>2 DEF NodeOK, Owns
      <4>. QED  BY <4>1, <4>2
    <3>2. ASSUME NEW w \in Threads, NEW e \in frame'[w].node, d[2] = e[2]
          PROVE  v = w /\ d = e
      <4>1. CASE v = u /\ w = u
        BY <4>1, <3>2, <2>2, <2>4, <2>7, <1>1 DEF ListOK
      <4>2. CASE v # u /\ w # u
        BY <4>2, <3>2, <2>7, <1>1 DEF NodeOK
      <4>3. CASE v = u /\ w # u
        BY <4>3, <3>2, <2>2, <2>4, <2>7, <1>1 DEF NodeOK
      <4>4. CASE v # u /\ w = u
        BY <4>4, <3>2, <2>2, <2>4, <2>7, <1>1 DEF NodeOK
      <4>. QED  BY <4>1, <4>2, <4>3, <4>4
    <3>3. ASSUME NEW i \in DOMAIN list', NEW e \in list'[i].hash
          PROVE  d[2] # e[2]
      <4>1. PICK k \in DOMAIN list \ {n} : list'[i] = list[k]
        BY <2>6
      <4>2. CASE v = u
        BY <4>1, <4>2, <2>2, <2>4, <2>7, <1>1 DEF ListOK
      <4>3. CASE v # u
        BY <4>1, <4>3, <2>7, <1>1 DEF NodeOK
      <4>. QED  BY <4>2, <4>3
    <3>. QED  BY <3>1, <3>2, <3>3
  <2>. QED  BY <2>7, <2>8, <2>9 DEF IInv
<1>. QED  BY <1>4, <1>5

\* base_epoll_free_event_block marks the blocks and leaves what they hold.
LEMMA FreedBlocks ==
    ASSUME blk \in [Blks -> Block], NEW S, blk' = free_event_block(S)
    PROVE  /\ blk' \in [Blks -> Block]
           /\ \A b \in Blks :
                 /\ blk'[b].eplfd = blk[b].eplfd /\ blk'[b].fd = blk[b].fd
                 /\ blk'[b].once = blk[b].once
                 /\ blk'[b].st = IF b \in S THEN "freed" ELSE blk[b].st
<1>1. \A b \in Blks :
         blk'[b] = IF b \in S THEN [blk[b] EXCEPT !.st = "freed"] ELSE blk[b]
  BY DEF free_event_block
<1>2. ASSUME NEW b \in Blks
      PROVE  /\ blk'[b] \in Block
             /\ blk'[b].eplfd = blk[b].eplfd /\ blk'[b].fd = blk[b].fd
             /\ blk'[b].once = blk[b].once
             /\ blk'[b].st = IF b \in S THEN "freed" ELSE blk[b].st
  <2>1. blk[b] \in Block
    OBVIOUS
  <2>. QED  BY <2>1, <1>1 DEF Block
<1>. QED  BY <1>2 DEF free_event_block

\* The blocks that tables own are blocks.
LEMMA EntryBlocks ==
    ASSUME TypeOK
    PROVE  /\ \A i \in DOMAIN list : \A e \in list[i].hash : e \in Entry /\ e[2] \in Blks
           /\ \A t \in Threads : \A e \in frame[t].node : e \in Entry /\ e[2] \in Blks
<1>1. \A i \in DOMAIN list : list[i] \in Node
  BY DEF TypeOK
<1>2. \A t \in Threads : frame[t] \in Frame
  BY DEF TypeOK
<1>. QED  BY <1>1, <1>2 DEF Node, Frame, Entry

\* After its unlock base_epoll_close frees the blocks of the table it took.
LEMMA FreeNodeInv ==
    ASSUME IInv, NEW u \in Users, close_free(u), UNCHANGED <<held, loop>>
    PROVE  IInv'
<1> DEFINE S == {e[2] : e \in frame[u].node}
           new == [frame[u] EXCEPT !.node = {}]
<1>1. u \in Threads /\ TypeOK /\ FrameOK /\ LockOK /\ BlockOK /\ ListOK /\ NodeOK /\ EvtOK /\ KernelOK
  BY DEF Threads, IInv
<1>2. /\ pc[u] = "free_node" /\ blk' = free_event_block(S) /\ Goto(u, "close_fd", new)
      /\ UNCHANGED <<list, lock, fdtab, interest>>
  BY DEF close_free, registry, kernel
<1>3. /\ blk \in [Blks -> Block] /\ pc \in [Threads -> PCs] /\ frame \in [Threads -> Frame]
      /\ frame[u].epfd \in FDs /\ frame[u].evt = NoOne /\ "close_fd" \in PCs
  BY <1>1, <1>2 DEF TypeOK, FrameOK, HasEpfd, PCs
<1>4. new \in Frame /\ new.node = {} /\ new.epfd = frame[u].epfd /\ new.evt = NoOne
  BY <1>1, <1>3 DEF Frame
<1> HIDE DEF S, new
<1>5. /\ blk' \in [Blks -> Block]
      /\ \A b \in Blks : /\ blk'[b].eplfd = blk[b].eplfd /\ blk'[b].fd = blk[b].fd
                         /\ blk'[b].st = IF b \in S THEN "freed" ELSE blk[b].st
  BY <1>2, <1>3, FreedBlocks
<1>6. /\ pc' \in [Threads -> PCs] /\ frame' \in [Threads -> Frame]
      /\ pc'[u] = "close_fd" /\ frame'[u] = new
      /\ \A v \in Threads \ {u} : pc'[v] = pc[v] /\ frame'[v] = frame[v]
  BY <1>1, <1>2, <1>3, <1>4 DEF Goto
<1>7. u # Loop
  BY EpollAssumption
<1>8. TypeOK'
  BY <1>1, <1>2, <1>5, <1>6, <1>7 DEF TypeOK, held, loop, Threads
<1>9. FrameOK'
  BY <1>1, <1>3, <1>4, <1>6 DEF FrameOK, HasFd, Locked
<1>10. LockOK' /\ BlockOK'
  <2>1. \A v \in Threads : pc'[v] \in Locked => v # u
    BY <1>6 DEF Locked
  <2>2. \A ep : Found(ep)' <=> Found(ep)
    BY <1>2 DEF Found
  <2>3. LockOK'
    BY <2>1, <2>2, <1>1, <1>2, <1>6 DEF LockOK
  <2>4. \A b \in S : blk[b].st = "live"
    BY <1>1 DEF NodeOK, Owns, S
  <2>5. BlockOK'
    BY <2>4, <1>1, <1>5 DEF BlockOK
  <2>. QED  BY <2>3, <2>5
<1>11. ListOK'
  <2>1. \A i \in DOMAIN list : \A d \in list[i].hash : d[2] \in Blks /\ d[2] \notin S
    BY <1>1, EntryBlocks DEF NodeOK, S
  <2>. QED  BY <2>1, <1>1, <1>2, <1>5 DEF ListOK, Owns
<1>12. NodeOK'
  <2>1. ASSUME NEW v \in Threads, NEW d \in frame'[v].node
        PROVE  v # u /\ frame'[v] = frame[v] /\ d[2] \in Blks /\ d[2] \notin S
    <3>1. v # u /\ frame'[v] = frame[v]
      BY <1>4, <1>6
    <3>. QED  BY <3>1, <1>1, EntryBlocks DEF NodeOK, S
  <2>2. ASSUME NEW v \in Threads, NEW d \in frame'[v].node
        PROVE  /\ Owns(blk', frame'[v].epfd, d)
               /\ \A i \in DOMAIN list : \A e \in list[i].hash : d[2] # e[2]
    BY <2>1, <1>1, <1>5 DEF NodeOK, Owns
  <2>3. ASSUME NEW v \in Threads, NEW d \in frame'[v].node,
               NEW w \in Threads, NEW e \in frame'[w].node, d[2] = e[2]
        PROVE  v = w /\ d = e
    BY <2>1, <2>3, <1>1 DEF NodeOK
  <2>. QED  BY <2>2, <2>3, <1>2 DEF NodeOK, Owns
<1>13. EvtOK'
  <2> SUFFICES ASSUME NEW v \in Threads, pc'[v] = "insert"
               PROVE  /\ Owns(blk', frame'[v].epfd, <<frame'[v].fd, frame'[v].evt>>)
                      /\ \A i \in DOMAIN list : \A e \in list[i].hash : e[2] # frame'[v].evt
                      /\ \A w \in Threads : \A e \in frame'[w].node : e[2] # frame'[v].evt
    BY <1>2 DEF EvtOK, Owns
  <2>1. v # u /\ pc[v] = "insert" /\ frame'[v] = frame[v] /\ frame[v].evt \in Blks
    BY <1>1, <1>6 DEF FrameOK
  <2>2. frame[v].evt \notin S
    BY <2>1, <1>1 DEF EvtOK, S
  <2>3. Owns(blk', frame'[v].epfd, <<frame'[v].fd, frame'[v].evt>>)
    BY <2>1, <2>2, <1>1, <1>5 DEF EvtOK, Owns
  <2>4. \A w \in Threads : \A e \in frame'[w].node : e \in frame[w].node
    BY <1>4, <1>6
  <2>. QED  BY <2>1, <2>3, <2>4, <1>1 DEF EvtOK
<1>14. KernelOK'
  <2>1. \A i \in interest : i[3] \in Blks
    BY <1>1 DEF TypeOK
  <2>2. \A v \in Threads : pc'[v] \in {"insert", "remove"} =>
           pc'[v] = pc[v] /\ frame'[v] = frame[v]
    BY <1>6
  <2>. QED  BY <2>1, <2>2, <1>1, <1>2, <1>5 DEF KernelOK
<1>. QED  BY <1>8, <1>9, <1>10, <1>11, <1>12, <1>13, <1>14 DEF IInv

-----------------------------------------------------------------------------
(* base_epoll_ctl.                                                         *)

\* The thread that holds the lock is the only one inside it.
LEMMA OneInside ==
    ASSUME IInv, NEW t \in Threads, pc[t] \in Locked, NEW u \in Threads, u # t
    PROVE  pc[u] \notin Locked
BY DEF IInv, LockOK

\* The lock is taken once the node was found, else the call returns.
LEMMA LockInv ==
    ASSUME IInv, NEW t \in Threads, ctl_lock(t), UNCHANGED <<held, loop>>
    PROVE  IInv'
<1>1. TypeOK /\ FrameOK /\ LockOK /\ BlockOK /\ ListOK /\ NodeOK /\ EvtOK /\ KernelOK
  BY DEF IInv
<1>2. /\ pc[t] = "ctl" /\ lock = NoOne
      /\ UNCHANGED <<list, fdtab, interest, blk, eps, tfds, loopfd, batch, cur>>
  BY DEF ctl_lock, kernel, held, loop
<1>3. /\ frame[t] \in Frame /\ frame[t].epfd \in FDs /\ frame[t].fd \in FDs
      /\ frame[t].op \in {"ADD", "MOD", "DEL"}
      /\ frame[t].node = {} /\ frame[t].evt = NoOne
      /\ pc \in [Threads -> PCs] /\ frame \in [Threads -> Frame]
  BY <1>1, <1>2 DEF TypeOK, FrameOK, HasEpfd, HasFd, Frame
<1>4. CASE ~ Found(frame[t].epfd)
  <2> DEFINE new == [frame[t] EXCEPT !.ret = 0]
  <2>1. Goto(t, "ret", new) /\ lock' = lock /\ "ret" \in PCs
    BY <1>4 DEF ctl_lock, PCs, HasEpfd
  <2>2. /\ new \in Frame /\ new.epfd \in FDs /\ new.fd \in FDs
        /\ new.node = {} /\ new.evt = NoOne
    BY <1>3 DEF Frame
  <2>3. /\ fdtab' \in [FDs -> {"free", "epoll", "timer"}]
        /\ eps' \subseteq FDs /\ tfds' \subseteq FDs
    BY <1>1, <1>2 DEF TypeOK
  <2> HIDE DEF new
  <2>. QED  BY <2>1, <2>2, <2>3, <1>2, QuietGoto DEF Locked
<1>5. CASE Found(frame[t].epfd)
  <2>1. Goto(t, frame[t].op, frame[t]) /\ lock' = t
    BY <1>5 DEF ctl_lock
  <2>2. /\ pc' \in [Threads -> PCs] /\ frame' = frame
        /\ pc'[t] \in {"ADD", "MOD", "DEL"}
        /\ \A u \in Threads \ {t} : pc'[u] = pc[u]
    BY <2>1, <1>3 DEF Goto, PCs, HasEpfd, Locked
  <2>3. Loop \in Threads
    BY DEF Threads
  <2>4. TypeOK'
    BY <2>1, <2>2, <2>3, <1>1, <1>2 DEF TypeOK
  <2>5. FrameOK'
    BY <2>2, <1>1, <1>2, <1>3 DEF FrameOK
  <2>6. LockOK'
    <3>1. \A u \in Threads : pc'[u] \in Locked => u = t
      BY <2>2, <1>2, LockFree
    <3>2. Found(frame[t].epfd)'
      BY <2>2, <1>2, <1>5 DEF Found
    <3>. QED  BY <3>1, <3>2, <2>1 DEF LockOK
  <2>7. BlockOK' /\ ListOK' /\ NodeOK'
    BY <2>2, <1>1, <1>2 DEF BlockOK, ListOK, NodeOK, Owns
  <2>8. EvtOK' /\ KernelOK'
    BY <2>2, <1>1, <1>2 DEF EvtOK, KernelOK, Owns
  <2>. QED  BY <2>4, <2>5, <2>6, <2>7, <2>8 DEF IInv
<1>. QED  BY <1>4, <1>5

\* A step of the thread inside the lock that leaves the tables alone.  What is
\* left to show is about the new block and the kernel.
LEMMA InsideStep ==
    ASSUME IInv, NEW t \in Threads, pc[t] \in Locked, NEW l \in PCs, NEW f \in Frame,
           Goto(t, l, f), list' = list, fdtab' = fdtab,
           lock' = IF l \in Locked THEN lock ELSE NoOne,
           interest' \subseteq FDs \X FDs \X Blks, blk' \in [Blks -> Block],
           UNCHANGED <<held, loop>>,
           l \in Locked \cup {"ret"}, f.epfd = frame[t].epfd, f.fd = frame[t].fd,
           f.node = {}, IF l = "insert" THEN f.evt \in Blks ELSE f.evt = NoOne,
           \A b \in Blks : blk[b].st = "live" => blk'[b] = blk[b]
    PROVE  /\ TypeOK' /\ FrameOK' /\ LockOK' /\ ListOK' /\ NodeOK'
           /\ pc'[t] = l /\ frame'[t] = f
           /\ \A u \in Threads \ {t} : /\ pc'[u] = pc[u] /\ frame'[u] = frame[u]
                                       /\ pc[u] \notin Locked
<1> USE DEF held, loop
<1>1. TypeOK /\ FrameOK /\ LockOK /\ ListOK /\ NodeOK
  BY DEF IInv
<1>2. pc \in [Threads -> PCs] /\ frame \in [Threads -> Frame]
  BY <1>1 DEF TypeOK
<1>3. /\ pc' \in [Threads -> PCs] /\ frame' \in [Threads -> Frame]
      /\ pc'[t] = l /\ frame'[t] = f
      /\ \A u \in Threads \ {t} : pc'[u] = pc[u] /\ frame'[u] = frame[u]
  BY <1>2 DEF Goto
<1>4. \A u \in Threads \ {t} : pc[u] \notin Locked
  BY OneInside
<1>5. /\ lock = t /\ Found(frame[t].epfd) /\ frame[t].epfd \in FDs /\ frame[t].fd \in FDs
      /\ frame[t].node = {}
  BY <1>1 DEF LockOK, FrameOK, HasEpfd, HasFd, Locked
<1>6. Loop \in Threads /\ pc[t] # "off" /\ l # "callback" /\ l # "free_node"
      /\ l \notin {"start", "ctl"}
  BY DEF Threads, Locked
<1>7. TypeOK'
  BY <1>1, <1>3, <1>5, <1>6 DEF TypeOK
<1>8. FrameOK'
  BY <1>1, <1>3, <1>5, <1>6 DEF FrameOK
<1>9. LockOK'
  <2>1. \A ep : Found(ep)' <=> Found(ep)
    BY DEF Found
  <2>. QED  BY <2>1, <1>3, <1>4, <1>5 DEF LockOK
<1>10. ListOK'
  <2>1. \A i \in DOMAIN list : \A d \in list[i].hash : d[2] \in Blks
    BY <1>1, EntryBlocks
  <2>. QED  BY <2>1, <1>1 DEF ListOK, Owns
<1>11. NodeOK'
  <2>1. \A u \in Threads : frame'[u].node = frame[u].node /\ frame'[u].epfd = frame[u].epfd
    BY <1>3, <1>5
  <2>2. \A u \in Threads : \A d \in frame[u].node : d[2] \in Blks
    BY <1>1, EntryBlocks
  <2>. QED  BY <2>1, <2>2, <1>1 DEF NodeOK, Owns
<1>. QED  BY <1>3, <1>4, <1>7, <1>8, <1>9, <1>10, <1>11

\* EPOLL_CTL_ADD and EPOLL_CTL_MOD give the kernel a new block, or fail.
LEMMA GivesInv ==
    ASSUME IInv, NEW t \in Threads, epoll_ctl_gives(t), UNCHANGED <<held, loop>>
    PROVE  IInv'
<1> DEFINE f == frame[t]
           R == Registered(f.epfd, f.fd)
<1>1. TypeOK /\ FrameOK /\ LockOK /\ BlockOK /\ ListOK /\ NodeOK /\ EvtOK /\ KernelOK
  BY DEF IInv
<1>2. /\ pc[t] \in {"ADD", "new_block"} /\ pc[t] \in Locked
      /\ list' = list /\ fdtab' = fdtab
  BY DEF epoll_ctl_gives, Locked
<1>3. /\ f \in Frame /\ f.epfd \in FDs /\ f.fd \in FDs /\ f.node = {} /\ f.evt = NoOne
      /\ blk \in [Blks -> Block] /\ interest \subseteq FDs \X FDs \X Blks
  BY <1>1, <1>2 DEF TypeOK, FrameOK, HasEpfd, HasFd, Locked
<1>4. lock = t
  BY <1>1, <1>2 DEF LockOK
<1>5. CASE ctl_fails(t) /\ UNCHANGED interest
  <2> DEFINE new == [f EXCEPT !.ret = -1, !.evt = NoOne]
  <2>1. lock' = NoOne /\ blk' = blk /\ Goto(t, "ret", new) /\ "ret" \in PCs /\ "ret" \notin Locked
    BY <1>5 DEF ctl_fails, ctl_exit, PCs, HasEpfd, Locked
  <2>2. /\ new \in Frame /\ new.epfd = f.epfd /\ new.fd = f.fd
        /\ new.node = {} /\ new.evt = NoOne
    BY <1>3 DEF Frame
  <2> HIDE DEF new
  <2>3. /\ TypeOK' /\ FrameOK' /\ LockOK' /\ ListOK' /\ NodeOK'
        /\ pc'[t] = "ret" /\ frame'[t] = new
        /\ \A u \in Threads \ {t} : /\ pc'[u] = pc[u] /\ frame'[u] = frame[u]
                                    /\ pc[u] \notin Locked
    BY <2>1, <2>2, <1>2, <1>3, <1>5, InsideStep
  <2>4. \A u \in Threads : pc'[u] # "insert" /\ pc'[u] # "remove"
    BY <2>3 DEF Locked
  <2>5. BlockOK' /\ EvtOK' /\ KernelOK'
    BY <2>1, <2>4, <1>1, <1>5 DEF BlockOK, EvtOK, KernelOK
  <2>. QED  BY <2>3, <2>5 DEF IInv
<1>6. CASE ~ (ctl_fails(t) /\ UNCHANGED interest)
  <2> DEFINE b == malloc
             new == [f EXCEPT !.evt = b]
  <2>1. /\ Unused # {} /\ blk' = [blk EXCEPT ![b] = Allocate(f)]
        /\ interest' = (interest \ R) \cup {<<f.epfd, f.fd, b>>}
        /\ Goto(t, "insert", new) /\ lock' = lock /\ "insert" \in PCs /\ "insert" \in Locked
    BY <1>6 DEF epoll_ctl_gives, PCs, HasEpfd, Locked
  <2>2. b \in Blks /\ blk[b].st = "unused"
    BY <2>1 DEF malloc, Unused
  <2> HIDE DEF b
  <2>3. /\ new \in Frame /\ new.epfd = f.epfd /\ new.fd = f.fd
        /\ new.node = {} /\ new.evt = b
    BY <2>2, <1>3 DEF Frame
  <2>4. /\ Allocate(f) \in Block /\ Allocate(f).st = "live"
        /\ Allocate(f).eplfd = f.epfd /\ Allocate(f).fd = f.fd
    BY <1>3 DEF Allocate, Block, Frame
  <2> HIDE DEF new
  <2>5. /\ blk' \in [Blks -> Block] /\ blk'[b] = Allocate(f)
        /\ \A c \in Blks : c # b => blk'[c] = blk[c]
    BY <2>1, <2>2, <2>4, <1>3
  <2>6. interest' \subseteq FDs \X FDs \X Blks
    BY <2>1, <2>2, <1>3
  <2>7. /\ TypeOK' /\ FrameOK' /\ LockOK' /\ ListOK' /\ NodeOK'
        /\ pc'[t] = "insert" /\ frame'[t] = new
        /\ \A u \in Threads \ {t} : /\ pc'[u] = pc[u] /\ frame'[u] = frame[u]
                                    /\ pc[u] \notin Locked
    BY <2>1, <2>2, <2>3, <2>5, <2>6, <1>2, <1>3, InsideStep
  <2>8. BlockOK'
    BY <2>4, <2>5, <1>1, <1>3 DEF BlockOK
  <2>9. EvtOK'
    <3> SUFFICES /\ Owns(blk', new.epfd, <<new.fd, new.evt>>)
                 /\ \A i \in DOMAIN list : \A e \in list[i].hash : e[2] # new.evt
                 /\ \A w \in Threads : \A e \in frame'[w].node : e[2] # new.evt
      <4>1. \A u \in Threads : pc'[u] = "insert" => u = t
        BY <2>7 DEF Locked
      <4>. QED  BY <4>1, <2>7, <1>2 DEF EvtOK
    <3>1. Owns(blk', new.epfd, <<new.fd, new.evt>>)
      BY <2>3, <2>4, <2>5 DEF Owns
    <3>2. \A i \in DOMAIN list : \A e \in list[i].hash : e[2] # new.evt
      BY <2>2, <2>3, <1>1 DEF ListOK, Owns
    <3>3. \A w \in Threads : frame'[w].node = frame[w].node
      BY <2>3, <2>7, <1>3
    <3>4. \A w \in Threads : \A e \in frame'[w].node : e[2] # new.evt
      BY <3>3, <2>2, <2>3, <1>1 DEF NodeOK, Owns
    <3>. QED  BY <3>1, <3>2, <3>4
  <2>10. KernelOK'
    <3>1. \A i \in interest : i[3] \in Blks /\ i[3] # b
      BY <2>2, <1>1, <1>3 DEF KernelOK
    <3>2. \A i \in interest' :
             \/ i = <<f.epfd, f.fd, b>>
             \/ i \in interest /\ ~ (i[1] = f.epfd /\ i[2] = f.fd)
      BY <2>1 DEF Registered
    <3>3. \A i \in interest' :
             blk'[i[3]].st # "unused" /\ blk'[i[3]].eplfd = i[1] /\ blk'[i[3]].fd = i[2]
      BY <3>1, <3>2, <2>4, <2>5, <1>1 DEF KernelOK
    <3>4. \A i, j \in interest' : i[1] = j[1] /\ i[2] = j[2] => i[3] = j[3]
      BY <3>2, <1>1 DEF KernelOK
    <3>5. \A u \in Threads : pc'[u] \in {"insert", "remove"} => u = t
      BY <2>7 DEF Locked
    <3>6. \A i \in interest' : i[1] = f.epfd /\ i[2] = f.fd => i[3] = b
      BY <3>2
    <3>. QED  BY <3>3, <3>4, <3>5, <3>6, <2>3, <2>7 DEF KernelOK
  <2>. QED  BY <2>7, <2>8, <2>9, <2>10 DEF IInv
<1>. QED  BY <1>5, <1>6

\* EPOLL_CTL_DEL takes the descriptor from the kernel.
LEMMA DelInv ==
    ASSUME IInv, NEW t \in Threads, epoll_ctl_del(t), UNCHANGED <<held, loop>>
    PROVE  IInv'
<1> DEFINE f == frame[t]
           R == Registered(f.epfd, f.fd)
           new == [f EXCEPT !.ret = IF R = {} THEN -1 ELSE 0]
<1>1. TypeOK /\ FrameOK /\ LockOK /\ BlockOK /\ ListOK /\ NodeOK /\ EvtOK /\ KernelOK
  BY DEF IInv
<1>2. /\ pc[t] = "DEL" /\ pc[t] \in Locked /\ "remove" \in Locked /\ "remove" \in PCs
      /\ UNCHANGED <<list, lock, fdtab, blk>>
      /\ interest' = interest \ R /\ Goto(t, "remove", new)
  BY DEF epoll_ctl_del, Locked, PCs, HasEpfd, registry
<1>3. /\ f \in Frame /\ f.epfd \in FDs /\ f.fd \in FDs /\ f.node = {} /\ f.evt = NoOne
      /\ blk \in [Blks -> Block] /\ interest \subseteq FDs \X FDs \X Blks
  BY <1>1, <1>2 DEF TypeOK, FrameOK, HasEpfd, HasFd, Locked
<1>4. /\ new \in Frame /\ new.epfd = f.epfd /\ new.fd = f.fd
      /\ new.node = {} /\ new.evt = NoOne
  BY <1>3 DEF Frame
<1> HIDE DEF new
<1>5. /\ TypeOK' /\ FrameOK' /\ LockOK' /\ ListOK' /\ NodeOK'
      /\ pc'[t] = "remove" /\ frame'[t] = new
      /\ \A u \in Threads \ {t} : /\ pc'[u] = pc[u] /\ frame'[u] = frame[u]
                                  /\ pc[u] \notin Locked
  BY <1>2, <1>3, <1>4, InsideStep
<1>6. \A u \in Threads : pc'[u] # "insert" /\ (pc'[u] = "remove" => u = t)
  BY <1>5 DEF Locked
<1>7. BlockOK' /\ EvtOK'
  BY <1>1, <1>2, <1>6 DEF BlockOK, EvtOK
<1>8. KernelOK'
  <2>1. \A i \in interest' : i \in interest /\ ~ (i[1] = f.epfd /\ i[2] = f.fd)
    BY <1>2 DEF Registered
  <2>. QED  BY <2>1, <1>1, <1>2, <1>4, <1>5, <1>6 DEF KernelOK
<1>. QED  BY <1>5, <1>7, <1>8 DEF IInv

\* The thread inside the lock takes the entries gone out of the table of the
\* node n of its instance, frees their blocks, links the entries in more, and
\* goes on at l with the locals f.
TableChange(t, n, gone, more, l, f) ==
    /\ pc[t] \in Locked
    /\ n \in DOMAIN list /\ list[n].epoll_fd = frame[t].epfd
    /\ gone \subseteq list[n].hash
    /\ more \subseteq {<<frame[t].fd, frame[t].evt>>} /\ (more # {} => pc[t] = "insert")
    /\ list' \in Seq(Node) /\ DOMAIN list' = DOMAIN list
    /\ \A i \in DOMAIN list :
          /\ list'[i].epoll_fd = list[i].epoll_fd
          /\ list'[i].hash = IF i = n THEN (list[n].hash \ gone) \cup more ELSE list[i].hash
    /\ blk' \in [Blks -> Block]
    /\ \A b \in Blks :
          /\ blk'[b].eplfd = blk[b].eplfd /\ blk'[b].fd = blk[b].fd
          /\ blk'[b].st = IF \E e \in gone : b = e[2] THEN "freed" ELSE blk[b].st
    /\ l \in {"new_block", "ret"} /\ f \in Frame /\ Goto(t, l, f)
    /\ lock' = IF l = "ret" THEN NoOne ELSE lock
    /\ UNCHANGED <<fdtab, interest, held, loop>>
    /\ f.epfd = frame[t].epfd /\ f.fd = frame[t].fd /\ f.node = {} /\ f.evt = NoOne

\* Such a change leaves every block with one owner.
LEMMA TableStep ==
    ASSUME IInv, NEW t \in Threads, NEW n, NEW gone, NEW more, NEW l, NEW f,
           TableChange(t, n, gone, more, l, f)
    PROVE  IInv'
<1> USE DEF TableChange
<1> USE DEF held, loop
<1>1. TypeOK /\ FrameOK /\ LockOK /\ BlockOK /\ ListOK /\ NodeOK /\ EvtOK /\ KernelOK
  BY DEF IInv
<1>2. pc \in [Threads -> PCs] /\ frame \in [Threads -> Frame] /\ l \in PCs
  BY <1>1 DEF TypeOK, PCs, HasEpfd, Locked
<1>3. /\ pc' \in [Threads -> PCs] /\ frame' \in [Threads -> Frame]
      /\ pc'[t] = l /\ frame'[t] = f
      /\ \A u \in Threads \ {t} : pc'[u] = pc[u] /\ frame'[u] = frame[u]
  BY <1>2 DEF Goto
<1>4. \A u \in Threads \ {t} : pc[u] \notin Locked
  BY OneInside
<1>5. /\ lock = t /\ Found(frame[t].epfd) /\ frame[t].epfd \in FDs /\ frame[t].fd \in FDs
      /\ frame[t].node = {}
  BY <1>1 DEF LockOK, FrameOK, HasEpfd, HasFd, Locked
<1>6. Loop \in Threads /\ pc[t] # "off" /\ l # "callback" /\ l # "free_node" /\ l # "insert"
      /\ l # "remove" /\ l \notin {"start", "ctl"}
  BY DEF Threads, Locked
<1>7. TypeOK'
  BY <1>1, <1>3, <1>5, <1>6 DEF TypeOK
<1>8. FrameOK'
  BY <1>1, <1>3, <1>5, <1>6 DEF FrameOK
<1>9. LockOK'
  <2>1. \A ep : Found(ep) => Found(ep)'
    BY DEF Found
  <2>2. \A u \in Threads : pc'[u] \in Locked => u = t /\ l = "new_block"
    BY <1>3, <1>4 DEF Locked
  <2>. QED  BY <2>1, <2>2, <1>3, <1>5 DEF LockOK
<1>10. \A u \in Threads : pc'[u] # "insert" /\ pc'[u] # "remove"
  BY <1>3, <1>4, <1>6 DEF Locked
<1> DEFINE S == {e[2] : e \in gone}
<1>11. \A b \in S : b \in Blks /\ blk[b].st = "live"
  BY <1>1, EntryBlocks DEF ListOK, Owns
<1>12. \A i \in DOMAIN list : \A d \in list[i].hash :
          d[2] \in Blks /\ (d[2] \in S => i = n /\ d \in gone)
  BY <1>1, EntryBlocks DEF ListOK
<1>13. \A u \in Threads : \A d \in frame[u].node : d[2] \in Blks /\ d[2] \notin S
  BY <1>1, EntryBlocks DEF NodeOK
<1>14. \A e \in more : /\ e[2] \in Blks /\ e[2] \notin S /\ Owns(blk, frame[t].epfd, e)
                       /\ \A i \in DOMAIN list : \A d \in list[i].hash : d[2] # e[2]
                       /\ \A u \in Threads : \A d \in frame[u].node : d[2] # e[2]
  BY <1>1 DEF EvtOK, FrameOK, Owns
<1>15. \A b \in Blks : /\ blk'[b].eplfd = blk[b].eplfd /\ blk'[b].fd = blk[b].fd
                       /\ blk'[b].st = IF b \in S THEN "freed" ELSE blk[b].st
  OBVIOUS
<1> HIDE DEF S
<1>16. BlockOK'
  BY <1>1, <1>11, <1>15 DEF BlockOK
<1>17. \A i \in DOMAIN list' : \A d \in list'[i].hash :
          /\ i \in DOMAIN list
          /\ \/ d \in list[i].hash /\ d[2] \notin S
             \/ i = n /\ d \in more
  BY <1>12
<1>18. ListOK'
  <2> SUFFICES ASSUME NEW i \in DOMAIN list', NEW d \in list'[i].hash,
                      NEW j \in DOMAIN list', NEW e \in list'[j].hash
               PROVE  /\ Owns(blk', list'[i].epoll_fd, d)
                      /\ d[2] = e[2] => i = j /\ d = e
    BY DEF ListOK, Owns
  <2>1. i \in DOMAIN list /\ j \in DOMAIN list /\ list'[i].epoll_fd = list[i].epoll_fd
    OBVIOUS
  <2>2. Owns(blk', list'[i].epoll_fd, d)
    <3>1. CASE d \in list[i].hash /\ d[2] \notin S
      BY <3>1, <2>1, <1>1, <1>12, <1>15 DEF ListOK, Owns
    <3>2. CASE i = n /\ d \in more
      BY <3>2, <2>1, <1>14, <1>15 DEF Owns
    <3>. QED  BY <3>1, <3>2, <1>17
  <2>3. ASSUME d[2] = e[2] PROVE i = j /\ d = e
    <3>1. CASE d \in list[i].hash /\ e \in list[j].hash
      BY <3>1, <2>1, <2>3, <1>1 DEF ListOK
    <3>2. CASE i = n /\ d \in more /\ j = n /\ e \in more
      BY <3>2
    <3>3. CASE d \in list[i].hash /\ e \in more
      BY <3>3, <2>1, <2>3, <1>14
    <3>4. CASE d \in more /\ e \in list[j].hash
      BY <3>4, <2>1, <2>3, <1>14
    <3>. QED  BY <3>1, <3>2, <3>3, <3>4, <1>17
  <2>. QED  BY <2>2, <2>3
<1>19. NodeOK'
  <2> SUFFICES ASSUME NEW v \in Threads, NEW d \in frame'[v].node
               PROVE  /\ Owns(blk', frame'[v].epfd, d)
                      /\ \A w \in Threads : \A e \in frame'[w].node :
                            d[2] = e[2] => v = w /\ d = e
                      /\ \A i \in DOMAIN list' : \A e \in list'[i].hash : d[2] # e[2]
    BY DEF NodeOK, Owns
  <2>1. \A w \in Threads : frame'[w].node = frame[w].node /\ frame'[w].epfd = frame[w].epfd
    BY <1>3, <1>5
  <2>2. Owns(blk', frame'[v].epfd, d)
    BY <2>1, <1>1, <1>13, <1>15 DEF NodeOK, Owns
  <2>3. ASSUME NEW w \in Threads, NEW e \in frame'[w].node, d[2] = e[2]
        PROVE  v = w /\ d = e
    BY <2>1, <2>3, <1>1 DEF NodeOK
  <2>4. ASSUME NEW i \in DOMAIN list', NEW e \in list'[i].hash
        PROVE  d[2] # e[2]
    BY <2>1, <1>1, <1>14, <1>17 DEF NodeOK
  <2>. QED  BY <2>2, <2>3, <2>4
<1>20. EvtOK'
  BY <1>10 DEF EvtOK
<1>21. KernelOK'
  <2>1. \A i \in interest : i[3] \in Blks
    BY <1>1 DEF TypeOK
  <2>. QED  BY <2>1, <1>1, <1>10, <1>15 DEF KernelOK
<1>. QED  BY <1>7, <1>8, <1>9, <1>16, <1>18, <1>19, <1>20, <1>21 DEF IInv

\* The blocks a call frees while it has the lock are of the chain of its key.
FreesInChain(t) ==
    \A b \in Blks : blk'[b].st # blk[b].st =>
        \E e \in Chain(list[NodeOf(frame[t].epfd)].hash, frame[t].fd) : b = e[2]

\* hash_table_insert: the entry of the new block takes the place of one of its
\* chain, is linked, or is not linked for want of memory.
LEMMA InsertInv ==
    ASSUME IInv, NEW t \in Threads, hash_table_insert(t), UNCHANGED <<held, loop>>
    PROVE  IInv' /\ FreesInChain(t)
<1> DEFINE f == frame[t]
           n == NodeOf(f.epfd)
           hash == list[n].hash
           new == <<f.fd, f.evt>>
           ret == [f EXCEPT !.ret = 0, !.evt = NoOne]
<1>1. TypeOK /\ FrameOK /\ LockOK
  BY DEF IInv
<1>2. pc[t] = "insert" /\ pc[t] \in Locked /\ UNCHANGED <<fdtab, interest>>
  BY DEF hash_table_insert, Locked, kernel
<1>3. /\ f \in Frame /\ f.epfd \in FDs /\ f.fd \in FDs /\ f.node = {} /\ f.evt \in Blks
      /\ blk \in [Blks -> Block] /\ list \in Seq(Node) /\ Found(f.epfd)
  BY <1>1, <1>2 DEF TypeOK, FrameOK, LockOK, HasEpfd, HasFd, Locked
<1>4. n \in DOMAIN list /\ list[n].epoll_fd = f.epfd
  BY <1>3, NodeOfFound
<1>5. hash \subseteq Entry /\ new \in Entry
  <2>1. list[n] \in Node
    BY <1>3, <1>4
  <2>. QED  BY <2>1, <1>3 DEF Node, Entry
<1>6. /\ ret \in Frame /\ ret.epfd = f.epfd /\ ret.fd = f.fd
      /\ ret.node = {} /\ ret.evt = NoOne
  BY <1>3 DEF Frame
<1>7. CASE \E e \in Chain(hash, f.fd) :
              /\ SetHash(f.epfd, (hash \ {e}) \cup {new})
              /\ ctl_exit(t, 0, free_event_block({e[2]}))
  <2>1. PICK e \in Chain(hash, f.fd) :
           /\ SetHash(f.epfd, (hash \ {e}) \cup {new})
           /\ ctl_exit(t, 0, free_event_block({e[2]}))
    BY <1>7
  <2> DEFINE gone == {e}
             more == {new}
             S == {d[2] : d \in gone}
  <2>2. blk' = free_event_block(S) /\ lock' = NoOne /\ Goto(t, "ret", ret)
    <3>1. S = {e[2]}
      OBVIOUS
    <3>. QED  BY <3>1, <2>1 DEF ctl_exit
  <2>3. e \in hash /\ gone \in SUBSET hash /\ more \in SUBSET {new} /\ S = {e[2]}
    BY <2>1, ChainSubset
  <2>4. (hash \ gone) \cup more \in SUBSET Entry
    BY <1>5
  <2>5. SetHash(f.epfd, (hash \ gone) \cup more)
    BY <2>1
  <2> HIDE DEF ret, hash, new, n, gone, more, S
  <2>6. /\ blk' \in [Blks -> Block]
        /\ \A b \in Blks : /\ blk'[b].eplfd = blk[b].eplfd /\ blk'[b].fd = blk[b].fd
                           /\ blk'[b].st = IF b \in S THEN "freed" ELSE blk[b].st
    BY <2>2, <1>3, FreedBlocks
  <2>7. /\ list' \in Seq(Node) /\ DOMAIN list' = DOMAIN list
        /\ \A i \in DOMAIN list :
              /\ list'[i].epoll_fd = list[i].epoll_fd
              /\ list'[i].hash = IF i = n THEN (hash \ gone) \cup more ELSE list[i].hash
    BY <2>4, <2>5, <1>3, SetHashNodes DEF n
  <2>8. FreesInChain(t)
    BY <2>1, <2>3, <2>6 DEF FreesInChain, hash, n
  <2>9. \A b \in Blks : blk'[b].st = IF \E d \in gone : b = d[2] THEN "freed" ELSE blk[b].st
    BY <2>6 DEF S
  <2>10. IInv'
    <3>1. TableChange(t, n, gone, more, "ret", ret)
      BY <2>2, <2>3, <2>6, <2>7, <2>9, <1>2, <1>4, <1>6 DEF TableChange, hash, new
    <3>. QED  BY <3>1, TableStep
  <2>. QED  BY <2>8, <2>10
<1>8. CASE /\ SetHash(f.epfd, hash \cup {new}) \/ UNCHANGED list
           /\ ctl_exit(t, 0, blk)
  <2>1. /\ blk' = blk /\ lock' = NoOne /\ Goto(t, "ret", ret)
    BY <1>8 DEF ctl_exit
  <2>2. FreesInChain(t)
    BY <2>1 DEF FreesInChain
  <2> HIDE DEF ret, hash, new, n
  <2>3. \E more \in SUBSET {new} :
           /\ list' \in Seq(Node) /\ DOMAIN list' = DOMAIN list
           /\ \A i \in DOMAIN list :
                 /\ list'[i].epoll_fd = list[i].epoll_fd
                 /\ list'[i].hash = IF i = n THEN (hash \ {}) \cup more ELSE list[i].hash
    <3>1. CASE UNCHANGED list
      <4>1. \A i \in DOMAIN list :
               list'[i].hash = IF i = n THEN (hash \ {}) \cup {} ELSE list[i].hash
        BY <3>1 DEF hash
      <4>. QED  BY <3>1, <4>1, <1>3
    <3>2. CASE SetHash(f.epfd, hash \cup {new})
      <4> DEFINE h == (hash \ {}) \cup {new}
      <4>1. h \in SUBSET Entry /\ h = hash \cup {new}
        BY <1>5
      <4> HIDE DEF h
      <4>2. /\ list' \in Seq(Node) /\ DOMAIN list' = DOMAIN list
            /\ \A i \in DOMAIN list :
                  /\ list'[i].epoll_fd = list[i].epoll_fd
                  /\ list'[i].hash = IF i = n THEN h ELSE list[i].hash
        BY <3>2, <4>1, <1>3, SetHashNodes DEF n
      <4>. QED  BY <4>2 DEF h
    <3>. QED  BY <3>1, <3>2, <1>8
  <2>4. IInv'
    <3>1. PICK more \in SUBSET {new} :
             /\ list' \in Seq(Node) /\ DOMAIN list' = DOMAIN list
             /\ \A i \in DOMAIN list :
                   /\ list'[i].epoll_fd = list[i].epoll_fd
                   /\ list'[i].hash = IF i = n THEN (hash \ {}) \cup more ELSE list[i].hash
      BY <2>3
    <3>2. TableChange(t, n, {}, more, "ret", ret)
      BY <3>1, <2>1, <1>2, <1>3, <1>4, <1>6 DEF TableChange, hash, new
    <3>. QED  BY <3>2, TableStep
  <2>. QED  BY <2>2, <2>4
<1>. QED  BY <1>7, <1>8 DEF hash_table_insert

\* hash_table_remove: an entry of the chain goes, with its block, or none does.
LEMMA RemoveInv ==
    ASSUME IInv, NEW t \in Threads, hash_table_remove(t), UNCHANGED <<held, loop>>
    PROVE  IInv' /\ FreesInChain(t)
<1> DEFINE f == frame[t]
           n == NodeOf(f.epfd)
           hash == list[n].hash
<1>1. TypeOK /\ FrameOK /\ LockOK
  BY DEF IInv
<1>2. pc[t] \in {"remove", "MOD"} /\ pc[t] \in Locked /\ UNCHANGED <<fdtab, interest>>
  BY DEF hash_table_remove, Locked, kernel
<1>3. /\ f \in Frame /\ f.epfd \in FDs /\ f.fd \in FDs /\ f.node = {} /\ f.evt = NoOne
      /\ blk \in [Blks -> Block] /\ list \in Seq(Node) /\ Found(f.epfd)
  BY <1>1, <1>2 DEF TypeOK, FrameOK, LockOK, HasEpfd, HasFd, Locked
<1>4. n \in DOMAIN list /\ list[n].epoll_fd = f.epfd
  BY <1>3, NodeOfFound
<1>5. hash \subseteq Entry
  <2>1. list[n] \in Node
    BY <1>3, <1>4
  <2>. QED  BY <2>1 DEF Node
<1>6. PICK gone \in {{e} : e \in Chain(hash, f.fd)} \cup {{}} :
         LET left == IF gone = {} THEN hash ELSE Unlink(hash, CHOOSE e \in gone : TRUE)
             freed == free_event_block({e[2] : e \in gone})
         IN /\ SetHash(f.epfd, left)
            /\ IF pc[t] = "MOD"
               THEN blk' = freed /\ Goto(t, "new_block", f) /\ UNCHANGED lock
               ELSE ctl_exit(t, f.ret, freed)
  BY DEF hash_table_remove
<1>7. gone \subseteq Chain(hash, f.fd) /\ gone \in SUBSET hash
  BY <1>6, ChainSubset
<1>8. SetHash(f.epfd, hash \ gone)
  <2>1. (IF gone = {} THEN hash ELSE Unlink(hash, CHOOSE e \in gone : TRUE)) = hash \ gone
    BY <1>6 DEF Unlink
  <2>. QED  BY <1>6, <2>1
<1>9. blk' = free_event_block({e[2] : e \in gone})
  BY <1>6 DEF ctl_exit
<1>10. \E l \in {"new_block", "ret"}, new \in Frame :
          /\ Goto(t, l, new) /\ lock' = IF l = "ret" THEN NoOne ELSE lock
          /\ new.epfd = f.epfd /\ new.fd = f.fd /\ new.node = {} /\ new.evt = NoOne
  <2>1. CASE pc[t] = "MOD"
    BY <2>1, <1>3, <1>6
  <2>2. CASE pc[t] # "MOD"
    <3> DEFINE new == [f EXCEPT !.ret = f.ret, !.evt = NoOne]
    <3>1. Goto(t, "ret", new) /\ lock' = NoOne
      BY <2>2, <1>6 DEF ctl_exit
    <3>2. /\ new \in Frame /\ new.epfd = f.epfd /\ new.fd = f.fd
          /\ new.node = {} /\ new.evt = NoOne
      BY <1>3 DEF Frame
    <3> HIDE DEF new
    <3>. QED  BY <3>1, <3>2
  <2>. QED  BY <2>1, <2>2
<1> HIDE DEF hash, n
<1>11. /\ blk' \in [Blks -> Block]
       /\ \A b \in Blks :
             /\ blk'[b].eplfd = blk[b].eplfd /\ blk'[b].fd = blk[b].fd
             /\ blk'[b].st = IF b \in {e[2] : e \in gone} THEN "freed" ELSE blk[b].st
  BY <1>3, <1>9, FreedBlocks
<1>12. FreesInChain(t)
  BY <1>7, <1>11 DEF FreesInChain, hash, n
<1>13. /\ list' \in Seq(Node) /\ DOMAIN list' = DOMAIN list
       /\ \A i \in DOMAIN list :
             /\ list'[i].epoll_fd = list[i].epoll_fd
             /\ list'[i].hash = IF i = n THEN hash \ gone ELSE list[i].hash
  <2>1. hash \ gone \in SUBSET Entry
    BY <1>5
  <2>. QED  BY <2>1, <1>3, <1>8, SetHashNodes DEF n
<1>14. PICK more \in SUBSET {<<f.fd, f.evt>>} : more = {}
  OBVIOUS
<1>15. \A i \in DOMAIN list :
          list'[i].hash = IF i = n THEN (hash \ gone) \cup more ELSE list[i].hash
  BY <1>13, <1>14
<1>16. \A b \in Blks : blk'[b].st = IF \E e \in gone : b = e[2] THEN "freed" ELSE blk[b].st
  BY <1>11
<1>17. IInv'
  <2>1. PICK l \in {"new_block", "ret"}, new \in Frame :
          /\ Goto(t, l, new) /\ lock' = IF l = "ret" THEN NoOne ELSE lock
          /\ new.epfd = f.epfd /\ new.fd = f.fd /\ new.node = {} /\ new.evt = NoOne
    BY <1>10
  <2>2. TableChange(t, n, gone, more, l, new)
    BY <2>1, <1>2, <1>4, <1>7, <1>11, <1>13, <1>14, <1>15, <1>16 DEF TableChange, hash
  <2>. QED  BY <2>2, TableStep
<1>. QED  BY <1>12, <1>17

-----------------------------------------------------------------------------
(* The invariant and the ownership of blocks.                              *)

\* Every step of a call of the wrapper.
LEMMA CtlInv ==
    ASSUME IInv, NEW t \in Threads, base_epoll_ctl(t)
    PROVE  IInv'
<1>1. ctl(t) /\ UNCHANGED <<held, loop>>
  BY DEF base_epoll_ctl
<1>. QED  BY <1>1, LockInv, GivesInv, InsertInv, DelInv, RemoveInv DEF ctl

LEMMA NextInv == IInv /\ [Next]_<<vars, role>> => IInv'
<1> SUFFICES ASSUME IInv, [Next]_<<vars, role>> PROVE IInv'
  OBVIOUS
<1>1. ASSUME NEW u \in Users, user(u) PROVE IInv'
  <2>1. u \in Threads
    BY DEF Threads
  <2>2. CASE create_returns(u)
    <3>1. CASE create_append(u) /\ eps' = eps \cup {frame[u].epfd}
      BY <2>2, <3>1, AppendInv DEF create_returns
    <3>2. CASE create_fails(u) /\ UNCHANGED eps
      BY <2>2, <3>2, UserInv DEF create_returns, held
    <3>. QED  BY <2>2, <3>1, <3>2 DEF create_returns
  <2>3. CASE base_epoll_close(u)
    BY <2>3, UnlinkInv, FreeNodeInv, UserInv DEF base_epoll_close
  <2>4. CASE \/ base_epoll_create(u) \/ base_timer_create(u) \/ base_timer_start(u)
             \/ base_timer_start_fails(u) \/ user_stops(u) \/ user_mods(u) \/ user_closes(u)
    BY <2>4, UserInv
  <2>5. CASE base_epoll_ctl(u) \/ ctl_returned(u)
    BY <2>1, <2>5, CtlInv, ReturnedInv
  <2>. QED  BY <1>1, <2>2, <2>3, <2>4, <2>5 DEF user
<1>2. ASSUME epoll_thread PROVE IInv'
  <2>1. Loop \in Threads
    BY DEF Threads
  <2>. QED  BY <1>2, <2>1, LoopInv, CtlInv, ReturnedInv DEF epoll_thread
<1>3. ASSUME NEW f \in FDs, Expire(f) PROVE IInv'
  BY <1>3, StutterInv DEF Expire
<1>4. ASSUME UNCHANGED <<vars, role>> PROVE IInv'
  BY <1>4, StutterInv DEF vars
<1>. QED  BY <1>1, <1>2, <1>3, <1>4 DEF Next

\* Between any two steps every thread finds what its call left: the lock it
\* holds, the node it found, the block it will insert, the table it will free.
THEOREM SpecIInv == Spec => []IInv
<1>. QED  BY InitInv, NextInv, PTL DEF Spec

\* Every entry of a hash table of src/epoll.c, those base_epoll_close is about
\* to free included, owns a live block that no other entry has: whatever the
\* threads and the dangling keys do, no block is freed twice.
THEOREM BlocksOwnedOnce == Spec => []HashOwnsBlocks
<1>1. IInv => HashOwnsBlocks
  <2> SUFFICES ASSUME IInv PROVE HashOwnsBlocks
    OBVIOUS
  <2>1. ListOK /\ NodeOK
    BY DEF IInv
  <2>2. \A h \in Tables :
           \/ \E i \in DOMAIN list : h = list[i].hash
           \/ \E t \in Threads : h = frame[t].node
    BY DEF Tables
  <2>3. \A h \in Tables : \A e \in h : blk[e[2]].st = "live"
    BY <2>1, <2>2 DEF ListOK, NodeOK, Owns
  <2>4. ASSUME NEW h \in Tables, NEW g \in Tables, NEW d \in h, NEW e \in g, d[2] = e[2]
        PROVE  h = g /\ d = e
    <3>1. CASE \E i, j \in DOMAIN list : h = list[i].hash /\ g = list[j].hash
      BY <2>1, <2>4, <3>1 DEF ListOK
    <3>2. CASE \E t, u \in Threads : h = frame[t].node /\ g = frame[u].node
      BY <2>1, <2>4, <3>2 DEF NodeOK
    <3>3. CASE \E i \in DOMAIN list, t \in Threads :
                  \/ h = list[i].hash /\ g = frame[t].node
                  \/ g = list[i].hash /\ h = frame[t].node
      BY <2>1, <2>4, <3>3 DEF NodeOK
    <3>. QED  BY <2>2, <3>1, <3>2, <3>3
  <2>5. \A i, j \in DOMAIN list : i # j => list[i].hash \cap list[j].hash = {}
    BY <2>1 DEF ListOK
  <2>. QED  BY <2>3, <2>4, <2>5 DEF HashOwnsBlocks
<1>. QED  BY <1>1, SpecIInv, PTL

-----------------------------------------------------------------------------
(* Who takes a block from under the kernel.                                *)

\* The step of FreedInChain.
ChainStep ==
    \A i \in interest \cap interest' :
       blk'[i[3]].st # blk[i[3]].st =>
           \E t \in Threads :
              /\ frame[t].epfd = i[1]
              /\ \/ pc[t] = "free_node"
                 \/ /\ pc[t] \in {"MOD", "insert", "remove"}
                    /\ i[2] % TableSize = frame[t].fd % TableSize
                    /\ pc[t] # "MOD" => i[2] # frame[t].fd

\* base_epoll_ctl: what it gives to the kernel was not allocated before, and
\* what it frees under the lock the kernel no longer has for its descriptor.
LEMMA CtlFrees ==
    ASSUME IInv, NEW t \in Threads, base_epoll_ctl(t)
    PROVE  ChainStep
<1> SUFFICES ASSUME NEW i \in interest, i \in interest', blk'[i[3]].st # blk[i[3]].st
             PROVE  \E u \in Threads :
                       /\ frame[u].epfd = i[1]
                       /\ \/ pc[u] = "free_node"
                          \/ /\ pc[u] \in {"MOD", "insert", "remove"}
                             /\ i[2] % TableSize = frame[u].fd % TableSize
                             /\ pc[u] # "MOD" => i[2] # frame[u].fd
  BY DEF ChainStep
<1>1. TypeOK /\ FrameOK /\ LockOK /\ ListOK /\ EvtOK /\ KernelOK
  BY DEF IInv
<1>2. ctl(t) /\ UNCHANGED <<held, loop>>
  BY DEF base_epoll_ctl
<1>3. /\ i[3] \in Blks /\ blk[i[3]].st # "unused"
      /\ blk[i[3]].eplfd = i[1] /\ blk[i[3]].fd = i[2]
  BY <1>1 DEF TypeOK, KernelOK
<1>4. CASE ctl_lock(t) \/ epoll_ctl_del(t)
  BY <1>4 DEF ctl_lock, epoll_ctl_del
<1>5. CASE epoll_ctl_gives(t)
  <2>1. blk' # blk
    OBVIOUS
  <2>2. Unused # {} /\ blk' = [blk EXCEPT ![malloc] = Allocate(frame[t])]
    BY <2>1, <1>5 DEF epoll_ctl_gives, ctl_fails, ctl_exit
  <2>3. malloc \in Blks /\ blk[malloc].st = "unused"
    BY <2>2 DEF malloc, Unused
  <2>4. i[3] # malloc
    BY <2>3, <1>3
  <2>. QED  BY <2>2, <2>4, <1>1, <1>3 DEF TypeOK
<1>6. CASE hash_table_insert(t) \/ hash_table_remove(t)
  <2> DEFINE n == NodeOf(frame[t].epfd)
  <2>1. pc[t] \in {"MOD", "insert", "remove"} /\ pc[t] \in Locked
    BY <1>6 DEF hash_table_insert, hash_table_remove, Locked
  <2>2. FreesInChain(t)
    BY <1>2, <1>6, InsertInv, RemoveInv
  <2>3. PICK e \in Chain(list[n].hash, frame[t].fd) : i[3] = e[2]
    BY <2>2, <1>3 DEF FreesInChain
  <2>4. n \in DOMAIN list /\ list[n].epoll_fd = frame[t].epfd
    BY <2>1, <1>1, NodeOfFound DEF LockOK, TypeOK
  <2>5. e \in list[n].hash /\ e[1] % TableSize = frame[t].fd % TableSize
    BY <2>3 DEF Chain
  <2>6. i[1] = frame[t].epfd /\ i[2] = e[1]
    BY <2>3, <2>4, <2>5, <1>1, <1>3 DEF ListOK, Owns
  <2>7. pc[t] # "MOD" => i[2] # frame[t].fd
    <3>1. CASE pc[t] = "insert"
      <4>1. e[2] # frame[t].evt
        BY <3>1, <2>4, <2>5, <1>1 DEF EvtOK
      <4>. QED  BY <3>1, <4>1, <2>3, <2>6, <1>1 DEF KernelOK
    <3>2. CASE pc[t] = "remove"
      BY <3>2, <2>6, <1>1 DEF KernelOK
    <3>. QED  BY <3>1, <3>2, <2>1
  <2>. QED  BY <2>1, <2>5, <2>6, <2>7
<1>. QED  BY <1>2, <1>4, <1>5, <1>6 DEF ctl

\* Every step of the system.
LEMMA NextFrees == IInv /\ [Next]_<<vars, role>> => ChainStep
<1> SUFFICES ASSUME IInv, [Next]_<<vars, role>> PROVE ChainStep
  OBVIOUS
<1>1. ASSUME blk' = blk PROVE ChainStep
  BY <1>1 DEF ChainStep
<1>2. ASSUME NEW u \in Users, user(u) PROVE ChainStep
  <2>1. u \in Threads /\ TypeOK /\ KernelOK /\ NodeOK
    BY DEF Threads, IInv
  <2>2. CASE base_epoll_ctl(u)
    BY <2>1, <2>2, CtlFrees
  <2>3. CASE close_free(u)
    <3>1. /\ pc[u] = "free_node" /\ blk' = free_event_block({e[2] : e \in frame[u].node})
          /\ blk \in [Blks -> Block]
      BY <2>1, <2>3 DEF close_free, TypeOK
    <3> DEFINE S == {e[2] : e \in frame[u].node}
    <3>2. blk' = free_event_block(S)
      BY <3>1
    <3>3. \A b \in S : blk[b].eplfd = frame[u].epfd
      BY <2>1 DEF NodeOK, Owns
    <3> HIDE DEF S
    <3>4. \A b \in Blks : blk'[b].st # blk[b].st => b \in S
      BY <3>1, <3>2, FreedBlocks
    <3>5. \A i \in interest : i[3] \in Blks /\ blk[i[3]].eplfd = i[1]
      BY <2>1 DEF TypeOK, KernelOK
    <3>. QED  BY <3>1, <3>3, <3>4, <3>5, <2>1 DEF ChainStep
  <2>4. CASE base_epoll_close(u) /\ ~ close_free(u)
    BY <2>4, <1>1 DEF base_epoll_close, close_unlink, close_fd
  <2>5. CASE create_returns(u) \/ ctl_returned(u) \/ base_epoll_create(u)
    BY <2>5, <1>1 DEF create_returns, create_append, create_fails, ctl_returned,
                      base_epoll_create, epoll_create
  <2>6. CASE base_timer_create(u) \/ base_timer_start(u) \/ base_timer_start_fails(u)
    BY <2>6, <1>1 DEF base_timer_create, base_timer_start, base_timer_start_fails
  <2>7. CASE user_stops(u) \/ user_mods(u) \/ user_closes(u)
    BY <2>7, <1>1 DEF user_stops, user_mods, user_closes
  <2>. QED  BY <1>2, <2>2, <2>3, <2>4, <2>5, <2>6, <2>7 DEF user, base_epoll_close
<1>3. ASSUME epoll_thread PROVE ChainStep
  <2>1. Loop \in Threads
    BY DEF Threads
  <2>2. CASE base_epoll_ctl(Loop)
    BY <2>1, <2>2, CtlFrees
  <2>3. CASE ~ base_epoll_ctl(Loop)
    BY <1>1, <1>3, <2>3 DEF epoll_thread, start_loop, epoll_wait, epoll_wait_fails,
          epoll_thread_exits, dispatch, timer1_callback, ctl_returned
  <2>. QED  BY <2>2, <2>3
<1>4. ASSUME NEW f \in FDs, Expire(f) PROVE ChainStep
  BY <1>1, <1>4 DEF Expire
<1>5. ASSUME UNCHANGED <<vars, role>> PROVE ChainStep
  BY <1>1, <1>5 DEF vars
<1>. QED  BY <1>2, <1>3, <1>4, <1>5 DEF Next

\* A pointer the kernel holds goes stale only through a call on its own
\* instance, and then through base_epoll_close, EPOLL_CTL_MOD or a descriptor
\* of the same chain: this holds for any number of descriptors.
THEOREM BlocksFreedInChain == Spec => FreedInChain
<1>1. IInv /\ [Next]_<<vars, role>> => [ChainStep]_vars
  BY NextFrees
<1>2. [ChainStep]_vars =>
        [\A i \in interest \cap interest' :
          blk'[i[3]].st # blk[i[3]].st =>
              \E t \in Threads :
                 /\ frame[t].epfd = i[1]
                 /\ \/ pc[t] = "free_node"
                    \/ /\ pc[t] \in {"MOD", "insert", "remove"}
                       /\ i[2] % TableSize = frame[t].fd % TableSize
                       /\ pc[t] # "MOD" => i[2] # frame[t].fd]_vars
  BY DEF ChainStep
<1>. QED  BY <1>1, <1>2, SpecIInv, PTL DEF Spec, FreedInChain

\* With fewer descriptors than chains no two of them share one, and the stale
\* pointers are those of the descriptor itself: EPOLL_CTL_MOD frees the block
\* before the kernel has the new one, base_epoll_close before the close.
THEOREM BlocksFreedByOwner ==
    ASSUME NoCollision
    PROVE  Spec => FreedByOwner
<1>1. IInv /\ [Next]_<<vars, role>> =>
        [\A i \in interest \cap interest' :
          blk'[i[3]].st # blk[i[3]].st =>
              \E t \in Threads :
                 /\ frame[t].epfd = i[1]
                 /\ \/ pc[t] = "MOD" /\ frame[t].fd = i[2]
                    \/ pc[t] = "free_node"]_vars
  <2> SUFFICES ASSUME IInv, ChainStep, NEW i \in interest, i \in interest',
                      blk'[i[3]].st # blk[i[3]].st
               PROVE  \E t \in Threads :
                         /\ frame[t].epfd = i[1]
                         /\ \/ pc[t] = "MOD" /\ frame[t].fd = i[2]
                            \/ pc[t] = "free_node"
    BY NextFrees
  <2>1. PICK t \in Threads :
           /\ frame[t].epfd = i[1]
           /\ \/ pc[t] = "free_node"
              \/ /\ pc[t] \in {"MOD", "insert", "remove"}
                 /\ i[2] % TableSize = frame[t].fd % TableSize
                 /\ pc[t] # "MOD" => i[2] # frame[t].fd
    BY DEF ChainStep
  <2>2. CASE pc[t] = "free_node"
    BY <2>1, <2>2
  <2>3. CASE pc[t] # "free_node"
    <3>1. i[2] \in FDs /\ frame[t].fd \in FDs
      BY <2>1, <2>3 DEF IInv, TypeOK, FrameOK, HasFd, Locked
    <3>. QED  BY <3>1, <2>1, <2>3 DEF NoCollision
  <2>. QED  BY <2>2, <2>3
<1>. QED  BY <1>1, SpecIInv, PTL DEF Spec, FreedByOwner

-----------------------------------------------------------------------------
(* Timers that stop themselves.                                            *)

StartsInv == CallsOK /\ EpsOK /\ FdsOK /\ LiveOK /\ BatchOK

\* At the start there is nothing to dispatch.
LEMMA StartsInit == Init => StartsOK
<1> SUFFICES ASSUME Init PROVE StartsInv
  BY DEF StartsOK, StartsInv
<1>1. /\ \A t \in Threads : pc[t] \in {"off", "idle"} /\ pc[t] \notin HasFd
      /\ pc[Loop] = "off" /\ \A u \in Users : pc[u] = "idle"
      /\ eps = {} /\ interest = {} /\ batch = {}
  BY EpollAssumption DEF Init, InitEpoll, Threads, HasFd, Locked
<1>2. CallsOK /\ EpsOK
  BY <1>1 DEF CallsOK, EpsOK, Threads
<1>3. FdsOK /\ LiveOK /\ BatchOK
  BY <1>1 DEF FdsOK, LiveOK, BatchOK, HoldsFd, Holds
<1>. QED  BY <1>2, <1>3 DEF StartsInv

\* Thread t goes on at l with the locals f; of the descriptors only x may be
\* opened or closed, and it is nobody else's.
MoveOK(t, l, f, x) ==
    /\ Goto(t, l, f)
    /\ UNCHANGED <<interest, eps, loop>>
    /\ \A ep \in eps : Found(ep) => Found(ep)'
    /\ \A g \in FDs : g # x => fdtab'[g] = fdtab[g]
    /\ x \notin eps /\ \A i \in interest : i[2] # x
    /\ \A u \in Threads \ {t} :
          /\ HoldsFd(u) => frame[u].fd # x
          /\ pc[u] = "append" => frame[u].epfd # x
    /\ \A i \in interest : blk'[i[3]].st = blk[i[3]].st /\ blk'[i[3]].fd = blk[i[3]].fd
    /\ IF t = Loop
       THEN /\ pc[Loop] # "off" /\ l \in {"dispatch", "ctl", "DEL", "remove", "ret"}
            /\ l \in HasFd => \A b \in batch : blk[b].fd # f.fd
       ELSE l \in {"idle", "append", "start", "ctl", "ADD", "insert", "ret"}
    /\ l \in HasFd => f.op = (IF t = Loop THEN "DEL" ELSE "ADD") /\ f.epfd \in eps
    /\ l = "append" =>
          /\ fdtab'[f.epfd] = "epoll" /\ f.epfd \notin eps
          /\ \A v \in Users \ {t} : pc[v] = "append" => frame[v].epfd # f.epfd
    /\ Holds(t, l, f) =>
          /\ fdtab'[f.fd] = "timer"
          /\ \A u \in Threads \ {t} : HoldsFd(u) => frame[u].fd # f.fd
          /\ \A i \in interest : i[2] = f.fd =>
                t = Loop /\ l \in {"ctl", "DEL"} /\ i[1] = f.epfd

LEMMA FoundSame == list' = list => \A ep : Found(ep) => Found(ep)'
BY DEF Found

LEMMA MoveStep ==
    ASSUME IInv, StartsInv, NEW t \in Threads, NEW l, NEW f, NEW x, MoveOK(t, l, f, x)
    PROVE  StartsInv'
<1> USE DEF MoveOK, loop
<1>1. CallsOK /\ EpsOK /\ FdsOK /\ LiveOK /\ BatchOK
  BY DEF StartsInv
<1>2. /\ pc \in [Threads -> PCs] /\ frame \in [Threads -> Frame] /\ eps \subseteq FDs
      /\ interest \subseteq FDs \X FDs \X Blks /\ FrameOK
  BY DEF IInv, TypeOK
<1>3. /\ pc'[t] = l /\ frame'[t] = f
      /\ \A u \in Threads \ {t} : pc'[u] = pc[u] /\ frame'[u] = frame[u]
  BY <1>2 DEF Goto
<1>4. Loop \in Threads /\ Users \subseteq Threads /\ Loop \notin Users
  BY EpollAssumption DEF Threads
<1>5. CallsOK'
  BY <1>1, <1>3, <1>4 DEF CallsOK
<1>6. \A u \in Threads \ {t} : HoldsFd(u)' <=> HoldsFd(u)
  BY <1>3 DEF HoldsFd
<1>7. HoldsFd(t)' <=> Holds(t, l, f)
  BY <1>3 DEF HoldsFd
<1>8. EpsOK'
  <2>1. \A ep \in eps : fdtab'[ep] = "epoll" /\ Found(ep)'
    BY <1>1, <1>2 DEF EpsOK
  <2>2. pc'[Loop] # "off" => loopfd \in eps
    BY <1>1, <1>3, <1>4 DEF EpsOK
  <2>3. ASSUME NEW u \in Users, pc'[u] = "append"
        PROVE  /\ fdtab'[frame'[u].epfd] = "epoll" /\ frame'[u].epfd \notin eps
               /\ \A v \in Users : pc'[v] = "append" /\ frame'[v].epfd = frame'[u].epfd => u = v
    <3>1. CASE u = t
      BY <3>1, <2>3, <1>3, <1>4
    <3>2. CASE u # t
      <4>1. frame[u].epfd \in FDs /\ pc[u] = "append" /\ frame'[u] = frame[u]
        BY <3>2, <2>3, <1>2, <1>3, <1>4 DEF FrameOK, HasEpfd
      <4>. QED  BY <4>1, <3>2, <1>1, <1>3, <1>4 DEF EpsOK
    <3>. QED  BY <3>1, <3>2
  <2>4. \A u \in Threads : pc'[u] \in HasFd => frame'[u].epfd \in eps
    BY <1>1, <1>3 DEF EpsOK
  <2>. QED  BY <2>1, <2>2, <2>3, <2>4 DEF EpsOK
<1>9. FdsOK'
  <2> SUFFICES ASSUME NEW u \in Threads, HoldsFd(u)'
               PROVE  /\ fdtab'[frame'[u].fd] = "timer"
                      /\ \A v \in Threads :
                            HoldsFd(v)' /\ frame'[v].fd = frame'[u].fd => u = v
                      /\ \A i \in interest : i[2] = frame'[u].fd =>
                            u = Loop /\ pc'[u] \in {"ctl", "DEL"} /\ i[1] = frame'[u].epfd
    BY DEF FdsOK
  <2>1. CASE u = t
    BY <2>1, <1>3, <1>6, <1>7
  <2>2. CASE u # t
    <3>1. /\ HoldsFd(u) /\ frame'[u] = frame[u] /\ pc'[u] = pc[u] /\ frame[u].fd # x
          /\ fdtab[frame[u].fd] = "timer"
      BY <2>2, <1>1, <1>3, <1>6 DEF FdsOK
    <3>2. frame[u].fd \in FDs
      BY <3>1, <1>2 DEF FrameOK, HoldsFd, Holds, HasFd, Locked
    <3>3. ASSUME NEW v \in Threads, HoldsFd(v)', frame'[v].fd = frame'[u].fd
          PROVE  u = v
      <4>1. CASE v = t
        BY <4>1, <3>1, <3>3, <2>2, <1>3, <1>7
      <4>2. CASE v # t
        BY <4>2, <3>1, <3>3, <1>1, <1>3, <1>6 DEF FdsOK
      <4>. QED  BY <4>1, <4>2
    <3>. QED  BY <3>1, <3>2, <3>3, <1>1 DEF FdsOK
  <2>. QED  BY <2>1, <2>2
<1>10. LiveOK'
  <2>1. \A i \in interest : i[2] \in FDs
    BY <1>2
  <2>. QED  BY <2>1, <1>1 DEF LiveOK
<1>11. BatchOK'
  <2>1. \A b \in batch : <<loopfd, blk[b].fd, b>> \in interest
    BY <1>1 DEF BatchOK
  <2>2. \A b \in batch : blk'[b].fd = blk[b].fd
    <3> SUFFICES ASSUME NEW b \in batch PROVE blk'[b].fd = blk[b].fd
      OBVIOUS
    <3> DEFINE i == <<loopfd, blk[b].fd, b>>
    <3>1. i \in interest /\ i[3] = b
      BY <2>1
    <3> HIDE DEF i
    <3>. QED  BY <3>1
  <2>3. pc'[Loop] # "callback" \/ (t # Loop /\ pc'[Loop] = pc[Loop])
    BY <1>3, <1>4
  <2>4. pc'[Loop] = "callback" => blk'[cur].fd = blk[cur].fd
    <3> SUFFICES ASSUME pc'[Loop] = "callback" PROVE blk'[cur].fd = blk[cur].fd
      OBVIOUS
    <3> DEFINE i == <<loopfd, blk[cur].fd, cur>>
    <3>1. i \in interest /\ i[3] = cur
      BY <2>3, <1>1 DEF BatchOK
    <3> HIDE DEF i
    <3>. QED  BY <3>1
  <2>5. pc'[Loop] \in {"off", "wait"} => batch = {}
    BY <1>1, <1>3, <1>4 DEF BatchOK
  <2>6. ASSUME NEW b \in batch, pc'[Loop] \in HasFd
        PROVE  blk[b].fd # frame'[Loop].fd
    <3>1. CASE t = Loop
      <4>1. l \in HasFd /\ frame'[Loop] = f
        BY <3>1, <2>6, <1>3
      <4>. QED  BY <3>1, <4>1
    <3>2. CASE t # Loop
      <4>1. pc[Loop] \in HasFd /\ frame'[Loop] = frame[Loop]
        BY <3>2, <2>6, <1>3, <1>4
      <4>. QED  BY <4>1, <1>1 DEF BatchOK
    <3>. QED  BY <3>1, <3>2
  <2>. QED  BY <2>1, <2>2, <2>3, <2>4, <2>5, <2>6, <1>1 DEF BatchOK
<1>. QED  BY <1>5, <1>8, <1>9, <1>10, <1>11 DEF StartsInv

\* What a user does outside the lock.
LEMMA StartsUser ==
    ASSUME IInv, StartsInv, NEW u \in Users,
           \/ base_epoll_create(u) \/ base_timer_create(u) \/ base_timer_start(u)
           \/ base_timer_start_fails(u)
           \/ create_fails(u) /\ UNCHANGED <<eps, loop>>
    PROVE  StartsInv'
<1> USE DEF held, kernel, registry
<1>0. \A ep \in eps : Found(ep) => Found(ep)'
  BY FoundSame DEF base_epoll_create, epoll_create, base_timer_create, base_timer_start,
                  base_timer_start_fails, create_fails
<1>1. CallsOK /\ EpsOK /\ FdsOK /\ LiveOK /\ BatchOK
  BY DEF StartsInv
<1>2. /\ u \in Threads /\ u # Loop /\ FrameOK
      /\ eps \subseteq FDs /\ interest \subseteq FDs \X FDs \X Blks
      /\ fdtab \in [FDs -> {"free", "epoll", "timer"}]
  BY EpollAssumption DEF Threads, IInv, TypeOK
<1>3. \A i \in interest : i[1] \in eps /\ fdtab[i[1]] = "epoll" /\ fdtab[i[2]] = "timer"
  BY <1>1 DEF LiveOK, EpsOK
<1>4. \A v \in Threads : /\ HoldsFd(v) => fdtab[frame[v].fd] = "timer"
                         /\ pc[v] = "append" => v \in Users /\ fdtab[frame[v].epfd] = "epoll"
  BY <1>1 DEF FdsOK, EpsOK, CallsOK, Threads
<1>5. CASE base_epoll_create(u)
  <2>1. PICK f \in FDs : Open(f, "epoll") /\ Goto(u, "append", [Idle EXCEPT !.epfd = f])
    BY <1>5 DEF base_epoll_create, epoll_create
  <2> DEFINE new == [Idle EXCEPT !.epfd = f]
  <2>2. new.epfd = f
    BY EpfdFrame
  <2>3. Goto(u, "append", new)
    BY <2>1
  <2>4. /\ fdtab[f] = "free" /\ fdtab'[f] = "epoll" /\ interest' = interest
        /\ \A g \in FDs : g # f => fdtab'[g] = fdtab[g]
    BY <2>1, <1>2 DEF Open, LowestFree
  <2>5. /\ f \notin eps /\ \A i \in interest : i[2] # f
    BY <2>4, <1>1, <1>3 DEF EpsOK
  <2>6. blk' = blk /\ UNCHANGED <<eps, loop>>
    BY <1>5 DEF base_epoll_create, epoll_create
  <2> HIDE DEF new
  <2>7. MoveOK(u, "append", new, f)
    BY <2>2, <2>3, <2>4, <2>5, <2>6, <1>0, <1>2, <1>4 DEF MoveOK, Holds, HasFd, Locked, Threads
  <2>. QED  BY <2>7, <1>2, MoveStep
<1>6. CASE base_timer_create(u)
  <2>1. PICK f \in FDs, ep \in eps, once \in BOOLEAN :
           /\ Open(f, "timer")
           /\ Goto(u, "start", [Idle EXCEPT !.op = "ADD", !.epfd = ep,
                                            !.fd = f, !.once = once])
    BY <1>6 DEF base_timer_create
  <2> DEFINE new == [Idle EXCEPT !.op = "ADD", !.epfd = ep, !.fd = f, !.once = once]
  <2>2. new.op = "ADD" /\ new.epfd = ep /\ new.fd = f
    BY DEF Idle
  <2>3. Goto(u, "start", new)
    BY <2>1
  <2>4. /\ fdtab[f] = "free" /\ fdtab'[f] = "timer" /\ interest' = interest
        /\ \A g \in FDs : g # f => fdtab'[g] = fdtab[g]
    BY <2>1, <1>2 DEF Open, LowestFree
  <2>5. /\ f \notin eps /\ \A i \in interest : i[2] # f
    BY <2>4, <1>1, <1>3 DEF EpsOK
  <2>6. blk' = blk /\ UNCHANGED <<eps, loop>>
    BY <1>6 DEF base_timer_create
  <2> HIDE DEF new
  <2>7. MoveOK(u, "start", new, f)
    BY <2>1, <2>2, <2>3, <2>4, <2>5, <2>6, <1>0, <1>2, <1>4 DEF MoveOK
  <2>. QED  BY <2>7, <1>2, MoveStep
<1>7. CASE base_timer_start(u)
  <2>1. /\ pc[u] = "start" /\ Goto(u, "ctl", frame[u])
        /\ UNCHANGED <<fdtab, interest, blk, eps, loop>>
    BY <1>7 DEF base_timer_start
  <2>2. HoldsFd(u) /\ pc[u] \in HasFd
    BY <2>1, <1>2 DEF HoldsFd, Holds, HasFd
  <2>3. frame[u].op = "ADD" /\ frame[u].epfd \in eps
    BY <2>2, <1>1, <1>2 DEF CallsOK, EpsOK
  <2>4. 0 \notin eps /\ (\A i \in interest : i[2] # 0)
    BY <1>2, EpollAssumption
  <2>5. \A v \in Threads : /\ HoldsFd(v) => frame[v].fd # 0
                           /\ pc[v] = "append" => frame[v].epfd # 0
    BY <1>2, EpollAssumption DEF FrameOK, HoldsFd, Holds, HasFd, HasEpfd, Locked
  <2>6. MoveOK(u, "ctl", frame[u], 0)
    <3>1. /\ fdtab[frame[u].fd] = "timer"
          /\ \A v \in Threads \ {u} : HoldsFd(v) => frame[v].fd # frame[u].fd
          /\ \A i \in interest : i[2] # frame[u].fd
      BY <2>2, <1>1, <1>2 DEF FdsOK
    <3>. QED  BY <3>1, <2>1, <2>3, <2>4, <2>5, <1>0, <1>2 DEF MoveOK
  <2>. QED  BY <2>6, <1>2, MoveStep
<1>8. CASE base_timer_start_fails(u)
  <2> DEFINE x == frame[u].fd
  <2>1. /\ pc[u] = "start" /\ Goto(u, "idle", Idle) /\ Close(x)
        /\ UNCHANGED <<blk, eps, loop>>
    BY <1>8 DEF base_timer_start_fails
  <2>2. HoldsFd(u)
    BY <2>1, <1>2 DEF HoldsFd, Holds
  <2>3. /\ fdtab[x] = "timer" /\ \A i \in interest : i[2] # x
        /\ \A v \in Threads \ {u} : HoldsFd(v) => frame[v].fd # x
    BY <2>2, <1>1, <1>2 DEF FdsOK
  <2>4. x \notin eps /\ \A i \in interest : i[1] # x
    BY <2>3, <1>1, <1>3 DEF EpsOK
  <2>5. interest' = interest /\ \A g \in FDs : g # x => fdtab'[g] = fdtab[g]
    BY <2>1, <2>3, <2>4, <1>2 DEF Close
  <2>6. \A v \in Threads : pc[v] = "append" => frame[v].epfd # x
    BY <2>3, <1>4
  <2>7. MoveOK(u, "idle", Idle, x)
    BY <2>1, <2>3, <2>4, <2>5, <2>6, <1>0, <1>2 DEF MoveOK, Holds, HasFd, Locked
  <2>. QED  BY <2>7, <1>2, MoveStep
<1>9. CASE create_fails(u) /\ UNCHANGED <<eps, loop>>
  <2> DEFINE x == frame[u].epfd
  <2>1. /\ pc[u] = "append" /\ Goto(u, "idle", Idle) /\ Close(x)
        /\ UNCHANGED <<blk, eps, loop>>
    BY <1>9 DEF create_fails
  <2>2. /\ fdtab[x] = "epoll" /\ x \notin eps
        /\ \A v \in Threads \ {u} : pc[v] = "append" => frame[v].epfd # x
    BY <2>1, <1>1, <1>4 DEF EpsOK
  <2>3. \A i \in interest : i[1] # x /\ i[2] # x
    BY <2>2, <1>3
  <2>4. interest' = interest /\ \A g \in FDs : g # x => fdtab'[g] = fdtab[g]
    BY <2>1, <2>3, <1>2 DEF Close
  <2>5. \A v \in Threads : HoldsFd(v) => frame[v].fd # x
    BY <2>2, <1>4
  <2>6. MoveOK(u, "idle", Idle, x)
    BY <2>1, <2>2, <2>3, <2>4, <2>5, <1>0, <1>2 DEF MoveOK, Holds, HasFd, Locked
  <2>. QED  BY <2>6, <1>2, MoveStep
<1>. QED  BY <1>5, <1>6, <1>7, <1>8, <1>9

\* A call frees no block the kernel still has.
LEMMA StartsLive ==
    ASSUME NoCollision, IInv, StartsInv, NEW t \in Threads, base_epoll_ctl(t)
    PROVE  \A i \in interest : i \in interest' =>
              blk'[i[3]].st = blk[i[3]].st /\ blk'[i[3]].fd = blk[i[3]].fd
<1>1. ChainStep
  BY CtlFrees
<1>2. CallsOK /\ TypeOK /\ FrameOK /\ KernelOK /\ KernelOK'
  BY CtlInv DEF StartsInv, IInv
<1>3. \A u \in Threads : pc[u] # "free_node" /\ pc[u] # "MOD"
  BY <1>2 DEF CallsOK, Threads
<1> SUFFICES ASSUME NEW i \in interest, i \in interest'
             PROVE  blk'[i[3]].st = blk[i[3]].st /\ blk'[i[3]].fd = blk[i[3]].fd
  OBVIOUS
<1>4. ASSUME NEW u \in Threads, pc[u] \in {"insert", "remove"},
             i[2] % TableSize = frame[u].fd % TableSize
      PROVE  i[2] = frame[u].fd
  <2>1. i[2] \in FDs /\ frame[u].fd \in FDs
    BY <1>2, <1>4 DEF TypeOK, FrameOK, HasFd, Locked
  <2>. QED  BY <2>1, <1>4 DEF NoCollision
<1>5. blk'[i[3]].st = blk[i[3]].st
  BY <1>1, <1>3, <1>4 DEF ChainStep
<1>6. blk'[i[3]].fd = blk[i[3]].fd
  BY <1>2 DEF KernelOK
<1>. QED  BY <1>5, <1>6

\* base_epoll_ctl, to start a timer or to stop the one of the callback.
LEMMA StartsCtl ==
    ASSUME NoCollision, IInv, StartsInv, NEW t \in Threads, base_epoll_ctl(t)
    PROVE  StartsInv'
<1> DEFINE f == frame[t]
<1>1. CallsOK /\ EpsOK /\ FdsOK /\ LiveOK /\ BatchOK /\ TypeOK /\ FrameOK /\ LockOK /\ KernelOK
  BY DEF StartsInv, IInv
<1>2. /\ eps \subseteq FDs /\ interest \subseteq FDs \X FDs \X Blks
      /\ fdtab \in [FDs -> {"free", "epoll", "timer"}] /\ f \in Frame
      /\ pc \in [Threads -> PCs] /\ frame \in [Threads -> Frame] /\ 0 \notin FDs
  BY <1>1, EpollAssumption DEF TypeOK
<1>3. ctl(t) /\ UNCHANGED <<held, loop>> /\ UNCHANGED eps
  BY DEF base_epoll_ctl, held
<1>4. \A u \in Threads : /\ HoldsFd(u) => frame[u].fd # 0
                         /\ pc[u] = "append" => frame[u].epfd # 0
  BY <1>1, <1>2 DEF FrameOK, HoldsFd, Holds, HasFd, HasEpfd, Locked
<1>5. IF t = Loop THEN pc[t] \in {"ctl", "DEL", "remove"} ELSE pc[t] \in {"ctl", "ADD", "insert"}
  <2>1. pc[t] \in {"ctl"} \cup Locked
    BY <1>3 DEF ctl, ctl_lock, epoll_ctl_gives, hash_table_insert, epoll_ctl_del,
                hash_table_remove, Locked
  <2>. QED  BY <2>1, <1>1 DEF CallsOK, Threads, Locked
<1>6. pc[t] \in HasFd /\ f.op = (IF t = Loop THEN "DEL" ELSE "ADD") /\ f.epfd \in eps
  <2>1. pc[t] \in HasFd
    BY <1>5 DEF HasFd, Locked
  <2>. QED  BY <2>1, <1>1 DEF CallsOK, EpsOK, Threads
<1>7. HoldsFd(t) =>
         /\ fdtab[f.fd] = "timer"
         /\ \A u \in Threads \ {t} : HoldsFd(u) => frame[u].fd # f.fd
         /\ \A i \in interest : i[2] = f.fd =>
               t = Loop /\ pc[t] \in {"ctl", "DEL"} /\ i[1] = f.epfd
  BY <1>1 DEF FdsOK
<1>8. \A i \in interest : i \in interest' =>
         blk'[i[3]].st = blk[i[3]].st /\ blk'[i[3]].fd = blk[i[3]].fd
  BY StartsLive
<1>9. t = Loop => \A b \in batch : blk[b].fd # f.fd
  BY <1>1, <1>6 DEF BatchOK
\* The cases that change nothing in the kernel.
<1>10. ASSUME NEW l, NEW new, Goto(t, l, new), UNCHANGED <<fdtab, interest>>,
              \A ep \in eps : Found(ep) => Found(ep)',
              IF t = Loop THEN l \in {"DEL", "ret"} ELSE l \in {"ADD", "ret"},
              new.op = f.op, new.epfd = f.epfd, new.fd = f.fd,
              Holds(t, l, new) => HoldsFd(t) /\ (l = "ret" => pc[t] \notin {"ctl", "DEL"} \/ t # Loop)
       PROVE  StartsInv'
  <2>1. 0 \notin eps /\ \A i \in interest : i[2] # 0
    BY <1>2
  <2>2. Holds(t, l, new) =>
           /\ fdtab'[new.fd] = "timer"
           /\ \A u \in Threads \ {t} : HoldsFd(u) => frame[u].fd # new.fd
           /\ \A i \in interest : i[2] = new.fd =>
                 t = Loop /\ l \in {"ctl", "DEL"} /\ i[1] = new.epfd
    BY <1>5, <1>7, <1>10
  <2>3. t = Loop => pc[Loop] # "off"
    BY <1>5
  <2>4. MoveOK(t, l, new, 0)
    BY <2>1, <2>2, <2>3, <1>3, <1>4, <1>6, <1>8, <1>9, <1>10 DEF MoveOK
  <2>. QED  BY <2>4, MoveStep
<1>11. CASE ctl_lock(t)
  <2>1. /\ pc[t] = "ctl" /\ Found(f.epfd)
    BY <1>1, <1>6, <1>11 DEF ctl_lock, EpsOK
  <2>2. Goto(t, f.op, f) /\ UNCHANGED <<fdtab, interest>> /\ list' = list
    BY <2>1, <1>11 DEF ctl_lock, kernel
  <2>3. HoldsFd(t)
    BY <2>1 DEF HoldsFd, Holds, HasFd
  <2>. QED  BY <2>2, <2>3, <1>6, <1>10, FoundSame
<1>12. CASE hash_table_insert(t)
  <2>1. pc[t] = "insert" /\ t # Loop /\ UNCHANGED <<fdtab, interest>>
    BY <1>5, <1>12 DEF hash_table_insert, kernel
  <2> DEFINE new == [f EXCEPT !.ret = 0, !.evt = NoOne]
  <2>2. Goto(t, "ret", new)
    BY <1>12 DEF hash_table_insert, ctl_exit
  <2>3. new.op = f.op /\ new.epfd = f.epfd /\ new.fd = f.fd /\ new.ret = 0
    BY <1>2 DEF Frame
  <2>4. \A ep : Found(ep) => Found(ep)'
    <3> DEFINE h == list[NodeOf(f.epfd)].hash
    <3>1. list \in Seq(Node) /\ Found(f.epfd) /\ f.fd \in FDs /\ f.evt \in Blks
      BY <2>1, <1>1 DEF TypeOK, LockOK, FrameOK, Locked, HasFd
    <3>2. h \subseteq Entry /\ <<f.fd, f.evt>> \in Entry
      <4>1. list[NodeOf(f.epfd)] \in Node
        BY <3>1, NodeOfFound
      <4>. QED  BY <4>1, <3>1 DEF Node, Entry
    <3>3. list' = list \/ \E g \in SUBSET Entry : SetHash(f.epfd, g)
      <4>1. \A e : (h \ {e}) \cup {<<f.fd, f.evt>>} \in SUBSET Entry
        BY <3>2
      <4>2. h \cup {<<f.fd, f.evt>>} \in SUBSET Entry
        BY <3>2
      <4>. QED  BY <4>1, <4>2, <1>12 DEF hash_table_insert
    <3>. QED  BY <3>1, <3>3, FoundSame, SetHashNodes
  <2> HIDE DEF new
  <2>5. ~ Holds(t, "ret", new)
    BY <2>1, <2>3 DEF Holds
  <2>. QED  BY <2>1, <2>2, <2>3, <2>4, <2>5, <1>10
<1>13. CASE hash_table_remove(t)
  <2>1. pc[t] = "remove" /\ t = Loop /\ UNCHANGED <<fdtab, interest>>
    BY <1>5, <1>13 DEF hash_table_remove, kernel
  <2> DEFINE new == [f EXCEPT !.ret = f.ret, !.evt = NoOne]
  <2>2. Goto(t, "ret", new)
    BY <2>1, <1>13 DEF hash_table_remove, ctl_exit
  <2>3. new.op = f.op /\ new.epfd = f.epfd /\ new.fd = f.fd
    BY <1>2 DEF Frame
  <2>4. \A ep : Found(ep) => Found(ep)'
    <3> DEFINE h == list[NodeOf(f.epfd)].hash
    <3>1. list \in Seq(Node) /\ Found(f.epfd)
      BY <2>1, <1>1 DEF TypeOK, LockOK, Locked
    <3>2. h \subseteq Entry
      <4>1. list[NodeOf(f.epfd)] \in Node
        BY <3>1, NodeOfFound
      <4>. QED  BY <4>1 DEF Node
    <3>3. \E g \in SUBSET Entry : SetHash(f.epfd, g)
      <4>1. \A e : h \ {e} \in SUBSET Entry
        BY <3>2
      <4>. QED  BY <4>1, <3>2, <1>13 DEF hash_table_remove, Unlink
    <3>. QED  BY <3>1, <3>3, SetHashNodes
  <2> HIDE DEF new
  <2>5. HoldsFd(t)
    BY <2>1, <1>6 DEF HoldsFd, Holds
  <2>. QED  BY <2>1, <2>2, <2>3, <2>4, <2>5, <1>10
<1>14. CASE epoll_ctl_gives(t)
  <2>1. pc[t] = "ADD" /\ t # Loop /\ t \in Users
    BY <1>5, <1>14 DEF epoll_ctl_gives, Threads
  <2>2. HoldsFd(t)
    BY <2>1 DEF HoldsFd, Holds
  <2>3. list' = list /\ fdtab' = fdtab
    BY <1>14 DEF epoll_ctl_gives
  <2>4. CASE ctl_fails(t) /\ UNCHANGED interest
    <3> DEFINE new == [f EXCEPT !.ret = -1, !.evt = NoOne]
    <3>1. Goto(t, "ret", new)
      BY <2>4 DEF ctl_fails, ctl_exit
    <3>2. new.op = f.op /\ new.epfd = f.epfd /\ new.fd = f.fd
      BY <1>2 DEF Frame
    <3> HIDE DEF new
    <3>. QED  BY <3>1, <3>2, <2>1, <2>2, <2>3, <2>4, <1>10, FoundSame
  <2>5. CASE ~ (ctl_fails(t) /\ UNCHANGED interest)
    <3> DEFINE b == malloc
               r == <<f.epfd, f.fd, b>>
               new == [f EXCEPT !.evt = b]
    <3>1. /\ Registered(f.epfd, f.fd) = {} /\ Unused # {}
          /\ blk' = [blk EXCEPT ![b] = Allocate(f)]
          /\ interest' = (interest \ Registered(f.epfd, f.fd)) \cup {r}
          /\ Goto(t, "insert", new)
      BY <2>1, <2>5, <1>14 DEF epoll_ctl_gives
    <3>2. interest' = interest \cup {r}
      BY <3>1
    <3>3. b \in Unused
      BY <3>1 DEF malloc
    <3>4. /\ b \in Blks /\ blk[b].st = "unused" /\ blk'[b].st = "live"
          /\ \A c \in Blks : c # b => blk'[c] = blk[c]
      BY <3>1, <3>3, <1>1 DEF Unused, TypeOK, Allocate
    <3>5. new.op = f.op /\ new.epfd = f.epfd /\ new.fd = f.fd
      BY <1>2 DEF Frame
    <3>6. r[1] = f.epfd /\ r[2] = f.fd /\ r[3] = b
      OBVIOUS
    <3> HIDE DEF b, r, new
    <3>7. /\ pc'[t] = "insert" /\ frame'[t] = new
          /\ \A u \in Threads \ {t} : pc'[u] = pc[u] /\ frame'[u] = frame[u]
      BY <3>1, <1>2 DEF Goto
    <3>8. Loop \in Threads \ {t} /\ Users \subseteq Threads
      BY <2>1 DEF Threads
    <3>9. /\ ~ HoldsFd(t)' /\ \A u \in Threads \ {t} : HoldsFd(u)' <=> HoldsFd(u)
      BY <3>7, <2>1 DEF HoldsFd, Holds
    <3>10. /\ fdtab[f.fd] = "timer" /\ \A i \in interest : i[2] # f.fd
           /\ \A u \in Threads \ {t} : HoldsFd(u) => frame[u].fd # f.fd
      BY <2>1, <2>2, <1>7
    <3>11. CallsOK'
      BY <3>5, <3>7, <3>8, <1>1, <1>6, <2>1 DEF CallsOK
    <3>12. EpsOK'
      <4>1. \A ep \in eps : fdtab'[ep] = "epoll" /\ Found(ep)'
        BY <2>3, <1>1, FoundSame DEF EpsOK
      <4>2. \A u \in Users : pc'[u] = "append" => u # t /\ pc[u] = "append" /\ frame'[u] = frame[u]
        BY <3>7, <3>8
      <4>. QED  BY <4>1, <4>2, <3>5, <3>7, <3>8, <2>3, <1>1, <1>3, <1>6 DEF EpsOK, loop
    <3>13. FdsOK'
      BY <3>2, <3>6, <3>7, <3>9, <3>10, <2>3, <1>1 DEF FdsOK
    <3>14. \A i \in interest : i[3] \in Blks /\ i[3] # b
      BY <3>4, <1>1, <1>2 DEF KernelOK
    <3>15. LiveOK'
      <4>1. \A i \in interest : /\ i[1] \in eps /\ fdtab'[i[2]] = "timer"
                                /\ blk'[i[3]].st = "live"
        BY <3>4, <3>14, <2>3, <1>1 DEF LiveOK
      <4>2. r[1] \in eps /\ fdtab'[r[2]] = "timer" /\ blk'[r[3]].st = "live"
        BY <3>4, <3>6, <3>10, <2>3, <1>6
      <4>3. \A i, j \in interest : i[2] = j[2] => i[1] = j[1]
        BY <1>1 DEF LiveOK
      <4>. QED  BY <4>1, <4>2, <4>3, <3>2, <3>6, <3>10, <1>3 DEF LiveOK
    <3>16. BatchOK'
      <4>1. \A c : <<loopfd, blk[c].fd, c>> \in interest => blk'[c].fd = blk[c].fd
        <5> SUFFICES ASSUME NEW c, <<loopfd, blk[c].fd, c>> \in interest
                     PROVE  blk'[c].fd = blk[c].fd
          OBVIOUS
        <5> DEFINE i == <<loopfd, blk[c].fd, c>>
        <5>1. i \in interest /\ i[3] = c
          OBVIOUS
        <5> HIDE DEF i
        <5>. QED  BY <5>1, <3>4, <3>14
      <4>. QED  BY <4>1, <3>2, <3>7, <3>8, <1>1, <1>3 DEF BatchOK, loop
    <3>. QED  BY <3>11, <3>12, <3>13, <3>15, <3>16 DEF StartsInv
  <2>. QED  BY <2>4, <2>5
<1>15. CASE epoll_ctl_del(t)
  <2> DEFINE gone == Registered(f.epfd, f.fd)
             new == [f EXCEPT !.ret = IF gone = {} THEN -1 ELSE 0]
  <2>1. /\ pc[t] = "DEL" /\ t = Loop /\ interest' = interest \ gone
        /\ Goto(t, "remove", new) /\ UNCHANGED <<list, fdtab, blk>>
    BY <1>5, <1>15 DEF epoll_ctl_del, registry
  <2>2. new.op = f.op /\ new.epfd = f.epfd /\ new.fd = f.fd
    BY <1>2 DEF Frame
  <2>3. HoldsFd(t) /\ \A i \in interest : i[2] = f.fd => i[1] = f.epfd
    <3>1. HoldsFd(t)
      BY <2>1, <1>6 DEF HoldsFd, Holds
    <3>. QED  BY <3>1, <1>7
  <2>4. \A i : i \in interest' <=> i \in interest /\ i[2] # f.fd
    BY <2>1, <2>3 DEF Registered
  <2> HIDE DEF new
  <2>5. /\ pc'[t] = "remove" /\ frame'[t] = new
        /\ \A u \in Threads \ {t} : pc'[u] = pc[u] /\ frame'[u] = frame[u]
    BY <2>1, <1>2 DEF Goto
  <2>6. Users \subseteq Threads \ {t}
    BY <2>1, EpollAssumption DEF Threads
  <2>7. HoldsFd(t)' /\ \A u \in Threads \ {t} : HoldsFd(u)' <=> HoldsFd(u)
    BY <2>1, <2>5 DEF HoldsFd, Holds, HasFd, Locked
  <2>8. CallsOK'
    BY <2>1, <2>2, <2>5, <2>6, <1>1, <1>6 DEF CallsOK
  <2>9. EpsOK'
    <3>1. \A ep \in eps : fdtab'[ep] = "epoll" /\ Found(ep)'
      BY <2>1, <1>1, FoundSame DEF EpsOK
    <3>. QED  BY <3>1, <2>1, <2>2, <2>5, <2>6, <1>1, <1>3, <1>6 DEF EpsOK, loop
  <2>10. FdsOK'
    BY <2>1, <2>2, <2>3, <2>4, <2>5, <2>7, <1>1, <1>7 DEF FdsOK
  <2>11. LiveOK'
    BY <2>1, <2>4, <1>1, <1>3 DEF LiveOK
  <2>12. BatchOK'
    <3>1. \A c \in batch : <<loopfd, blk[c].fd, c>> \in interest /\ blk[c].fd # f.fd
      BY <1>1, <1>6, <2>1 DEF BatchOK
    <3>2. \A c \in batch : <<loopfd, blk[c].fd, c>> \in interest'
      BY <3>1, <2>4
    <3>. QED  BY <3>1, <3>2, <2>1, <2>2, <2>5, <1>3 DEF BatchOK, loop
  <2>. QED  BY <2>8, <2>9, <2>10, <2>11, <2>12 DEF StartsInv
<1>. QED  BY <1>3, <1>11, <1>12, <1>13, <1>14, <1>15 DEF ctl

\* The new instance joins the ones the users hold.
LEMMA StartsAppend ==
    ASSUME IInv, StartsInv, NEW u \in Users, create_append(u),
           eps' = eps \cup {frame[u].epfd}, UNCHANGED loop
    PROVE  StartsInv'
<1> DEFINE ep == frame[u].epfd
           node == [epoll_fd |-> ep, hash |-> {}]
<1>1. CallsOK /\ EpsOK /\ FdsOK /\ LiveOK /\ BatchOK /\ TypeOK /\ FrameOK
  BY DEF StartsInv, IInv
<1>2. /\ pc[u] = "append" /\ list' = Append(list, node) /\ Goto(u, "idle", Idle)
      /\ UNCHANGED <<fdtab, interest, blk>>
  BY DEF create_append, kernel
<1>3. u \in Threads /\ Loop \in Threads \ {u} /\ Users \subseteq Threads
  BY EpollAssumption DEF Threads
<1>4. /\ pc'[u] = "idle" /\ frame'[u] = Idle
      /\ \A v \in Threads \ {u} : pc'[v] = pc[v] /\ frame'[v] = frame[v]
  BY <1>1, <1>2, <1>3 DEF Goto, TypeOK
<1>5. /\ ~ HoldsFd(u)' /\ \A v \in Threads \ {u} : HoldsFd(v)' <=> HoldsFd(v)
  BY <1>3, <1>4 DEF HoldsFd, Holds
<1>6. CallsOK'
  BY <1>1, <1>3, <1>4 DEF CallsOK, HasFd, Locked
<1>7. EpsOK'
  <2>1. /\ \A x : Found(x) => Found(x)'
        /\ \A x : x = ep => Found(x)'
    <3>1. list \in Seq(Node) /\ Len(list) \in Nat
      BY <1>1 DEF TypeOK
    <3>2. /\ DOMAIN list \subseteq DOMAIN list' /\ Len(list) + 1 \in DOMAIN list'
          /\ \A i \in DOMAIN list : list'[i] = list[i]
          /\ list'[Len(list) + 1] = node
      BY <3>1, <1>2
    <3>3. node.epoll_fd = ep
      OBVIOUS
    <3> HIDE DEF node, ep
    <3>. QED  BY <3>2, <3>3 DEF Found
  <2>2. \A x \in eps' : fdtab'[x] = "epoll" /\ Found(x)'
    BY <2>1, <1>1, <1>2 DEF EpsOK
  <2>3. ASSUME NEW v \in Users, pc'[v] = "append"
        PROVE  /\ fdtab'[frame'[v].epfd] = "epoll" /\ frame'[v].epfd \notin eps'
               /\ \A w \in Users : pc'[w] = "append" /\ frame'[w].epfd = frame'[v].epfd => v = w
    <3>1. v # u /\ pc[v] = "append" /\ frame'[v] = frame[v]
      BY <2>3, <1>3, <1>4
    <3>2. \A w \in Users : pc'[w] = "append" => pc[w] = "append" /\ frame'[w] = frame[w]
      BY <1>3, <1>4
    <3>3. fdtab[frame[v].epfd] = "epoll" /\ frame[v].epfd \notin eps /\ frame[v].epfd # ep
      BY <3>1, <1>1, <1>2 DEF EpsOK
    <3>. QED  BY <3>1, <3>2, <3>3, <1>1, <1>2 DEF EpsOK
  <2>4. \A v \in Threads : pc'[v] \in HasFd => v # u
    BY <1>4 DEF HasFd, Locked
  <2>. QED  BY <2>2, <2>3, <2>4, <1>1, <1>3, <1>4 DEF EpsOK, loop
<1>8. FdsOK'
  BY <1>1, <1>2, <1>4, <1>5 DEF FdsOK
<1>9. LiveOK'
  BY <1>1, <1>2 DEF LiveOK
<1>10. BatchOK'
  BY <1>1, <1>2, <1>3, <1>4 DEF BatchOK, loop
<1>. QED  BY <1>6, <1>7, <1>8, <1>9, <1>10 DEF StartsInv

\* base_epoll_ctl returned to base_timer_start or to base_timer_stop.
LEMMA StartsReturned ==
    ASSUME IInv, StartsInv, NEW t \in Threads, ctl_returned(t)
    PROVE  StartsInv'
<1> DEFINE f == frame[t]
           x == IF HoldsFd(t) THEN f.fd ELSE 0
<1>1. CallsOK /\ EpsOK /\ FdsOK /\ LiveOK /\ BatchOK /\ TypeOK /\ FrameOK
  BY DEF StartsInv, IInv
<1>2. /\ pc[t] = "ret" /\ Goto(t, Caller(t), Idle) /\ UNCHANGED <<list, blk, eps, loop>>
  BY DEF ctl_returned, registry
<1>3. /\ eps \subseteq FDs /\ interest \subseteq FDs \X FDs \X Blks /\ 0 \notin FDs
      /\ fdtab \in [FDs -> {"free", "epoll", "timer"}]
  BY <1>1, EpollAssumption DEF TypeOK
<1>4. f.op = IF t = Loop THEN "DEL" ELSE "ADD"
  BY <1>1, <1>2 DEF CallsOK, HasFd, Threads
<1>5. HoldsFd(t) <=> f.op = "DEL" \/ (f.op = "ADD" /\ f.ret # 0)
  BY <1>2, <1>4 DEF HoldsFd, Holds, HasFd
<1>6. /\ x \notin eps /\ \A i \in interest : i[1] # x /\ i[2] # x
      /\ \A u \in Threads \ {t} : /\ HoldsFd(u) => frame[u].fd # x
                                  /\ pc[u] = "append" => frame[u].epfd # x
  <2>1. CASE HoldsFd(t)
    <3>1. /\ fdtab[x] = "timer" /\ \A i \in interest : i[2] # x
          /\ \A u \in Threads \ {t} : HoldsFd(u) => frame[u].fd # x
      BY <2>1, <1>1, <1>2 DEF FdsOK
    <3>2. \A u \in Threads : pc[u] = "append" => fdtab[frame[u].epfd] = "epoll"
      BY <1>1 DEF EpsOK, CallsOK, Threads
    <3>. QED  BY <3>1, <3>2, <1>1 DEF EpsOK, LiveOK
  <2>2. CASE ~ HoldsFd(t)
    <3>1. x = 0
      BY <2>2
    <3>2. \A u \in Threads : /\ HoldsFd(u) => frame[u].fd # 0
                             /\ pc[u] = "append" => frame[u].epfd # 0
      BY <1>1, <1>3 DEF FrameOK, HoldsFd, Holds, HasFd, HasEpfd, Locked
    <3> HIDE DEF x
    <3>. QED  BY <3>1, <3>2, <1>3
  <2>. QED  BY <2>1, <2>2
<1>7. interest' = interest /\ \A g \in FDs : g # x => fdtab'[g] = fdtab[g]
  <2>1. CASE HoldsFd(t)
    <3>1. Close(x)
      BY <2>1, <1>5 DEF ctl_returned
    <3> HIDE DEF x
    <3>. QED  BY <3>1, <1>3, <1>6 DEF Close
  <2>2. CASE ~ HoldsFd(t)
    BY <2>2, <1>5 DEF ctl_returned, kernel
  <2>. QED  BY <2>1, <2>2
<1> HIDE DEF x
<1>8. MoveOK(t, Caller(t), Idle, x)
  <2>1. Caller(t) \notin HasFd /\ Caller(t) # "append" /\ ~ Holds(t, Caller(t), Idle)
    BY DEF Caller, HasFd, Locked, Holds
  <2>2. IF t = Loop THEN pc[Loop] # "off" /\ Caller(t) = "dispatch" ELSE Caller(t) = "idle"
    BY <1>2 DEF Caller
  <2>. QED  BY <2>1, <2>2, <1>2, <1>6, <1>7, FoundSame DEF MoveOK
<1>. QED  BY <1>8, MoveStep

\* epoll_thread outside base_epoll_ctl.
LEMMA StartsLoop ==
    ASSUME IInv, StartsInv,
           start_loop \/ epoll_wait \/ dispatch \/ timer1_callback
    PROVE  StartsInv'
<1>1. CallsOK /\ EpsOK /\ FdsOK /\ LiveOK /\ BatchOK /\ TypeOK /\ FrameOK /\ KernelOK
  BY DEF StartsInv, IInv
<1>2. /\ eps \subseteq FDs /\ interest \subseteq FDs \X FDs \X Blks /\ 0 \notin FDs
      /\ pc \in [Threads -> PCs] /\ frame \in [Threads -> Frame]
      /\ Loop \in Threads /\ Users \subseteq Threads \ {Loop}
  BY <1>1, EpollAssumption DEF TypeOK, Threads
\* The steps that only choose the event to dispatch.
<1>3. ASSUME NEW l, l \in {"wait", "dispatch", "callback"}, pc' = [pc EXCEPT ![Loop] = l],
             pc[Loop] \in {"off", "wait", "dispatch"},
             UNCHANGED <<list, kernel, blk, frame, eps>>, loopfd' \in eps, BatchOK'
      PROVE  StartsInv'
  <2>1. pc'[Loop] = l /\ \A u \in Threads \ {Loop} : pc'[u] = pc[u]
    BY <1>2, <1>3
  <2>2. CallsOK'
    BY <2>1, <1>1, <1>2, <1>3 DEF CallsOK, HasFd, Locked
  <2>3. \A u \in Threads : HoldsFd(u)' => HoldsFd(u) /\ u # Loop
    BY <2>1, <1>3 DEF HoldsFd, Holds, HasFd, Locked
  <2>4. EpsOK'
    <3>1. \A ep \in eps : fdtab'[ep] = "epoll" /\ Found(ep)'
      BY <1>1, <1>3, FoundSame DEF EpsOK, kernel
    <3>2. \A u \in Threads : pc'[u] \in HasFd => pc[u] \in HasFd
      BY <2>1, <1>3 DEF HasFd, Locked
    <3>. QED  BY <3>1, <3>2, <2>1, <1>1, <1>2, <1>3 DEF EpsOK, kernel
  <2>5. FdsOK'
    BY <2>1, <2>3, <1>1, <1>3 DEF FdsOK, kernel
  <2>6. LiveOK'
    BY <1>1, <1>3 DEF LiveOK, kernel
  <2>. QED  BY <2>2, <2>4, <2>5, <2>6, <1>3 DEF StartsInv
<1>4. CASE start_loop
  <2>1. /\ pc[Loop] = "off" /\ pc' = [pc EXCEPT ![Loop] = "wait"] /\ loopfd' \in eps
        /\ UNCHANGED <<list, kernel, blk, frame, eps, batch>>
    BY <1>4 DEF start_loop, registry, held
  <2>2. batch' = {} /\ pc'[Loop] = "wait"
    BY <2>1, <1>1, <1>2 DEF BatchOK
  <2>3. BatchOK'
    BY <2>2 DEF BatchOK
  <2>. QED  BY <2>1, <2>3, <1>3
<1>5. CASE epoll_wait
  <2> DEFINE events == {i \in interest : i[1] = loopfd /\ i[2] \in ready}
  <2>1. /\ pc[Loop] = "wait" /\ pc' = [pc EXCEPT ![Loop] = "dispatch"]
        /\ batch' = {i[3] : i \in events}
        /\ UNCHANGED <<list, kernel, blk, frame, eps, loopfd>>
    BY <1>5 DEF epoll_wait, registry, held
  <2>2. pc'[Loop] = "dispatch" /\ loopfd' \in eps
    BY <2>1, <1>1, <1>2 DEF EpsOK
  <2>3. \A b \in batch' : <<loopfd, blk[b].fd, b>> \in interest
    <3> SUFFICES ASSUME NEW b \in batch' PROVE <<loopfd, blk[b].fd, b>> \in interest
      OBVIOUS
    <3>1. PICK i \in interest : i[1] = loopfd /\ i[3] = b
      BY <2>1
    <3>2. i \in FDs \X FDs \X Blks /\ blk[b].fd = i[2]
      BY <3>1, <1>1, <1>2 DEF KernelOK
    <3>3. i = <<loopfd, blk[b].fd, b>>
      BY <3>1, <3>2
    <3>. QED  BY <3>3
  <2>4. BatchOK'
    BY <2>1, <2>2, <2>3 DEF BatchOK, kernel, HasFd, Locked
  <2>. QED  BY <2>1, <2>2, <2>4, <1>3
<1>6. CASE dispatch
  <2>1. /\ pc[Loop] = "dispatch" /\ loopfd \in eps
        /\ UNCHANGED <<list, kernel, blk, frame, eps, loopfd>>
    BY <1>1, <1>6 DEF dispatch, registry, held, EpsOK
  <2>2. CASE batch = {}
    <3>1. batch' = {} /\ pc' = [pc EXCEPT ![Loop] = "wait"] /\ pc'[Loop] = "wait"
      BY <2>2, <1>2, <1>6 DEF dispatch
    <3>2. BatchOK'
      BY <3>1 DEF BatchOK
    <3>. QED  BY <3>1, <3>2, <2>1, <1>3
  <2>3. CASE batch # {}
    <3>1. /\ cur' \in batch /\ batch' = batch \ {cur'}
          /\ pc' = [pc EXCEPT ![Loop] = "callback"] /\ pc'[Loop] = "callback"
      BY <2>3, <1>2, <1>6 DEF dispatch
    <3>2. BatchOK'
      BY <3>1, <2>1, <1>1 DEF BatchOK, kernel, HasFd, Locked
    <3>. QED  BY <3>1, <3>2, <2>1, <1>3
  <2>. QED  BY <2>2, <2>3
<1>7. CASE timer1_callback
  <2> DEFINE b == blk[cur]
  <2>1. /\ pc[Loop] = "callback"
        /\ UNCHANGED <<list, fdtab, interest, blk, eps, loop>>
    BY <1>7 DEF timer1_callback, registry, kernel, held
  <2>2. <<loopfd, b.fd, cur>> \in interest
    BY <2>1, <1>1 DEF BatchOK
  <2>3. /\ b.eplfd = loopfd /\ b.fd \in FDs /\ cur \in Blks
        /\ loopfd \in eps /\ fdtab[b.fd] = "timer"
        /\ \A i \in interest : i[2] = b.fd => i[1] = loopfd /\ i[3] = cur
    <3> DEFINE r == <<loopfd, b.fd, cur>>
    <3>1. r \in interest /\ r[1] = loopfd /\ r[2] = b.fd /\ r[3] = cur
      BY <2>2
    <3> HIDE DEF r
    <3>. QED  BY <3>1, <1>1, <1>2 DEF KernelOK, LiveOK
  <2>4. \A u \in Threads : HoldsFd(u) => u # Loop /\ frame[u].fd # b.fd
    <3>1. ~ HoldsFd(Loop)
      BY <2>1 DEF HoldsFd, Holds, HasFd, Locked
    <3> DEFINE r == <<loopfd, b.fd, cur>>
    <3>2. r \in interest /\ r[2] = b.fd
      BY <2>2
    <3> HIDE DEF r
    <3>. QED  BY <3>1, <3>2, <1>1 DEF FdsOK
  <2>5. \A c \in batch : blk[c].fd # b.fd
    <3> SUFFICES ASSUME NEW c \in batch, blk[c].fd = b.fd PROVE FALSE
      OBVIOUS
    <3> DEFINE r == <<loopfd, blk[c].fd, c>>
    <3>1. r \in interest /\ r[2] = b.fd /\ r[3] = c /\ c # cur
      BY <2>1, <1>1 DEF BatchOK
    <3> HIDE DEF r
    <3>. QED  BY <3>1, <2>3
  <2>6. /\ 0 \notin eps /\ \A i \in interest : i[2] # 0
        /\ \A u \in Threads : /\ HoldsFd(u) => frame[u].fd # 0
                              /\ pc[u] = "append" => frame[u].epfd # 0
    BY <1>1, <1>2 DEF FrameOK, HoldsFd, Holds, HasFd, HasEpfd, Locked
  <2>7. CASE b.once
    <3> DEFINE new == [Idle EXCEPT !.op = "DEL", !.epfd = b.eplfd, !.fd = b.fd]
    <3>1. Goto(Loop, "ctl", new)
      BY <2>7, <1>7 DEF timer1_callback, base_timer_stop
    <3>2. new.op = "DEL" /\ new.epfd = loopfd /\ new.fd = b.fd
      BY <2>3 DEF Idle
    <3> HIDE DEF new, b
    <3>3. MoveOK(Loop, "ctl", new, 0)
      BY <3>1, <3>2, <2>1, <2>3, <2>4, <2>5, <2>6, FoundSame DEF MoveOK
    <3>. QED  BY <3>3, <1>2, MoveStep
  <2>8. CASE ~ b.once
    <3>1. Goto(Loop, "dispatch", Idle)
      BY <2>8, <1>7 DEF timer1_callback
    <3>2. MoveOK(Loop, "dispatch", Idle, 0)
      BY <3>1, <2>1, <2>6, FoundSame DEF MoveOK, Holds, HasFd, Locked
    <3>. QED  BY <3>2, <1>2, MoveStep
  <2>. QED  BY <2>7, <2>8
<1>. QED  BY <1>4, <1>5, <1>6, <1>7

\* Every step preserves it: the calls that could free a block are not made.
LEMMA StartsNext ==
    ASSUME NoCollision, IInv, StartsOK, [Next]_<<vars, role>>
    PROVE  StartsOK'
<1> SUFFICES ASSUME OnlyStarts' PROVE StartsInv'
  BY DEF StartsOK, StartsInv
<1>1. role' = role
  BY DEF Next
<1>2. OnlyStarts /\ StartsInv
  BY <1>1 DEF OnlyStarts, StartsOK, StartsInv
<1>3. CallsOK /\ EpsOK
  BY <1>2 DEF StartsInv
<1>4. ASSUME UNCHANGED <<registry, kernel, blk, threads, held, loop>>
      PROVE  StartsInv'
  <2>1. UNCHANGED <<list, fdtab, interest, blk, pc, frame, eps, loopfd, batch, cur>>
    BY <1>4 DEF registry, kernel, threads, held, loop
  <2>2. (\A t \in Threads : HoldsFd(t)' <=> HoldsFd(t)) /\ (\A ep : Found(ep)' <=> Found(ep))
    BY <2>1 DEF HoldsFd, Found
  <2>3. CallsOK' /\ EpsOK' /\ LiveOK' /\ BatchOK'
    BY <1>2, <2>1, <2>2 DEF StartsInv, CallsOK, EpsOK, LiveOK, BatchOK
  <2>4. FdsOK'
    BY <1>2, <2>1, <2>2 DEF StartsInv, FdsOK
  <2>. QED  BY <2>3, <2>4 DEF StartsInv
<1>5. CASE UNCHANGED <<vars, role>>
  BY <1>4, <1>5 DEF vars
<1>6. ASSUME NEW f \in FDs, Expire(f)
      PROVE  StartsInv'
  BY <1>4, <1>6 DEF Expire
<1>7. CASE epoll_thread
  <2>1. ~ epoll_wait_fails /\ ~ epoll_thread_exits
    BY <1>3 DEF epoll_wait_fails, epoll_thread_exits, CallsOK, EpsOK
  <2>2. Loop \in Threads
    BY DEF Threads
  <2>3. base_epoll_ctl(Loop) \/ ctl_returned(Loop) => StartsInv'
    BY <2>2, <1>2, StartsCtl, StartsReturned
  <2>. QED  BY <2>1, <2>3, <1>2, <1>7, StartsLoop DEF epoll_thread
<1>8. ASSUME NEW u \in Users, user(u)
      PROVE  StartsInv'
  <2>1. ~ user_stops(u) /\ ~ user_mods(u) /\ ~ user_closes(u)
    BY <1>2 DEF OnlyStarts, user_stops, user_mods, user_closes
  <2>2. ~ base_epoll_close(u)
    BY <1>3 DEF base_epoll_close, close_unlink, close_free, close_fd, CallsOK
  <2>3. u \in Threads
    BY DEF Threads
  <2>4. base_epoll_ctl(u) \/ ctl_returned(u) => StartsInv'
    BY <2>3, <1>2, StartsCtl, StartsReturned
  <2>5. create_returns(u) => StartsInv'
    BY <1>2, StartsUser, StartsAppend DEF create_returns
  <2>. QED  BY <2>1, <2>2, <2>4, <2>5, <1>2, <1>8, StartsUser DEF user
<1>. QED  BY <1>5, <1>6, <1>7, <1>8 DEF Next

\* While the users only create instances and start timers, epoll_thread calls
\* back on live blocks, whatever timers stop themselves meanwhile: for every
\* number of users, instances and timers, as long as no two descriptors share
\* a chain of the hash table.
THEOREM TimersStopLive ==
    ASSUME NoCollision
    PROVE  Spec => []SelfStopsLive
<1>1. IInv /\ StartsOK => SelfStopsLive
  <2> SUFFICES ASSUME IInv, StartsOK, OnlyStarts, pc[Loop] = "callback"
               PROVE  blk[cur].st = "live"
    BY DEF SelfStopsLive, DispatchedLive
  <2> DEFINE r == <<loopfd, blk[cur].fd, cur>>
  <2>1. r \in interest /\ r[3] = cur
    BY DEF StartsOK, BatchOK
  <2> HIDE DEF r
  <2>. QED  BY <2>1 DEF StartsOK, LiveOK
<1>2. IInv /\ StartsOK /\ [Next]_<<vars, role>> => StartsOK'
  BY StartsNext
<1>. QED  BY <1>1, <1>2, SpecIInv, StartsInit, PTL DEF Spec

=============================================================================
