------------------------- MODULE SelectServerProofs -------------------------
(***************************************************************************)
(* Theorems about SelectServer, for every set of clients and descriptors:  *)
(* a scan uses no stale bit, the server never writes to a connection that  *)
(* was reset, and every client gets the successors of its own characters.  *)
(* The inductive invariant says that a client has one character under way  *)
(* at a time: on its way to the server, in the server's hands, or back.    *)
(***************************************************************************)
EXTENDS SelectServer, WellFoundedInduction, TLAPS

Conns == [Socks -> Clients \cup {NoConn}]

TypeOK ==
    /\ cpc \in [Clients -> {"connect", "exit", "write", "read", "close", "done", "killed"}]
    /\ ch \in [Clients -> Nat] /\ sch \in Nat
    /\ in \in [Clients -> Seq(Nat)] /\ out \in [Clients -> Seq(Nat)]
    /\ gone \in [Clients -> {"no", "fin", "rst"}]
    /\ queue \in Seq(Clients)
    /\ conn \in Conns /\ polled \in Conns
    /\ testfds \subseteq FDs
    /\ spc \in {"start", "select", "scan", "write"}

\* There are bits to handle during a scan only; the listening socket's stands
\* for a connection to accept, and is not the one that is answered.
ScanOK ==
    /\ spc \in {"start", "select"} => testfds = {}
    /\ server_sockfd \in testfds => queue # <<>>
    /\ spc = "write" => testfds # {} /\ Next_fd # server_sockfd

\* The server has read a character of c and not answered it.
Serving(c) == spc = "write" /\ conn[Next_fd] = c

\* The character of c that is under way is its own, and there is only one.
OneUnderWay ==
    \A c \in Clients :
        /\ in[c] # <<>> => in[c] = <<ch[c]>> /\ out[c] = <<>> /\ ~Serving(c)
        /\ out[c] # <<>> => out[c] = <<ch[c] + 1>> /\ ~Serving(c)
        /\ Serving(c) => sch = ch[c]

\* Where a client is tells how far it got, and whether it waits for an answer.
ClientOK ==
    \A c \in Clients :
        /\ cpc[c] \in {"connect", "exit", "write", "close", "done"} =>
              in[c] = <<>> /\ out[c] = <<>> /\ ~Serving(c)
        /\ cpc[c] \in {"connect", "exit", "write", "read", "close"} => gone[c] = "no"
        /\ cpc[c] \in {"connect", "exit"} => ch[c] = 0
        /\ cpc[c] \in {"write", "read"} => ch[c] \in {0, 1}
        /\ cpc[c] \in {"close", "done"} => ch[c] = 2

\* A connection is reset by the last thing that happens on it.
ResetOK == \A c \in Clients : gone[c] = "rst" => in[c] = <<>> /\ ~Serving(c)

IInv ==
    /\ TypeOK /\ ScanOK /\ BitsNotStale
    /\ OneUnderWay /\ ClientOK /\ ResetOK

-----------------------------------------------------------------------------
(* The descriptors.                                                        *)

\* A set of descriptors that is not empty has a lowest one.
LEMMA MinIn ==
    ASSUME NEW T, T \subseteq FDs, T # {}
    PROVE  Min(T) \in T
<1> DEFINE R == OpToRel(<, Nat)
<1>1. T \subseteq Nat
  BY SelectAssumption
<1>2. PICK x \in T : \A y \in T : ~ (<<y, x>> \in R)
  BY <1>1, NatLessThanWellFounded, WFMin
<1>3. \A y \in Nat : y < x => <<y, x>> \in R
  BY <1>1 DEF OpToRel
<1> HIDE DEF R
<1>4. \A y \in T : ~ (y < x)
  BY <1>1, <1>2, <1>3
<1>5. \A y \in T : x =< y
  BY <1>1, <1>4
<1>. QED  BY <1>5 DEF Min

LEMMA Sockfd == server_sockfd \in FDs /\ Socks = FDs \ {server_sockfd}
BY MinIn, SelectAssumption DEF server_sockfd, Socks

\* The bit a scan is at stands for a connection.
LEMMA ScannedConn ==
    ASSUME IInv, spc \in {"scan", "write"}, testfds # {}, Next_fd # server_sockfd
    PROVE  /\ Next_fd \in testfds /\ Next_fd \in Socks /\ conn[Next_fd] \in Clients
<1>1. Next_fd \in testfds
  BY MinIn DEF Next_fd, IInv, TypeOK
<1>2. Next_fd \in Socks
  BY <1>1, Sockfd DEF IInv, TypeOK
<1>. QED  BY <1>1, <1>2 DEF IInv, TypeOK, BitsNotStale, Conns

-----------------------------------------------------------------------------
(* Every step preserves the invariant.                                     *)

LEMMA InitInv == Init => IInv
<1> SUFFICES ASSUME Init PROVE IInv
  OBVIOUS
<1>1. TypeOK
  BY DEF Init, TypeOK, Conns
<1>2. ScanOK /\ BitsNotStale
  BY DEF Init, ScanOK, BitsNotStale
<1>3. OneUnderWay /\ ClientOK /\ ResetOK
  BY DEF Init, OneUnderWay, ClientOK, ResetOK, Serving
<1>. QED  BY <1>1, <1>2, <1>3 DEF IInv

\* A step of a client leaves the server as it is, and the other clients.
LEMMA ClientStep ==
    ASSUME IInv, NEW c \in Clients, UNCHANGED server,
           queue' = queue \/ queue' = Append(queue, c),
           TypeOK',
           \A d \in Clients \ {c} : /\ cpc'[d] = cpc[d] /\ ch'[d] = ch[d]
                                    /\ in'[d] = in[d] /\ out'[d] = out[d] /\ gone'[d] = gone[d],
           /\ in'[c] # <<>> => in'[c] = <<ch'[c]>> /\ out'[c] = <<>> /\ ~Serving(c)
           /\ out'[c] # <<>> => out'[c] = <<ch'[c] + 1>> /\ ~Serving(c)
           /\ Serving(c) => ch'[c] = ch[c],
           /\ cpc'[c] \in {"connect", "exit", "write", "close", "done"} =>
                 in'[c] = <<>> /\ out'[c] = <<>> /\ ~Serving(c)
           /\ cpc'[c] \in {"connect", "exit", "write", "read", "close"} => gone'[c] = "no"
           /\ cpc'[c] \in {"connect", "exit"} => ch'[c] = 0
           /\ cpc'[c] \in {"write", "read"} => ch'[c] \in {0, 1}
           /\ cpc'[c] \in {"close", "done"} => ch'[c] = 2,
           gone'[c] = "rst" => in'[c] = <<>> /\ ~Serving(c)
    PROVE  IInv'
<1>1. /\ UNCHANGED <<conn, testfds, polled, spc, sch>> /\ Next_fd' = Next_fd
      /\ \A d \in Clients : Serving(d)' <=> Serving(d)
  BY DEF server, Serving, Next_fd
<1>2. queue # <<>> => queue' # <<>>
  BY DEF IInv, TypeOK
<1>3. ScanOK' /\ BitsNotStale'
  <2>1. server_sockfd' = server_sockfd
    BY DEF server_sockfd
  <2>. QED  BY <1>1, <1>2, <2>1 DEF IInv, ScanOK, BitsNotStale
<1>4. OneUnderWay'
  BY <1>1 DEF IInv, OneUnderWay
<1>5. ClientOK'
  BY <1>1 DEF IInv, ClientOK
<1>6. ResetOK'
  BY <1>1 DEF IInv, ResetOK
<1>. QED  BY <1>3, <1>4, <1>5, <1>6 DEF IInv

LEMMA ClientInv ==
    ASSUME IInv, NEW c \in Clients, select_client(c) \/ killed(c)
    PROVE  IInv'
<1>1. /\ TypeOK
      /\ cpc \in [Clients -> {"connect", "exit", "write", "read", "close", "done", "killed"}]
      /\ ch \in [Clients -> Nat] /\ in \in [Clients -> Seq(Nat)] /\ out \in [Clients -> Seq(Nat)]
      /\ gone \in [Clients -> {"no", "fin", "rst"}] /\ queue \in Seq(Clients)
  BY DEF IInv, TypeOK
<1>2. /\ in[c] # <<>> => in[c] = <<ch[c]>> /\ out[c] = <<>> /\ ~Serving(c)
      /\ out[c] # <<>> => out[c] = <<ch[c] + 1>> /\ ~Serving(c)
  BY DEF IInv, OneUnderWay
<1>3. /\ cpc[c] \in {"connect", "exit", "write", "close", "done"} =>
            in[c] = <<>> /\ out[c] = <<>> /\ ~Serving(c)
      /\ cpc[c] \in {"connect", "exit", "write", "read", "close"} => gone[c] = "no"
      /\ cpc[c] \in {"connect", "exit"} => ch[c] = 0
      /\ cpc[c] \in {"write", "read"} => ch[c] \in {0, 1}
      /\ cpc[c] \in {"close", "done"} => ch[c] = 2
  BY DEF IInv, ClientOK
<1>4. CASE connect(c)
  <2>1. /\ cpc[c] = "connect" /\ cpc'[c] \in {"exit", "write"}
        /\ \A d \in Clients \ {c} : cpc'[d] = cpc[d]
        /\ queue' = queue \/ queue' = Append(queue, c)
        /\ UNCHANGED <<ch, in, out, gone, server>>
    BY <1>1, <1>4 DEF connect
  <2>2. TypeOK'
    <3>0. Append(queue, c) \in Seq(Clients)
      BY <1>1
    <3>1. /\ cpc' = [cpc EXCEPT ![c] = "exit"] \/ cpc' = [cpc EXCEPT ![c] = "write"]
          /\ queue' \in Seq(Clients)
      <4>1. cpc' = [cpc EXCEPT ![c] = "exit"] \/ cpc' = [cpc EXCEPT ![c] = "write"]
        BY <1>4 DEF connect
      <4>. QED  BY <4>1, <3>0, <2>1, <1>1
    <3>2. cpc' \in [Clients -> {"connect", "exit", "write", "read", "close", "done", "killed"}]
      BY <3>1, <1>1
    <3>. QED  BY <2>1, <3>1, <3>2, <1>1 DEF TypeOK, server
  <2>. QED  BY <2>1, <2>2, <1>3, ClientStep
<1>5. CASE client_write(c)
  <2>1. /\ cpc[c] = "write" /\ cpc'[c] = "read" /\ in'[c] = Append(in[c], ch[c])
        /\ \A d \in Clients \ {c} : cpc'[d] = cpc[d] /\ in'[d] = in[d]
        /\ UNCHANGED <<ch, out, gone, queue, server>>
    BY <1>1, <1>5 DEF client_write
  <2>2. TypeOK'
    BY <1>1, <1>5 DEF TypeOK, client_write, server
  <2>3. in'[c] = <<ch[c]>> /\ out[c] = <<>> /\ ~Serving(c) /\ gone[c] = "no"
    BY <2>1, <1>1, <1>3
  <2>. QED  BY <2>1, <2>2, <2>3, <1>3, ClientStep
<1>6. CASE client_read(c)
  <2>1. /\ cpc[c] = "read" /\ out[c] # <<>> /\ ch'[c] = Head(out[c]) /\ out'[c] = Tail(out[c])
        /\ cpc'[c] = (IF ch[c] = 0 THEN "write" ELSE "close")
        /\ \A d \in Clients \ {c} : cpc'[d] = cpc[d] /\ ch'[d] = ch[d] /\ out'[d] = out[d]
        /\ UNCHANGED <<in, gone, queue, server>>
    BY <1>1, <1>6 DEF client_read
  <2>2. out[c] = <<ch[c] + 1>> /\ in[c] = <<>> /\ ~Serving(c) /\ gone[c] = "no"
    BY <2>1, <1>2, <1>3
  <2>3. ch'[c] = ch[c] + 1 /\ out'[c] = <<>>
    BY <2>1, <2>2
  <2>4. TypeOK'
    <3>1. ch' \in [Clients -> Nat] /\ out' \in [Clients -> Seq(Nat)]
      BY <2>1, <2>3, <1>1, <1>6 DEF client_read
    <3>. QED  BY <3>1, <1>1, <1>6 DEF TypeOK, client_read, server
  <2>5. ch[c] = 0 \/ ch[c] = 1
    BY <2>1, <1>3
  <2>. QED  BY <2>1, <2>2, <2>3, <2>4, <2>5, ClientStep
<1>7. CASE client_close(c) \/ killed(c)
  <2>1. /\ IF cpc'[c] = "done" THEN cpc[c] = "close" ELSE cpc'[c] = "killed"
        /\ gone'[c] = (IF out[c] = <<>> THEN "fin" ELSE "rst")
        /\ \A d \in Clients \ {c} : cpc'[d] = cpc[d] /\ gone'[d] = gone[d]
        /\ UNCHANGED <<ch, in, out, queue, server>>
    BY <1>1, <1>7 DEF client_close, killed, Hangup
  <2>2. TypeOK'
    BY <1>1, <1>7 DEF TypeOK, client_close, killed, Hangup, server
  <2>. QED  BY <2>1, <2>2, <1>2, <1>3, ClientStep
<1>. QED  BY <1>4, <1>5, <1>6, <1>7 DEF select_client

\* Steps of the server that no client notices.
LEMMA QuietServer ==
    ASSUME IInv, UNCHANGED <<client, in, out, gone>>, TypeOK', ScanOK', BitsNotStale',
           \A c \in Clients : ~Serving(c)'
    PROVE  IInv'
<1>1. OneUnderWay'
  BY DEF IInv, OneUnderWay, client
<1>2. ClientOK'
  BY DEF IInv, ClientOK, client
<1>3. ResetOK'
  BY DEF IInv, ResetOK, client
<1>. QED  BY <1>1, <1>2, <1>3 DEF IInv

LEMMA ServerInv ==
    ASSUME IInv, select_server
    PROVE  IInv'
<1>1. TypeOK /\ ScanOK /\ BitsNotStale /\ conn \in Conns /\ queue \in Seq(Clients)
  BY DEF IInv, TypeOK
<1>2. server_sockfd' = server_sockfd /\ Socks' = Socks
  BY DEF server_sockfd, Socks
<1>3. CASE listen
  <2>1. /\ spc = "start" /\ spc' = "select"
        /\ UNCHANGED <<client, in, out, gone, queue, conn, testfds, polled, sch>>
    BY <1>3 DEF listen, net
  <2>2. TypeOK' /\ ScanOK' /\ BitsNotStale' /\ \A c \in Clients : ~Serving(c)'
    BY <2>1, <1>1, <1>2 DEF TypeOK, ScanOK, BitsNotStale, Serving, client
  <2>. QED  BY <2>1, <2>2, QuietServer
<1>4. CASE select
  <2>1. /\ spc' = "scan" /\ polled' = conn
        /\ testfds' = {f \in readfds \cap FDs : Readable(f)}
        /\ UNCHANGED <<client, in, out, gone, queue, conn, sch>>
    BY <1>4 DEF select, net
  <2>2. TypeOK'
    BY <2>1, <1>1 DEF TypeOK, client
  <2>3. ScanOK' /\ BitsNotStale'
    BY <2>1, <1>2 DEF ScanOK, BitsNotStale, Readable
  <2>4. \A c \in Clients : ~Serving(c)'
    BY <2>1 DEF Serving
  <2>. QED  BY <2>1, <2>2, <2>3, <2>4, QuietServer
<1>5. CASE scan_ends
  <2>1. /\ testfds = {} /\ testfds' = {} /\ spc' = "select" /\ sch' = 0
        /\ polled' = [f \in Socks |-> NoConn]
        /\ UNCHANGED <<client, in, out, gone, queue, conn>>
    BY <1>5 DEF scan_ends, net
  <2>2. TypeOK'
    BY <2>1, <1>1 DEF TypeOK, client, Conns
  <2>3. ScanOK' /\ BitsNotStale' /\ \A c \in Clients : ~Serving(c)'
    BY <2>1 DEF ScanOK, BitsNotStale, Serving
  <2>. QED  BY <2>1, <2>2, <2>3, QuietServer
<1>6. CASE accept
  <2> DEFINE free == {f \in Socks : conn[f] = NoConn}
  <2>1. /\ spc = "scan" /\ spc' = "scan" /\ testfds # {} /\ Next_fd = server_sockfd
        /\ testfds' = testfds \ {server_sockfd}
        /\ UNCHANGED <<client, in, out, gone, polled, sch>>
    BY <1>6 DEF accept
  <2>2. queue # <<>>
    <3>1. Next_fd \in testfds
      BY <2>1, <1>1, MinIn DEF Next_fd, TypeOK
    <3>. QED  BY <3>1, <2>1, <1>1 DEF ScanOK
  <2>3. /\ conn' \in Conns /\ queue' \in Seq(Clients)
        /\ \A f \in Socks : conn[f] # NoConn => conn'[f] = conn[f]
    <3>1. CASE free # {}
      <4>1. Min(free) \in free
        BY <3>1, MinIn, Sockfd
      <4>2. /\ conn' = [conn EXCEPT ![Min(free)] = Head(queue)]
            /\ queue' = Tail(queue)
        BY <3>1, <1>6 DEF accept
      <4>3. Head(queue) \in Clients /\ Tail(queue) \in Seq(Clients)
        BY <2>2, <1>1
      <4>. QED  BY <4>1, <4>2, <4>3, <1>1 DEF Conns
    <3>2. CASE free = {}
      BY <3>2, <1>1, <1>6 DEF accept
    <3>. QED  BY <3>1, <3>2
  <2>4. TypeOK'
    BY <2>1, <2>3, <1>1 DEF TypeOK, client
  <2>5. ScanOK'
    BY <2>1, <1>2 DEF ScanOK
  <2>6. BitsNotStale'
    <3>1. \A f \in testfds \ {server_sockfd} : f \in Socks
      BY <1>1, Sockfd DEF TypeOK
    <3>. QED  BY <3>1, <2>1, <2>3, <1>1, <1>2 DEF BitsNotStale
  <2>7. \A c \in Clients : ~Serving(c)'
    BY <2>1 DEF Serving
  <2>. QED  BY <2>1, <2>4, <2>5, <2>6, <2>7, QuietServer
<1>7. CASE close_client
  <2>1. /\ spc = "scan" /\ spc' = "scan" /\ testfds # {} /\ Next_fd # server_sockfd
        /\ testfds' = testfds \ {Next_fd} /\ conn' = [conn EXCEPT ![Next_fd] = NoConn]
        /\ UNCHANGED <<client, in, out, gone, queue, polled, sch>>
    BY <1>7 DEF close_client, Closed, net
  <2>2. Next_fd \in testfds /\ Next_fd \in Socks
    BY <2>1, ScannedConn
  <2>3. conn' \in Conns /\ \A f \in Socks : f # Next_fd => conn'[f] = conn[f]
    BY <2>1, <2>2, <1>1 DEF Conns
  <2>4. TypeOK'
    BY <2>1, <2>3, <1>1 DEF TypeOK, client
  <2>5. ScanOK'
    BY <2>1, <2>2, <1>1, <1>2 DEF ScanOK
  <2>6. BitsNotStale'
    <3>1. \A f \in testfds \ {server_sockfd} : f \in Socks
      BY <1>1, Sockfd DEF TypeOK
    <3>. QED  BY <3>1, <2>1, <2>3, <1>1, <1>2 DEF BitsNotStale
  <2>7. \A c \in Clients : ~Serving(c)'
    BY <2>1 DEF Serving
  <2>. QED  BY <2>1, <2>4, <2>5, <2>6, <2>7, QuietServer
<1>8. CASE server_read
  <2> DEFINE c == conn[Next_fd]
  <2>1. /\ spc = "scan" /\ spc' = "write" /\ testfds # {} /\ Next_fd # server_sockfd
        /\ in[c] # <<>> /\ sch' = Head(in[c]) /\ in' = [in EXCEPT ![c] = Tail(in[c])]
        /\ UNCHANGED <<client, out, gone, queue, conn, testfds, polled>>
    BY <1>8 DEF server_read, Finished
  <2>2. c \in Clients /\ Next_fd' = Next_fd /\ conn' = conn
    BY <2>1, ScannedConn DEF Next_fd
  <2>3. \A d \in Clients : ~Serving(d) /\ (Serving(d)' <=> d = c)
    BY <2>1, <2>2 DEF Serving
  <2>4. in[c] = <<ch[c]>> /\ out[c] = <<>>
    BY <2>1, <2>2 DEF IInv, OneUnderWay
  <2>5. /\ in'[c] = <<>> /\ sch' = ch[c] /\ sch' \in Nat
        /\ \A d \in Clients \ {c} : in'[d] = in[d]
    BY <2>1, <2>2, <2>4, <1>1 DEF TypeOK
  <2>6. TypeOK'
    <3>1. in' \in [Clients -> Seq(Nat)]
      BY <2>1, <2>2, <2>5, <1>1 DEF TypeOK
    <3>. QED  BY <3>1, <2>1, <2>5, <1>1 DEF TypeOK, client
  <2>7. ScanOK' /\ BitsNotStale'
    BY <2>1, <2>2, <1>1, <1>2 DEF ScanOK, BitsNotStale
  <2> HIDE DEF c
  <2>8. OneUnderWay'
    BY <2>1, <2>3, <2>4, <2>5 DEF IInv, OneUnderWay, client
  <2>9. cpc[c] \in {"read", "killed"} /\ gone[c] # "rst"
    BY <2>1, <2>2, <1>1 DEF IInv, TypeOK, ClientOK, ResetOK
  <2>10. ClientOK'
    BY <2>1, <2>3, <2>5, <2>9 DEF IInv, ClientOK, client
  <2>11. ResetOK'
    BY <2>1, <2>3, <2>5, <2>9 DEF IInv, ResetOK
  <2>. QED  BY <2>6, <2>7, <2>8, <2>10, <2>11 DEF IInv
<1>9. CASE server_write
  <2> DEFINE c == conn[Next_fd]
  <2>1. /\ spc = "write" /\ spc' = "scan" /\ testfds' = testfds \ {Next_fd}
        /\ IF gone[c] = "no"
           THEN out' = [out EXCEPT ![c] = Append(out[c], sch + 1)] /\ gone' = gone
           ELSE gone' = [gone EXCEPT ![c] = "rst"] /\ out' = out
        /\ UNCHANGED <<client, in, queue, conn, polled, sch>>
    BY <1>9 DEF server_write, Answered
  <2>2. c \in Clients
    BY <2>1, <1>1, ScannedConn DEF ScanOK
  <2>3. Serving(c) /\ \A d \in Clients : ~Serving(d)'
    BY <2>1 DEF Serving
  <2>4. in[c] = <<>> /\ out[c] = <<>> /\ sch = ch[c] /\ ch[c] \in Nat
    BY <2>2, <2>3, <1>1 DEF IInv, OneUnderWay, TypeOK
  <2>5. cpc[c] \in {"read", "killed"}
    BY <2>2, <2>3, <1>1 DEF IInv, TypeOK, ClientOK
  <2>6. /\ out'[c] \in {<<>>, <<ch[c] + 1>>} /\ gone'[c] \in {"no", "rst"}
        /\ gone'[c] = "rst" => gone[c] # "no"
        /\ \A d \in Clients \ {c} : out'[d] = out[d] /\ gone'[d] = gone[d]
        /\ out' \in [Clients -> Seq(Nat)] /\ gone' \in [Clients -> {"no", "fin", "rst"}]
    <3>1. <<ch[c] + 1>> \in Seq(Nat) /\ Append(out[c], sch + 1) = <<ch[c] + 1>>
      BY <2>4
    <3>2. /\ out \in [Clients -> Seq(Nat)] /\ gone \in [Clients -> {"no", "fin", "rst"}]
          /\ out[c] = <<>>
      BY <2>4, <1>1 DEF TypeOK
    <3>3. CASE gone[c] = "no"
      BY <3>1, <3>2, <3>3, <2>1, <2>2
    <3>4. CASE gone[c] # "no"
      BY <3>1, <3>2, <3>4, <2>1, <2>2
    <3>. QED  BY <3>3, <3>4
  <2>7. TypeOK'
    BY <2>1, <2>6, <1>1 DEF TypeOK, client
  <2>8. ScanOK' /\ BitsNotStale'
    BY <2>1, <1>1, <1>2 DEF ScanOK, BitsNotStale
  <2> HIDE DEF c
  <2>9. OneUnderWay'
    BY <2>1, <2>3, <2>4, <2>6 DEF IInv, OneUnderWay, client
  <2>10. ClientOK'
    BY <2>1, <2>3, <2>5, <2>6 DEF IInv, ClientOK, client
  <2>11. ResetOK'
    BY <2>1, <2>3, <2>4, <2>6 DEF IInv, ResetOK
  <2>. QED  BY <2>7, <2>8, <2>9, <2>10, <2>11 DEF IInv
<1>. QED  BY <1>3, <1>4, <1>5, <1>6, <1>7, <1>8, <1>9 DEF select_server

LEMMA SpecInv == Spec => []IInv
<1>1. IInv /\ UNCHANGED vars => IInv'
  <2> SUFFICES ASSUME IInv, UNCHANGED vars PROVE IInv'
    OBVIOUS
  <2>1. /\ UNCHANGED <<cpc, ch, in, out, gone, queue, conn, testfds, polled, spc, sch>>
        /\ \A c \in Clients : Serving(c)' <=> Serving(c)
    BY DEF vars, client, net, server, Serving, Next_fd
  <2>2. TypeOK' /\ ScanOK' /\ BitsNotStale'
    BY <2>1 DEF IInv, TypeOK, ScanOK, BitsNotStale, server_sockfd, Next_fd, Conns, Socks
  <2>3. OneUnderWay' /\ ClientOK' /\ ResetOK'
    BY <2>1 DEF IInv, OneUnderWay, ClientOK, ResetOK
  <2>. QED  BY <2>2, <2>3 DEF IInv
<1>2. IInv /\ [Next]_vars => IInv'
  BY <1>1, ClientInv, ServerInv DEF Next
<1>. QED  BY <1>2, InitInv, PTL DEF Spec

-----------------------------------------------------------------------------
(* The theorems.                                                           *)

\* For every set of clients and descriptors, each bit of testfds still stands
\* for the connection select reported when the scan comes to it, though the
\* same scan accepts and closes connections.
THEOREM ScanUsesNoStaleBit == Spec => []BitsNotStale
<1>1. IInv => BitsNotStale
  BY DEF IInv
<1>. QED  BY <1>1, SpecInv, PTL

\* The server's write never meets a reset connection: when a client is killed
\* during the server's sleep it is the first write after that is answered with
\* the reset, and no second one follows.
THEOREM NeverSigpipe == Spec => []NoSigpipe
<1>1. IInv => NoSigpipe
  <2> SUFFICES ASSUME IInv, spc = "write" PROVE gone[conn[Next_fd]] # "rst"
    BY DEF NoSigpipe, Answered
  <2>1. conn[Next_fd] \in Clients /\ Serving(conn[Next_fd])
    BY ScannedConn DEF IInv, ScanOK, Serving
  <2>. QED  BY <2>1 DEF IInv, ResetOK
<1>. QED  BY <1>1, SpecInv, PTL

\* Whatever the other clients do, a client reads the successor of what it
\* wrote, and has 'C' after its two round trips.
THEOREM AnswersAreOwn == Spec => []OwnAnswers
<1>1. IInv => OwnAnswers
  <2> SUFFICES ASSUME IInv, NEW c \in Clients
               PROVE  /\ cpc[c] \in {"close", "done"} => ch[c] = 2
                      /\ \A k \in DOMAIN out[c] : out[c][k] = ch[c] + 1
    BY DEF OwnAnswers
  <2>1. out[c] \in Seq(Nat) /\ (out[c] = <<>> \/ out[c] = <<ch[c] + 1>>)
    BY DEF IInv, OneUnderWay, TypeOK
  <2>. QED  BY <2>1 DEF IInv, ClientOK
<1>. QED  BY <1>1, SpecInv, PTL

=============================================================================
