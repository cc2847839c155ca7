----------------------------- MODULE SelectServer -----------------------------
(***************************************************************************)
(* The select server of src/select/server.c and clients that run           *)
(* src/select/client.c: connect, write a character and read the next one,  *)
(* twice, close.  A character is the number of times it was incremented.   *)
(* A client may be killed at any time.                                     *)
(***************************************************************************)
EXTENDS Integers, Sequences, FiniteSetsExt

CONSTANTS
    Clients,    \* processes that run select_client
    FDs,        \* descriptors the server may have open
    Backlog,    \* the length given to listen
    NoConn      \* no client

ASSUME SelectAssumption ==
    /\ FDs \subseteq Nat /\ FDs # {}
    /\ Backlog \in Nat
    /\ NoConn \notin Clients

VARIABLES
    cpc, ch,    \* per client: where it is, and its character
    in, out,    \* per client: characters on the way to the server, to the client
    gone,       \* per client: how its end of the connection ended: "no",
                \* "fin", or "rst" (closed with unread input, or written to)
    queue,      \* connections waiting for accept
    conn,       \* the connection behind each descriptor of the server
    readfds,    \* the set the server watches
    testfds,    \* what select left of its copy, minus what was handled
    polled,     \* history, during a scan: conn when select returned
    spc, sch    \* where the server is, and the character it read

client == <<cpc, ch>>
net    == <<in, out, gone, queue>>
server == <<conn, readfds, testfds, polled, spc, sch>>
vars   == <<client, net, server>>

\* The listening socket is the first the server opens.
server_sockfd == Min(FDs)
Socks == FDs \ {server_sockfd}

Init ==
    /\ cpc = [c \in Clients |-> "connect"] /\ ch = [c \in Clients |-> 0]
    /\ in = [c \in Clients |-> <<>>] /\ out = [c \in Clients |-> <<>>]
    /\ gone = [c \in Clients |-> "no"] /\ queue = <<>>
    /\ conn = [f \in Socks |-> NoConn] /\ polled = conn
    /\ readfds = {} /\ testfds = {} /\ spc = "start" /\ sch = 0

-----------------------------------------------------------------------------
(* select_client.                                                          *)

\* Refused before the server listens; delayed while its queue is full.
connect(c) ==
    /\ cpc[c] = "connect"
    /\ IF spc = "start"
       THEN cpc' = [cpc EXCEPT ![c] = "exit"] /\ UNCHANGED queue
       ELSE /\ Len(queue) <= Backlog
            /\ queue' = Append(queue, c)
            /\ cpc' = [cpc EXCEPT ![c] = "write"]
    /\ UNCHANGED <<ch, in, out, gone, server>>

\* Mutant: both characters are written at once.
client_write_both(c) ==
    /\ cpc[c] = "write"
    /\ in' = [in EXCEPT ![c] = @ \o <<ch[c], ch[c]>>]
    /\ cpc' = [cpc EXCEPT ![c] = "read"]
    /\ UNCHANGED <<ch, out, gone, queue, server>>

client_write(c) ==
    /\ cpc[c] = "write"
    /\ in' = [in EXCEPT ![c] = Append(@, ch[c])]
    /\ cpc' = [cpc EXCEPT ![c] = "read"]
    /\ UNCHANGED <<ch, out, gone, queue, server>>

\* The second answer is the last.
client_read(c) ==
    /\ cpc[c] = "read" /\ out[c] # <<>>
    /\ ch' = [ch EXCEPT ![c] = Head(out[c])]
    /\ out' = [out EXCEPT ![c] = Tail(@)]
    /\ cpc' = [cpc EXCEPT ![c] = IF ch[c] = 0 THEN "write" ELSE "close"]
    /\ UNCHANGED <<in, gone, queue, server>>

Hangup(c) == gone' = [gone EXCEPT ![c] = IF out[c] = <<>> THEN "fin" ELSE "rst"]

client_close(c) ==
    /\ cpc[c] = "close"
    /\ Hangup(c)
    /\ cpc' = [cpc EXCEPT ![c] = "done"]
    /\ UNCHANGED <<ch, in, out, queue, server>>

killed(c) ==
    /\ cpc[c] \in {"write", "read", "close"}
    /\ Hangup(c)
    /\ cpc' = [cpc EXCEPT ![c] = "killed"]
    /\ UNCHANGED <<ch, in, out, queue, server>>

-----------------------------------------------------------------------------
(* select_server.                                                          *)

listen ==
    /\ spc = "start"
    /\ readfds' = {server_sockfd} /\ spc' = "select"
    /\ UNCHANGED <<client, net, conn, testfds, polled, sch>>

\* A connection is readable when it has input or was hung up.
Readable(f) ==
    IF f = server_sockfd THEN queue # <<>>
    ELSE conn[f] # NoConn /\ (in[conn[f]] # <<>> \/ gone[conn[f]] # "no")

select ==
    /\ spc = "select"
    /\ testfds' = {f \in readfds \cap FDs : Readable(f)} /\ testfds' # {}
    /\ polled' = conn
    /\ spc' = "scan"
    /\ UNCHANGED <<client, net, conn, readfds, sch>>

\* The scan goes up from 0: the listening socket comes first.
Next_fd == Min(testfds)

\* Mutant: client_sockfd, the connection accepted last, instead of fd.
Closed_last == Max({f \in Socks : conn[f] # NoConn})

\* The connection that is closed.
Closed == Next_fd

scan_ends ==
    /\ spc = "scan" /\ testfds = {}
    /\ spc' = "select" /\ sch' = 0
    /\ polled' = [f \in Socks |-> NoConn]
    /\ UNCHANGED <<client, net, conn, readfds, testfds>>

\* accept's result goes into the set unchecked, -1 too.
accept ==
    /\ spc = "scan" /\ testfds # {} /\ Next_fd = server_sockfd
    /\ LET free == {f \in Socks : conn[f] = NoConn} IN
       IF free # {}
       THEN /\ conn' = [conn EXCEPT ![Min(free)] = Head(queue)]
            /\ queue' = Tail(queue)
            /\ readfds' = readfds \cup {Min(free)}
       ELSE readfds' = readfds \cup {-1} /\ UNCHANGED <<conn, queue>>
    /\ testfds' = testfds \ {server_sockfd}
    /\ UNCHANGED <<client, in, out, gone, polled, spc, sch>>

\* Mutant: a single character counts as nothing.
Finished_one(c) == Len(in[c]) <= 1

\* FIONREAD is 0.
Finished(c) == in[c] = <<>>

\* Mutant: a finished connection stays open.
close_client_keeps ==
    /\ spc = "scan" /\ testfds # {} /\ Next_fd # server_sockfd
    /\ Finished(conn[Next_fd])
    /\ testfds' = testfds \ {Next_fd}
    /\ UNCHANGED <<client, net, conn, readfds, polled, spc, sch>>

close_client ==
    /\ spc = "scan" /\ testfds # {} /\ Next_fd # server_sockfd
    /\ Finished(conn[Next_fd])
    /\ conn' = [conn EXCEPT ![Closed] = NoConn]
    /\ readfds' = readfds \ {Closed}
    /\ testfds' = testfds \ {Next_fd}
    /\ UNCHANGED <<client, net, polled, spc, sch>>

server_read ==
    /\ spc = "scan" /\ testfds # {} /\ Next_fd # server_sockfd
    /\ ~Finished(conn[Next_fd])
    /\ LET c == conn[Next_fd] IN
       sch' = Head(in[c]) /\ in' = [in EXCEPT ![c] = Tail(@)]
    /\ spc' = "write"
    /\ UNCHANGED <<client, out, gone, queue, conn, readfds, testfds, polled>>

\* Mutant: client_sockfd instead of fd.
Answered_last == Max({f \in Socks : conn[f] # NoConn})

\* The connection that is answered.
Answered == Next_fd

\* After sleep(5).  A peer that is gone answers with a reset; on a connection
\* that was reset the write would raise SIGPIPE.
server_write ==
    /\ spc = "write"
    /\ LET c == conn[Answered] IN
       IF gone[c] = "no"
       THEN out' = [out EXCEPT ![c] = Append(@, sch + 1)] /\ UNCHANGED gone
       ELSE gone' = [gone EXCEPT ![c] = "rst"] /\ UNCHANGED out
    /\ spc' = "scan" /\ testfds' = testfds \ {Next_fd}
    /\ UNCHANGED <<client, in, queue, conn, readfds, polled, sch>>

-----------------------------------------------------------------------------
select_client(c) == connect(c) \/ client_write(c) \/ client_read(c) \/ client_close(c)

select_server ==
    \/ listen \/ select \/ scan_ends \/ accept
    \/ close_client \/ server_read \/ server_write

Next == select_server \/ \E c \in Clients : select_client(c) \/ killed(c)

Spec == Init /\ [][Next]_vars

\* Both programs are scheduled; nobody has to be killed.
FairSpec ==
    /\ Spec
    /\ WF_vars(select_server)
    /\ \A c \in Clients : WF_vars(select_client(c))

-----------------------------------------------------------------------------
(* Properties.                                                             *)

\* A bit of testfds is used for the connection select reported it for: no
\* descriptor is closed and given out again in the middle of a scan.
BitsNotStale ==
    \A f \in testfds \ {server_sockfd} : conn[f] = polled[f] /\ conn[f] # NoConn

\* The server never writes to a connection that was reset, which would kill it.
NoSigpipe == spc = "write" => gone[conn[Answered]] # "rst"

\* Every client gets the successors of its own characters: the answers are as
\* many increments as it made round trips.
OwnAnswers ==
    \A c \in Clients : /\ cpc[c] \in {"close", "done"} => ch[c] = 2
                       /\ \A k \in DOMAIN out[c] : out[c][k] = ch[c] + 1

\* A client that connected gets both answers, unless it is killed, and its
\* descriptor is given back.
EveryClientServed ==
    \A c \in Clients : (cpc[c] = "write") ~>
        (cpc[c] \in {"done", "killed"} /\ \A f \in Socks : conn[f] # c)

=============================================================================
